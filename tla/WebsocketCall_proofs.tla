------------------------- MODULE WebsocketCall_proofs -------------------------
(***************************************************************************)
(* Proofs about WebsocketCall, for every number of requests, responses and *)
(* callbacks.  Upwards: the method's handler sees the requests in their    *)
(* order, and an end of the request stream that it can trust is one the    *)
(* client meant.  Downwards: what the client is handed is the beginning of *)
(* what the handler has written.  From both: the WebSocket transport is a  *)
(* transport in the sense of AnyTransportCall, whose theorems then hold    *)
(* here, and the end that the client is told is the handler's.             *)
(***************************************************************************)
EXTENDS WebsocketCall, SequenceTheorems, TLAPS

\* The variables of the upward direction.
clientEnd == <<started, finishedSending, ws, sendQueue, sent, up>>
serverEnd == <<server, reader, remaining, cancelled, requests, taken>>

StreamTypes ==
  /\ started \in BOOLEAN /\ finishedSending \in BOOLEAN
  /\ sent \in Nat /\ up \in Seq(Int) /\ sendQueue \in Seq(Int)
  /\ taken \in Nat /\ remaining \in Nat /\ requests \in Seq(Nat)

\* The first message holds the headers.
Greeted == up # <<>> /\ up[1] = HeadersFrame

\* After n messages, s is all that the application has sent.
Whole(s, n) ==
  /\ Len(s) = n + sent + (IF finishedSending THEN 1 ELSE 0)
  /\ \A j \in (n + 1)..Len(s) : s[j] = IF j <= n + sent THEN j - n ELSE FinishSendFrame

\* Nothing is lost or overtaken between the queue and the socket; after the
\* headers the n-th request is the n-th message, and FINISH_SEND comes after
\* the last request.
StreamInv ==
  /\ started <=> ws # "none"
  /\ ws \in {"none", "connecting"} => up = <<>> /\ Whole(sendQueue, 0)
  /\ ws = "open" /\ Greeted => Whole(up, 1)
  /\ Greeted => \A j \in 2..Len(up) :
       \/ up[j] = j - 1 /\ j - 1 <= sent
       \/ up[j] = FinishSendFrame /\ finishedSending /\ j = sent + 2
       \/ up[j] = CloseFrame

\* The wrapped server is not reached.
Unserved == server \in {"handshake", "aborted"}

\* Read has handed over what it has taken, but for the rest of a frame.
ReaderInv ==
  /\ taken <= Len(up)
  /\ server = "handshake" => taken = 0
  /\ Unserved => requests = <<>> /\ remaining = 0 /\ reader = "more"
  /\ ~Unserved => taken > 0 /\ Greeted
  /\ ~Unserved /\ reader = "more" =>
       Len(requests) = IF remaining = 0 THEN taken - 1 ELSE taken - 2
  /\ remaining # 0 => remaining = taken - 1
  /\ \A i \in 1..Len(requests) : requests[i] = i
  /\ reader = "eof" /\ ~cancelled => Len(requests) = sent /\ finishedSending

Inv == StreamTypes /\ StreamInv /\ ReaderInv

LEMMA Grown ==
  ASSUME NEW S, NEW s \in Seq(S), NEW x \in S, NEW t, t = Append(s, x)
  PROVE  /\ t \in Seq(S) /\ t # <<>>
         /\ Len(s) \in Nat /\ Len(t) = Len(s) + 1 /\ t[Len(s) + 1] = x
         /\ \A j \in 1..Len(s) : t[j] = s[j]
BY AppendProperties, LenProperties

LEMMA Single ==
  ASSUME NEW S, NEW s \in Seq(S), s # <<>>, Len(s) <= 1 PROVE \E c : s = <<c>>
<1>1. Len(s) \in Nat /\ Len(s) # 0
  BY EmptySeq, LenProperties
<1>2. Len(s) = 1
  BY <1>1
<1>3. s = <<s[1]>>
  BY <1>2
<1> QED BY <1>3

LEMMA Nonempty ==
  ASSUME NEW S, NEW s \in Seq(S) PROVE Len(s) \in Nat /\ (s = <<>> <=> Len(s) = 0)
BY EmptySeq, LenProperties

-----------------------------------------------------------------------------
(* The client *)

\* A step of the client that adds to the stream leaves the server where it is.
LEMMA ReaderKept ==
  ASSUME Inv, StreamTypes', UNCHANGED serverEnd,
         Len(up') >= Len(up), Greeted => Greeted',
         finishedSending => finishedSending' /\ sent' = sent
  PROVE  ReaderInv'
<1>1. /\ server' = server /\ reader' = reader /\ remaining' = remaining
      /\ cancelled' = cancelled /\ requests' = requests /\ taken' = taken
  BY DEF serverEnd
<1>2. Len(up) \in Nat /\ Len(up') \in Nat
  BY LenProperties DEF Inv, StreamTypes
<1>3. taken <= Len(up') /\ (~Unserved => taken > 0 /\ Greeted')
  BY <1>2 DEF Inv, StreamTypes, ReaderInv
<1>4. reader = "eof" /\ ~cancelled => Len(requests) = sent' /\ finishedSending'
  BY DEF Inv, ReaderInv
<1>5. ReaderInv
  BY DEF Inv
<1> QED BY <1>1, <1>3, <1>4, <1>5 DEF ReaderInv, Unserved

\* The socket is open and another message goes out.
LEMMA Sends ==
  ASSUME Inv, NEW x \in Int, x # HeadersFrame, up' = Append(up, x)
  PROVE  /\ up' \in Seq(Int) /\ Len(up') = Len(up) + 1 /\ Len(up) \in Nat
         /\ up'[Len(up) + 1] = x /\ \A j \in 1..Len(up) : up'[j] = up[j]
         /\ Greeted' <=> Greeted
<1>1. up \in Seq(Int)
  BY DEF Inv, StreamTypes
<1>2. /\ up' \in Seq(Int) /\ up' # <<>> /\ Len(up') = Len(up) + 1
      /\ up'[Len(up) + 1] = x /\ \A j \in 1..Len(up) : up'[j] = up[j]
  BY <1>1, Grown
<1>3. Len(up) \in Nat /\ (up = <<>> <=> Len(up) = 0)
  BY <1>1, Nonempty
<1> QED BY <1>2, <1>3 DEF Greeted

\* sendMessage and finishSend: x is what they send.
LEMMA Transmits ==
  ASSUME Inv, StreamTypes', NEW x \in Int, Transmit(x), started, ~finishedSending,
         ws' = ws, started' = started, UNCHANGED serverEnd,
         \/ x = sent + 1 /\ sent' = sent + 1 /\ finishedSending' = finishedSending
         \/ x = FinishSendFrame /\ sent' = sent /\ finishedSending' = TRUE
  PROVE  Inv'
<1>1. sent \in Nat /\ up \in Seq(Int) /\ sendQueue \in Seq(Int) /\ x # HeadersFrame
      /\ Len(up) \in Nat /\ ws # "none"
  BY LenProperties DEF Inv, StreamTypes, StreamInv, FinishSendFrame, HeadersFrame
<1>2. CASE ws = "connecting"
  <2>1. sendQueue' = Append(sendQueue, x) /\ up' = up /\ up = <<>> /\ Whole(sendQueue, 0)
    BY <1>2 DEF Transmit, Inv, StreamInv
  <2>2. /\ Len(sendQueue') = Len(sendQueue) + 1 /\ sendQueue'[Len(sendQueue) + 1] = x
        /\ \A j \in 1..Len(sendQueue) : sendQueue'[j] = sendQueue[j]
    BY <1>1, <2>1, Grown
  <2>3. Whole(sendQueue, 0)'
    BY <1>1, <2>1, <2>2 DEF Whole
  <2>4. ~Greeted /\ ~Greeted'
    BY <2>1 DEF Greeted
  <2>5. StreamInv'
    BY <1>2, <2>1, <2>3, <2>4 DEF Inv, StreamInv
  <2> QED BY <1>1, <2>1, <2>4, <2>5, ReaderKept DEF Inv
<1>3. CASE ws = "open"
  <2>1. up' = Append(up, x) /\ UNCHANGED sendQueue
    BY <1>3 DEF Transmit
  <2>2. /\ Len(up') = Len(up) + 1
        /\ up'[Len(up) + 1] = x /\ \A j \in 1..Len(up) : up'[j] = up[j]
        /\ Greeted' <=> Greeted
    BY <1>1, <2>1, Sends
  <2>3. ASSUME Greeted PROVE Whole(up, 1)'
    <3>1. Whole(up, 1)
      BY <1>3, <2>3 DEF Inv, StreamInv
    <3> QED BY <1>1, <2>2, <3>1, SMTT(30) DEF Whole
  <2>4. Greeted => \A j \in 2..Len(up') :
          \/ up'[j] = j - 1 /\ j - 1 <= sent'
          \/ up'[j] = FinishSendFrame /\ finishedSending' /\ j = sent' + 2
    BY <1>1, <2>2, <2>3 DEF Whole
  <2>5. StreamInv'
    BY <1>1, <1>3, <2>2, <2>3, <2>4 DEF Inv, StreamInv
  <2> QED BY <1>1, <2>2, <2>5, ReaderKept DEF Inv
<1>4. CASE ws \notin {"connecting", "open"}
  <2>1. UNCHANGED <<sendQueue, up>>
    BY <1>4 DEF Transmit
  <2>2. StreamInv'
    BY <1>1, <1>4, <2>1 DEF Inv, StreamInv, Greeted
  <2> QED BY <1>1, <2>1, <2>2, ReaderKept DEF Inv, Greeted
<1> QED BY <1>2, <1>3, <1>4

LEMMA Opens ==
  ASSUME Inv, StreamTypes', OnOpen, UNCHANGED serverEnd
  PROVE  Inv'
<1>1. /\ ws = "connecting" /\ ws' = "open" /\ up = <<>> /\ Whole(sendQueue, 0)
      /\ UNCHANGED <<started, finishedSending, sent, sendQueue>>
  BY DEF OnOpen, Inv, StreamInv, clientVars, flags
<1>2. sent \in Nat /\ sendQueue \in Seq(Int) /\ Len(sendQueue) \in Nat /\ Len(up) = 0 /\ ~Greeted
      /\ started
  BY <1>1, Nonempty DEF Inv, StreamTypes, StreamInv, Greeted
<1>3. CASE metadata = "ascii"
  <2>1. <<HeadersFrame>> \in Seq(Int) /\ Len(<<HeadersFrame>>) = 1
        /\ <<HeadersFrame>>[1] = HeadersFrame
    BY DEF HeadersFrame
  <2>2. up' = <<HeadersFrame>> \o sendQueue
    BY <1>3 DEF OnOpen
  <2>3. /\ Len(up') = 1 + Len(sendQueue)
        /\ \A j \in 1..(1 + Len(sendQueue)) :
             up'[j] = IF j <= 1 THEN HeadersFrame ELSE sendQueue[j - 1]
    <3> DEFINE greeting == <<HeadersFrame>>
    <3>1. greeting \in Seq(Int) /\ Len(greeting) = 1 /\ greeting[1] = HeadersFrame
      BY <2>1
    <3>2. up' = greeting \o sendQueue
      BY <2>2
    <3> HIDE DEF greeting
    <3>3. /\ Len(up') = Len(greeting) + Len(sendQueue)
          /\ \A j \in 1..(Len(greeting) + Len(sendQueue)) :
               up'[j] = IF j <= Len(greeting) THEN greeting[j] ELSE sendQueue[j - Len(greeting)]
      BY <1>2, <3>1, <3>2, ConcatProperties, Zenon
    <3> QED BY <1>2, <3>1, <3>3
  <2>4. Whole(up, 1)'
    BY <1>1, <1>2, <2>3 DEF Whole
  <2>5. \A j \in 2..Len(up') :
          \/ up'[j] = j - 1 /\ j - 1 <= sent
          \/ up'[j] = FinishSendFrame /\ finishedSending /\ j = sent + 2
    BY <1>1, <1>2, <2>3 DEF Whole
  <2>6. StreamInv'
    BY <1>1, <1>2, <2>4, <2>5 DEF StreamInv
  <2> QED BY <1>1, <1>2, <2>3, <2>6, ReaderKept DEF Inv
<1>4. CASE metadata # "ascii"
  <2>1. up' = up
    BY <1>4 DEF OnOpen
  <2>2. ~Greeted'
    BY <1>2, <2>1 DEF Greeted
  <2>3. StreamInv'
    BY <1>1, <1>2, <2>1, <2>2 DEF StreamInv
  <2> QED BY <1>1, <1>2, <2>1, <2>3, ReaderKept DEF Inv
<1> QED BY <1>3, <1>4

\* close() and the end of the connection: at most a close frame is added.
LEMMA Closes ==
  ASSUME Inv, StreamTypes', Cancel \/ OnClose, UNCHANGED serverEnd
  PROVE  Inv'
<1>1. /\ ws' \in {"closing", "closed"} \/ (ws' = ws /\ ws = "closed")
      /\ UNCHANGED <<started, finishedSending, sent, sendQueue>>
      /\ up' = up \/ up' = Append(up, CloseFrame)
  BY DEF Cancel, OnClose, Close, OnTransportEnd, linkVars, clientVars, flags
<1>2. started /\ ws # "none"
  BY DEF Cancel, OnClose, Close, OnTransportEnd, TransportRuns, Inv, StreamInv
<1>3. sent \in Nat /\ Len(up) \in Nat
  BY LenProperties DEF Inv, StreamTypes
<1>4. CASE up' = up
  <2>1. StreamInv'
    BY <1>1, <1>2, <1>4 DEF Inv, StreamInv, Greeted
  <2> QED BY <1>1, <1>3, <1>4, <2>1, ReaderKept DEF Inv, Greeted
<1>5. CASE up' = Append(up, CloseFrame)
  <2>1. /\ Len(up') = Len(up) + 1 /\ up'[Len(up) + 1] = CloseFrame
        /\ \A j \in 1..Len(up) : up'[j] = up[j]
        /\ Greeted' <=> Greeted
    BY <1>5, Sends DEF CloseFrame, HeadersFrame
  <2>2. Greeted => \A j \in 2..Len(up') :
          \/ up'[j] = j - 1 /\ j - 1 <= sent
          \/ up'[j] = FinishSendFrame /\ finishedSending /\ j = sent + 2
          \/ up'[j] = CloseFrame
    BY <1>3, <2>1 DEF Inv, StreamInv
  <2>3. StreamInv'
    BY <1>1, <1>2, <2>1, <2>2 DEF StreamInv
  <2> QED BY <1>1, <1>3, <2>1, <2>3, ReaderKept DEF Inv
<1> QED BY <1>1, <1>4, <1>5

LEMMA ClientTypes ==
  ASSUME Inv, UNCHANGED serverEnd,
         Application \/ SocketEvent \/ (Handler /\ UNCHANGED <<transportVars, linkVars>>)
  PROVE  StreamTypes'
<1>1. started' \in BOOLEAN /\ finishedSending' \in BOOLEAN
  BY DEF Inv, StreamTypes, Application, AttachCallback, Connect, SendMessage, SendFinish, Cancel,
     SocketEvent, OnOpen, OnMessage, OnClose, Handler, HandlerStep, ProcessItem, InvokeCallback,
     LoopEnds, FailAfterHeaders, CallbackReturns, Register, Start, Send, FinishSend, Close,
     OnTransportChunk, OnTransportEnd, clientVars, flags
<1>2. sent' \in {sent, sent + 1}
  BY DEF Application, AttachCallback, Connect, SendMessage, SendFinish, Cancel,
     SocketEvent, OnOpen, OnMessage, OnClose, transportVars
<1>3. \/ UNCHANGED <<up, sendQueue>>
      \/ \E x \in Int : up' = Append(up, x) /\ UNCHANGED sendQueue
      \/ \E x \in Int : sendQueue' = Append(sendQueue, x) /\ UNCHANGED up
      \/ up' = <<HeadersFrame>> \o sendQueue /\ UNCHANGED sendQueue
  <2>1. ASSUME NEW x \in Int, Transmit(x)
        PROVE  \/ UNCHANGED <<up, sendQueue>>
               \/ up' = Append(up, x) /\ UNCHANGED sendQueue
               \/ sendQueue' = Append(sendQueue, x) /\ UNCHANGED up
    BY <2>1 DEF Transmit
  <2>2. sent + 1 \in Int /\ FinishSendFrame \in Int /\ CloseFrame \in Int
    BY DEF Inv, StreamTypes, FinishSendFrame, CloseFrame
  <2> QED BY <2>1, <2>2 DEF Application, AttachCallback, Connect, SendMessage, SendFinish, Cancel,
            SocketEvent, OnOpen, OnMessage, OnClose, transportVars, linkVars
<1>4. up' \in Seq(Int) /\ sendQueue' \in Seq(Int)
  <2>1. \A x \in Int : Append(up, x) \in Seq(Int) /\ Append(sendQueue, x) \in Seq(Int)
    BY AppendProperties DEF Inv, StreamTypes
  <2>2. <<HeadersFrame>> \in Seq(Int)
    BY DEF HeadersFrame
  <2>3. <<HeadersFrame>> \o sendQueue \in Seq(Int)
    BY <2>2, ConcatProperties DEF Inv, StreamTypes
  <2> QED BY <1>3, <2>1, <2>3 DEF Inv, StreamTypes
<1> QED BY <1>1, <1>2, <1>4 DEF Inv, StreamTypes, serverEnd

\* A step that is not about the upward direction.
LEMMA Stutters ==
  ASSUME Inv, UNCHANGED clientEnd, UNCHANGED serverEnd
  PROVE  Inv'
BY DEF Inv, clientEnd, serverEnd, StreamTypes, StreamInv, ReaderInv, Greeted, Whole, Unserved

LEMMA Connects ==
  ASSUME Inv, StreamTypes', Connect, UNCHANGED serverEnd
  PROVE  Inv'
<1>1. /\ ~started /\ started' = TRUE /\ ws' = "connecting"
      /\ UNCHANGED <<finishedSending, sent, sendQueue, up>>
  BY DEF Connect, Start, linkVars
<1>2. ws = "none" /\ up = <<>> /\ Whole(sendQueue, 0)
  BY <1>1 DEF Inv, StreamInv
<1>3. ~Greeted /\ ~Greeted' /\ Whole(sendQueue, 0)'
  BY <1>1, <1>2 DEF Greeted, Whole
<1>4. StreamInv'
  BY <1>1, <1>2, <1>3 DEF StreamInv
<1>5. Len(up) \in Nat
  BY LenProperties DEF Inv, StreamTypes
<1> QED BY <1>1, <1>3, <1>4, <1>5, ReaderKept DEF Inv

LEMMA ClientStep ==
  ASSUME Inv, Client
  PROVE  Inv'
<1>1. UNCHANGED serverEnd
  BY DEF Client, Application, AttachCallback, Connect, SendMessage, SendFinish, Cancel,
     SocketEvent, OnOpen, OnMessage, OnClose, serverVars, serverEnd, linkVars
<1>2. StreamTypes'
  BY <1>1, ClientTypes DEF Client
<1>3. CASE AttachCallback
  BY <1>1, <1>3, Stutters DEF AttachCallback, Register, flags, transportVars, linkVars, clientEnd
<1>4. CASE Connect
  BY <1>1, <1>2, <1>4, Connects
<1>5. CASE SendMessage
  <2>1. /\ Transmit(sent + 1) /\ started /\ ~finishedSending /\ sent' = sent + 1
        /\ UNCHANGED <<ws, started, finishedSending>>
    BY <1>5 DEF SendMessage, Send
  <2>2. sent + 1 \in Int
    BY DEF Inv, StreamTypes
  <2> QED BY <1>1, <1>2, <2>1, <2>2, Transmits
<1>6. CASE SendFinish
  <2>1. /\ Transmit(FinishSendFrame) /\ started /\ ~finishedSending /\ finishedSending' = TRUE
        /\ UNCHANGED <<ws, started, sent>>
    BY <1>6 DEF SendFinish, FinishSend
  <2>2. FinishSendFrame \in Int
    BY DEF FinishSendFrame
  <2> QED BY <1>1, <1>2, <2>1, <2>2, Transmits
<1>7. CASE Cancel \/ OnClose
  BY <1>1, <1>2, <1>7, Closes
<1>8. CASE OnOpen
  BY <1>1, <1>2, <1>8, Opens
<1>9. CASE OnMessage
  BY <1>1, <1>9, Stutters DEF OnMessage, OnTransportChunk, clientVars, flags, transportVars, clientEnd
<1>10. CASE Handler /\ UNCHANGED <<transportVars, linkVars, serverVars>>
  BY <1>1, <1>10, Stutters DEF Handler, HandlerStep, ProcessItem, InvokeCallback, LoopEnds,
     FailAfterHeaders, CallbackReturns, flags, transportVars, linkVars, clientEnd
<1> QED BY <1>3, <1>4, <1>5, <1>6, <1>7, <1>8, <1>9, <1>10 DEF Client, Application, SocketEvent

-----------------------------------------------------------------------------
(* The server *)

\* The handshake takes the first message.
LEMMA Handshakes ==
  ASSUME Inv, ReadFirst, UNCHANGED clientEnd
  PROVE  Inv'
<1>1. /\ server = "handshake" /\ UNCHANGED <<reader, remaining, requests>>
      /\ taken = 0 /\ requests = <<>> /\ remaining = 0 /\ reader = "more"
  BY DEF ReadFirst, Inv, ReaderInv, Unserved
<1>2. /\ Len(up) \in Nat /\ (up = <<>> <=> Len(up) = 0) /\ Len(requests) = 0
  BY <1>1, Nonempty DEF Inv, StreamTypes
<1>3. StreamTypes' /\ StreamInv'
  <2>1. taken' \in Nat
    BY <1>1 DEF ReadFirst
  <2> QED BY <1>1, <2>1 DEF Inv, clientEnd, StreamTypes, StreamInv, Greeted, Whole
<1>4. \/ /\ server' = "serving" /\ taken' = 1 /\ Greeted' /\ taken' <= Len(up')
      \/ server' = "aborted" /\ taken' <= Len(up')
  BY <1>1, <1>2 DEF ReadFirst, UpWaits, NextUp, Greeted, clientEnd
<1>5. ReaderInv'
  BY <1>1, <1>2, <1>4 DEF ReaderInv, Unserved
<1> QED BY <1>3, <1>5 DEF Inv

\* Read hands over a request, at once or with the next call.
LEMMA ReadsRequest ==
  ASSUME Inv, ReadRest \/ ReadData, UNCHANGED clientEnd
  PROVE  Inv'
<1> DEFINE n == Len(requests)
<1>1. /\ server = "serving" /\ reader = "more" /\ ~Unserved /\ UNCHANGED <<server, reader, cancelled>>
      /\ taken > 0 /\ Greeted /\ n = IF remaining = 0 THEN taken - 1 ELSE taken - 2
  BY DEF ReadRest, ReadData, Reads, Unserved, Inv, ReaderInv
<1>2. n \in Nat /\ taken \in Nat /\ remaining \in Nat /\ Len(up) \in Nat /\ requests \in Seq(Nat)
      /\ taken <= Len(up) /\ (remaining # 0 => remaining = taken - 1)
      /\ \A i \in 1..n : requests[i] = i
  BY LenProperties DEF Inv, StreamTypes, ReaderInv
<1>3. ASSUME NEW x \in Nat, x = n + 1, requests' = Append(requests, x)
      PROVE  /\ requests' \in Seq(Nat) /\ Len(requests') = n + 1
             /\ \A i \in 1..(n + 1) : requests'[i] = i
  <2>1. /\ requests' \in Seq(Nat) /\ Len(requests') = n + 1 /\ requests'[n + 1] = x
        /\ \A i \in 1..n : requests'[i] = requests[i]
    BY <1>2, <1>3, Grown
  <2> QED BY <1>2, <1>3, <2>1
<1>4. CASE ReadRest
  <2>1. /\ remaining # 0 /\ remaining' = 0 /\ requests' = Append(requests, remaining)
        /\ taken' = taken /\ remaining = n + 1
    BY <1>1, <1>2, <1>4 DEF ReadRest, linkVars
  <2>2. /\ requests' \in Seq(Nat) /\ Len(requests') = n + 1
        /\ \A i \in 1..(n + 1) : requests'[i] = i
    BY <1>2, <1>3, <2>1
  <2>3. StreamTypes' /\ StreamInv'
    BY <1>2, <2>1, <2>2 DEF Inv, clientEnd, StreamTypes, StreamInv, Greeted, Whole
  <2>4. ReaderInv'
    BY <1>1, <1>2, <2>1, <2>2 DEF ReaderInv, Unserved, clientEnd, Greeted
  <2> QED BY <2>3, <2>4 DEF Inv
<1>5. CASE ReadData
  <2>1. /\ remaining = 0 /\ taken < Len(up) /\ up[taken + 1] > 0 /\ taken' = taken + 1
        /\ \/ requests' = Append(requests, up[taken + 1]) /\ UNCHANGED remaining
           \/ remaining' = up[taken + 1] /\ UNCHANGED requests
    BY <1>5 DEF ReadData, UpWaits, NextUp
  <2>2. taken + 1 \in 2..Len(up)
    BY <1>1, <1>2, <2>1
  <2>3. up[taken + 1] = taken
    BY <1>1, <1>2, <2>1, <2>2 DEF Inv, StreamInv, FinishSendFrame, CloseFrame
  <2>4. n + 1 = taken
    BY <1>1, <1>2, <2>1
  <2>5. \/ /\ requests' \in Seq(Nat) /\ Len(requests') = n + 1 /\ remaining' = 0
           /\ \A i \in 1..(n + 1) : requests'[i] = i
        \/ remaining' = taken /\ requests' = requests
    BY <1>2, <1>3, <2>1, <2>3, <2>4
  <2>6. StreamTypes' /\ StreamInv'
    BY <1>2, <2>1, <2>5 DEF Inv, clientEnd, StreamTypes, StreamInv, Greeted, Whole
  <2>7. ReaderInv'
    BY <1>1, <1>2, <2>1, <2>4, <2>5 DEF ReaderInv, Unserved, clientEnd, Greeted
  <2> QED BY <2>6, <2>7 DEF Inv
<1> QED BY <1>4, <1>5

\* FINISH_SEND comes after all that was sent.
LEMMA Finishes ==
  ASSUME Inv, ReadFinish, UNCHANGED clientEnd
  PROVE  Inv'
<1>1. /\ server = "serving" /\ reader = "more" /\ remaining = 0 /\ reader' = "eof"
      /\ UNCHANGED <<server, remaining, cancelled, requests>>
      /\ taken < Len(up) /\ up[taken + 1] = FinishSendFrame /\ taken' = taken + 1
  BY DEF ReadFinish, Reads, UpWaits, NextUp
<1>2. /\ Greeted /\ taken > 0 /\ Len(requests) = taken - 1
      /\ taken \in Nat /\ Len(up) \in Nat /\ sent \in Nat
  BY <1>1, LenProperties DEF Inv, ReaderInv, Unserved, StreamTypes
<1>3. taken + 1 \in 2..Len(up)
  BY <1>1, <1>2
<1>4. finishedSending /\ taken + 1 = sent + 2
  BY <1>1, <1>2, <1>3 DEF Inv, StreamInv, FinishSendFrame, CloseFrame
<1>5. StreamTypes' /\ StreamInv'
  BY <1>1, <1>2 DEF Inv, clientEnd, StreamTypes, StreamInv, Greeted, Whole
<1>6. ReaderInv'
  BY <1>1, <1>2, <1>4 DEF Inv, ReaderInv, Unserved, clientEnd, Greeted
<1> QED BY <1>5, <1>6 DEF Inv

\* The other steps of the server.
LEMMA Elsewhere ==
  ASSUME Inv, UNCHANGED clientEnd, UNCHANGED <<taken, remaining, requests>>,
         server' = server \/ (~Unserved /\ ~Unserved'),
         cancelled' = cancelled \/ cancelled' = TRUE,
         reader' = reader \/ (~Unserved /\ reader' # "more" /\ (reader' = "eof" => cancelled'))
  PROVE  Inv'
<1>1. StreamTypes' /\ StreamInv'
  BY DEF Inv, clientEnd, StreamTypes, StreamInv, Greeted, Whole
<1>2. Unserved' <=> Unserved
  BY DEF Unserved
<1>3. server' = "handshake" => server = "handshake"
  BY DEF Unserved
<1>4. reader' = "eof" /\ ~cancelled' => reader = "eof" /\ ~cancelled
  <2>1. CASE cancelled' = TRUE
    BY <2>1
  <2>2. CASE cancelled' = cancelled
    BY <2>2
  <2> QED BY <2>1, <2>2
<1>5. Unserved' => reader' = reader
  BY <1>2
<1>6. reader' = "more" => reader = "more"
  OBVIOUS
<1>7. ReaderInv'
  BY <1>2, <1>3, <1>4, <1>5, <1>6 DEF Inv, ReaderInv, clientEnd, Greeted
<1> QED BY <1>1, <1>7 DEF Inv

LEMMA ServerStepInv ==
  ASSUME Inv, Server
  PROVE  Inv'
<1>1. UNCHANGED clientEnd
  BY DEF Server, ServerStep, ReadFirst, Read, ReadRest, ReadData, ReadBroken, ReadFinish, ReadClosed,
     Drain, Transmission, Return, HandlerWrites, HandlerReturns, clientVars, flags, transportVars,
     linkVars, clientEnd
<1>2. CASE ReadFirst
  BY <1>1, <1>2, Handshakes
<1>3. CASE ReadRest \/ ReadData
  BY <1>1, <1>3, ReadsRequest
<1>4. CASE ReadFinish
  BY <1>1, <1>4, Finishes
<1>5. CASE ReadBroken \/ ReadClosed \/ Drain \/ Transmission \/ Return \/ HandlerWrites \/ HandlerReturns
  <2>1. UNCHANGED <<taken, remaining, requests>>
    BY <1>5 DEF ReadBroken, ReadClosed, Drain, Transmission, Return, HandlerWrites, HandlerReturns,
       linkVars
  <2>2. server' = server \/ (~Unserved /\ ~Unserved')
    BY <1>5 DEF ReadBroken, ReadClosed, Drain, Transmission, Return, HandlerWrites, HandlerReturns,
       Unserved
  <2>3. cancelled' = cancelled \/ cancelled' = TRUE
    BY <1>5 DEF ReadBroken, ReadClosed, Drain, Transmission, Return, HandlerWrites, HandlerReturns
  <2>4. reader' = reader \/ (~Unserved /\ reader' # "more" /\ (reader' = "eof" => cancelled'))
    BY <1>5 DEF ReadBroken, ReadClosed, Drain, Transmission, Return, HandlerWrites, HandlerReturns,
       Reads, Unserved
  <2> QED BY <1>1, <2>1, <2>2, <2>3, <2>4, Elsewhere
<1> QED BY <1>2, <1>3, <1>4, <1>5 DEF Server, ServerStep, Read

-----------------------------------------------------------------------------
(* The requests *)

LEMMA InitInv == Init => Inv
<1> SUFFICES ASSUME Init PROVE Inv
  OBVIOUS
<1>1. /\ started = FALSE /\ finishedSending = FALSE /\ ws = "none" /\ sent = 0
      /\ sendQueue = <<>> /\ up = <<>> /\ taken = 0 /\ remaining = 0 /\ requests = <<>>
      /\ server = "handshake" /\ reader = "more"
  BY DEF Init, ClientInit, WebsocketInit, LinkInit, WrapperInit
<1>2. Len(<<>>) = 0 /\ <<>> \in Seq(Int) /\ <<>> \in Seq(Nat)
  BY EmptySeq
<1>3. StreamTypes
  BY <1>1, <1>2 DEF StreamTypes
<1>4. StreamInv
  BY <1>1, <1>2 DEF StreamInv, Whole, Greeted
<1>5. ReaderInv
  BY <1>1, <1>2 DEF ReaderInv, Unserved
<1> QED BY <1>3, <1>4, <1>5 DEF Inv

LEMMA NextInv == Inv /\ [Next]_vars => Inv'
<1>1. Break => UNCHANGED clientEnd /\ UNCHANGED serverEnd
  BY DEF Break, clientVars, flags, transportVars, serverVars, clientEnd, serverEnd
<1>2. UNCHANGED vars => UNCHANGED clientEnd /\ UNCHANGED serverEnd
  BY DEF vars, clientVars, flags, transportVars, linkVars, serverVars, clientEnd, serverEnd
<1> QED BY <1>1, <1>2, ClientStep, ServerStepInv, Stutters DEF Next

\* The handler's requests are the client's in their order, whether they waited
\* in sendQueue or in remainingBuffer; and an io.EOF that does not come with a
\* cancelled context comes from FINISH_SEND, which the client's last call of
\* finishSend has put behind all of them.
THEOREM RequestsInOrderHolds == Spec => []RequestsInOrder
<1>1. ASSUME Inv PROVE RequestsInOrder
  <2>1. /\ requests \in Seq(Nat) /\ \A i \in 1..Len(requests) : requests[i] = i
        /\ reader = "eof" /\ ~cancelled => Len(requests) = sent /\ finishedSending
    BY <1>1 DEF Inv, StreamTypes, ReaderInv
  <2>2. requests = [i \in 1..Len(requests) |-> requests[i]]
    BY <2>1, LenProperties
  <2>3. requests = [i \in 1..Len(requests) |-> i]
    BY <2>1, <2>2
  <2> QED BY <2>1, <2>3 DEF RequestsInOrder
<1> QED BY <1>1, InitInv, NextInv, PTL DEF Spec

-----------------------------------------------------------------------------
(* The downward direction *)

\* The method's handler has returned.
Done == outcome # None

\* The messages of all frames the handler has written, and of Close.
Body == IF responses = 0 THEN 0 ELSE 2 * responses + 2
Written == IF Done THEN Body + 3 ELSE Body

\* The p-th of them: headers before the first message and the status at the end,
\* each frame its five bytes and its payload, then the close frame.
Planned(p) ==
  IF Done /\ p = Body + 3 THEN Goodbye
  ELSE IF Done /\ p = Body + 2 THEN <<[type |-> "trailers", val |-> outcome]>>
  ELSE IF p % 2 = 1 THEN <<>>
  ELSE IF p = 2 THEN <<[type |-> "trailers", val |-> Absent]>>
  ELSE <<[type |-> "message", val |-> (p \div 2) - 1]>>

DownItem == [type : {"message", "trailers", "close"}, val : Int \cup {NoStatus}]
DownMessage == Seq(DownItem)

DownTypes ==
  /\ responses \in 0..MaxResponses /\ outcome \in HandlerCodes \cup {None}
  /\ down \in Seq(DownMessage) /\ outbox \in Seq(DownMessage)
  /\ delivered \in Nat /\ delivered <= Len(down)
  /\ Done <=> server \in {"closing", "returned"}
  /\ writtenHeaders <=> responses > 0

\* What waits in outbox is the end of what was written; what was sent before is
\* its beginning, unless the connection or the context is gone: then something
\* is missing, and only the close frame may follow.
OutboxInv ==
  /\ Len(outbox) <= Written
  /\ \A q \in 1..Len(outbox) : outbox[q] = Planned(Written - Len(outbox) + q)
  /\ Len(down) + Len(outbox) <= Written
  /\ ~broken /\ ~cancelled => Len(down) + Len(outbox) = Written

SentInv ==
  /\ \A p \in 1..Len(down) :
       \/ down[p] = Planned(p)
       \/ down[p] = Goodbye /\ Done /\ p = Len(down) /\ outbox = <<>>
  /\ \A p \in 1..delivered : down[p] # Goodbye

DownInv == DownTypes /\ OutboxInv /\ SentInv

LEMMA Bounds ==
  ASSUME DownTypes
  PROVE  /\ responses \in Nat /\ Body \in Nat /\ Written \in Nat
         /\ Len(down) \in Nat /\ Len(outbox) \in Nat
         /\ Done => outcome \in Nat
  BY WebsocketAssumption, LenProperties DEF DownTypes, Body, Written, Done

LEMMA PlannedTyped == ASSUME DownTypes, NEW p \in Nat PROVE Planned(p) \in DownMessage
<1>1. <<>> \in DownMessage
  BY EmptySeq DEF DownMessage
<1>2. ASSUME NEW item \in DownItem PROVE <<item>> \in DownMessage
  BY <1>2 DEF DownMessage
<1>3. [type |-> "close", val |-> 0] \in DownItem
  BY DEF DownItem
<1>4. Done => [type |-> "trailers", val |-> outcome] \in DownItem
  BY Bounds DEF DownItem
<1>5. [type |-> "trailers", val |-> Absent] \in DownItem
  BY WebsocketAssumption DEF DownItem
<1>6. [type |-> "message", val |-> (p \div 2) - 1] \in DownItem
  BY DEF DownItem
<1>7. Goodbye \in DownMessage
  BY <1>2, <1>3 DEF Goodbye
<1>8. Done => <<[type |-> "trailers", val |-> outcome]>> \in DownMessage
  BY <1>2, <1>4
<1>9. /\ <<[type |-> "trailers", val |-> Absent]>> \in DownMessage
      /\ <<[type |-> "message", val |-> (p \div 2) - 1]>> \in DownMessage
  BY <1>2, <1>5, <1>6
<1> QED BY <1>1, <1>7, <1>8, <1>9 DEF Planned

\* Only the last message is a close frame.
LEMMA PlannedGoodbye ==
  ASSUME DownTypes, NEW p \in Nat, Planned(p) = Goodbye
  PROVE  Done /\ p = Body + 3
<1>1. \A v : [type |-> "trailers", val |-> v] # [type |-> "close", val |-> 0]
  OBVIOUS
<1>2. \A v : [type |-> "message", val |-> v] # [type |-> "close", val |-> 0]
  OBVIOUS
<1>3. <<>> # Goodbye
  BY DEF Goodbye
<1>4. ASSUME NEW x, <<x>> = Goodbye PROVE x = [type |-> "close", val |-> 0]
  BY <1>4 DEF Goodbye
<1> QED BY <1>1, <1>2, <1>3, <1>4 DEF Planned

\* What has been planned is not changed by what comes after it.
LEMMA PlannedKept ==
  ASSUME DownTypes, responses' \in Nat, NEW p \in Nat, p <= Written,
         Done => UNCHANGED <<responses, outcome>>,
         Done' => responses' = responses
  PROVE  Planned(p)' = Planned(p)
<1>1. CASE Done
  BY <1>1 DEF Planned, Done, Body
<1>2. CASE ~Done /\ ~Done'
  BY <1>2 DEF Planned
<1>3. CASE ~Done /\ Done'
  <2>1. Body' = Body /\ p <= Body /\ Body \in Nat
    BY <1>3, Bounds DEF Body, Written
  <2> QED BY <1>3, <2>1 DEF Planned
<1> QED BY <1>1, <1>2, <1>3

LEMMA Two ==
  ASSUME NEW a \in DownMessage, NEW b \in DownMessage
  PROVE  \E s \in Seq(DownMessage) : s = <<a, b>> /\ Len(s) = 2 /\ s[1] = a /\ s[2] = b
<1>1. <<a, b>> \in Seq(DownMessage) /\ Len(<<a, b>>) = 2 /\ <<a, b>>[1] = a /\ <<a, b>>[2] = b
  OBVIOUS
<1> QED BY <1>1

\* s is the list of these four.
Lists(s, a, b, c, d) ==
  /\ s \in Seq(DownMessage) /\ Len(s) = 4
  /\ s[1] = a /\ s[2] = b /\ s[3] = c /\ s[4] = d

LEMMA Four ==
  ASSUME NEW a \in DownMessage, NEW b \in DownMessage, NEW c \in DownMessage, NEW d \in DownMessage
  PROVE  Lists(<<a, b>> \o <<c, d>>, a, b, c, d)
<1>1. PICK s \in Seq(DownMessage) : s = <<a, b>> /\ Len(s) = 2 /\ s[1] = a /\ s[2] = b
  BY Two
<1>2. PICK t \in Seq(DownMessage) : t = <<c, d>> /\ Len(t) = 2 /\ t[1] = c /\ t[2] = d
  BY Two
<1>3. /\ s \o t \in Seq(DownMessage) /\ Len(s \o t) = 4
      /\ \A p \in 1..4 : (s \o t)[p] = IF p <= 2 THEN s[p] ELSE t[p - 2]
  <2>1. /\ s \o t \in Seq(DownMessage) /\ Len(s \o t) = Len(s) + Len(t)
        /\ \A p \in 1..(Len(s) + Len(t)) :
             (s \o t)[p] = IF p <= Len(s) THEN s[p] ELSE t[p - Len(s)]
    BY ConcatProperties, Zenon
  <2> QED BY <1>1, <1>2, <2>1
<1>4. PICK u \in Seq(DownMessage) : /\ u = s \o t /\ Len(u) = 4
                          /\ \A p \in 1..4 : u[p] = IF p <= 2 THEN s[p] ELSE t[p - 2]
  BY <1>3
<1>5. u[1] = a /\ u[2] = b /\ u[3] = c /\ u[4] = d
  BY <1>1, <1>2, <1>4
<1> QED BY <1>1, <1>2, <1>4, <1>5 DEF Lists

LEMMA Three ==
  ASSUME NEW a \in DownMessage, NEW b \in DownMessage, NEW c \in DownMessage
  PROVE  \E s \in Seq(DownMessage) : /\ s = <<a, b>> \o <<c>> /\ Len(s) = 3
                           /\ s[1] = a /\ s[2] = b /\ s[3] = c
<1>1. PICK s \in Seq(DownMessage) : s = <<a, b>> /\ Len(s) = 2 /\ s[1] = a /\ s[2] = b
  BY Two
<1>2. PICK t \in Seq(DownMessage) : t = <<c>> /\ Len(t) = 1 /\ t[1] = c
  <2>1. <<c>> \in Seq(DownMessage) /\ Len(<<c>>) = 1 /\ <<c>>[1] = c
    OBVIOUS
  <2> QED BY <2>1
<1>3. /\ s \o t \in Seq(DownMessage) /\ Len(s \o t) = 3
      /\ \A p \in 1..3 : (s \o t)[p] = IF p <= 2 THEN s[p] ELSE t[p - 2]
  <2>1. /\ s \o t \in Seq(DownMessage) /\ Len(s \o t) = Len(s) + Len(t)
        /\ \A p \in 1..(Len(s) + Len(t)) :
             (s \o t)[p] = IF p <= Len(s) THEN s[p] ELSE t[p - Len(s)]
    BY ConcatProperties, Zenon
  <2> QED BY <1>1, <1>2, <2>1
<1>4. PICK u \in Seq(DownMessage) : /\ u = s \o t /\ Len(u) = 3
                          /\ \A p \in 1..3 : u[p] = IF p <= 2 THEN s[p] ELSE t[p - 2]
  BY <1>3
<1>5. u[1] = a /\ u[2] = b /\ u[3] = c
  BY <1>1, <1>2, <1>4
<1> QED BY <1>1, <1>2, <1>4, <1>5

\* A step that neither writes, transmits nor delivers.
LEMMA DownQuiet ==
  ASSUME DownInv, UNCHANGED <<writtenHeaders, outbox, responses, outcome, down, delivered>>,
         server' \in {"closing", "returned"} <=> server \in {"closing", "returned"},
         cancelled => cancelled', broken => broken'
  PROVE  DownInv'
<1>1. DownTypes'
  BY DEF DownInv, DownTypes, Done
<1>2. \A p : Planned(p)' = Planned(p)
  BY DEF Planned, Done, Body
<1>3. Written' = Written /\ (Done' <=> Done)
  BY DEF Written, Body, Done
<1>4. ~broken' /\ ~cancelled' => ~broken /\ ~cancelled
  OBVIOUS
<1>5. OutboxInv'
  BY <1>2, <1>3, <1>4 DEF DownInv, OutboxInv
<1>6. SentInv'
  BY <1>2, <1>3 DEF DownInv, SentInv
<1> QED BY <1>1, <1>5, <1>6 DEF DownInv

\* What was sent before is as planned, whatever the handler does next.
LEMMA SentKept ==
  ASSUME DownInv, ~Done, responses' \in Nat, Done' => responses' = responses,
         UNCHANGED <<down, delivered>>
  PROVE  SentInv' /\ Len(down) <= Body
<1>1. /\ Len(down) \in Nat /\ Len(down) <= Written /\ Written = Body /\ Body \in Nat
      /\ Len(outbox) \in Nat
  BY Bounds DEF DownInv, OutboxInv, Written
<1>2. \A p \in 1..Len(down) : Planned(p)' = Planned(p)
  BY <1>1, PlannedKept DEF DownInv
<1>3. \A p \in 1..Len(down) : down'[p] = Planned(p)'
  BY <1>2 DEF DownInv, SentInv
<1> QED BY <1>1, <1>3 DEF DownInv, SentInv

\* The handler may write: nothing waits and it has not returned.
LEMMA HandlerRuns ==
  ASSUME DownInv, server = "serving", outbox = <<>>
  PROVE  /\ ~Done /\ Written = Body /\ Len(down) <= Body /\ responses \in Nat
         /\ ~broken /\ ~cancelled => Len(down) = Body
<1>1. ~Done
  BY DEF DownInv, DownTypes
<1>2. Len(outbox) = 0
  BY Nonempty DEF DownInv, DownTypes
<1> QED BY <1>1, <1>2, Bounds DEF DownInv, OutboxInv, Written

LEMMA WritesDown ==
  ASSUME DownInv, HandlerWrites
  PROVE  DownInv'
<1> DEFINE item == [type |-> "message", val |-> responses + 1]
           absent == [type |-> "trailers", val |-> Absent]
<1>1. /\ server = "serving" /\ outbox = <<>> /\ responses < MaxResponses
      /\ responses' = responses + 1 /\ writtenHeaders' = TRUE
      /\ UNCHANGED <<server, cancelled, outcome, down, delivered, broken>>
  BY DEF HandlerWrites, linkVars
<1>2. /\ ~Done /\ Written = Body /\ Len(down) <= Body /\ responses \in Nat
      /\ ~broken /\ ~cancelled => Len(down) = Body
  BY <1>1, HandlerRuns
<1>3. ~Done' /\ Written' = Body' /\ Body' = 2 * responses + 4 /\ responses' \in Nat
  BY <1>1, <1>2 DEF Done, Written, Body
<1>. PICK n \in Nat : n = responses
  BY <1>2
<1>4. item \in DownItem /\ absent \in DownItem
  BY <1>2, WebsocketAssumption DEF DownItem
<1>5. <<>> \in DownMessage /\ <<item>> \in DownMessage /\ <<absent>> \in DownMessage
  BY <1>4 DEF DownMessage
<1>6. PICK blank, message, headers \in DownMessage :
       blank = <<>> /\ message = <<item>> /\ headers = <<absent>>
  BY <1>5
<1>7. outbox' = (IF writtenHeaders THEN <<>> ELSE <<blank, headers>>) \o <<blank, message>>
  BY <1>6 DEF HandlerWrites, HeaderFrame, WebsocketFrame
<1>8. /\ outbox' \in Seq(DownMessage)
      /\ Len(outbox') = IF responses = 0 THEN 4 ELSE 2
      /\ \A q \in 1..Len(outbox') : outbox'[q] = Planned(Body - Len(outbox) + q)'
  <2> HIDE DEF item, absent
  <2>1. (2 * n + 3) % 2 = 1 /\ (2 * n + 4) % 2 = 0 /\ ((2 * n + 4) \div 2) - 1 = n + 1
    OBVIOUS
  <2>2. Planned(2 * n + 3)' = <<>>
    BY <1>3, <2>1 DEF Planned
  <2>3. Planned(2 * n + 4)' = <<item>>
    BY <1>2, <1>3, <2>1 DEF Planned, item
  <2>4. Planned(1)' = <<>> /\ Planned(2)' = <<absent>>
    BY <1>3 DEF Planned, absent
  <2>5. CASE responses = 0
    <3>1. outbox' = <<blank, headers>> \o <<blank, message>>
      BY <1>7, <2>5 DEF DownInv, DownTypes
    <3>2. PICK s : /\ s = <<blank, headers>> \o <<blank, message>>
                   /\ Lists(s, blank, headers, blank, message)
      BY Four
    <3>3. 2 * n + 3 = 3 /\ 2 * n + 4 = 4
      BY <2>5
    <3>4. Planned(3)' = <<>> /\ Planned(4)' = <<item>>
      BY <2>2, <2>3, <3>3
    <3>5. \A q \in 1..4 : q = 1 \/ q = 2 \/ q = 3 \/ q = 4
      OBVIOUS
    <3>6. \A q \in 1..4 : s[q] = Planned(q)'
      BY <1>6, <2>4, <3>2, <3>4, <3>5 DEF Lists
    <3> QED BY <1>3, <2>5, <3>1, <3>2, <3>6 DEF Lists
  <2>6. CASE responses # 0
    <3>1. PICK s \in Seq(DownMessage) :
            s = <<blank, message>> /\ Len(s) = 2 /\ s[1] = blank /\ s[2] = message
      BY Two
    <3>2. writtenHeaders
      BY <1>2, <2>6 DEF DownInv, DownTypes
    <3>3. outbox' = <<>> \o <<blank, message>>
      BY <1>7, <3>2
    <3>4. outbox' = s
      BY <3>1, <3>3, ConcatEmptySeq, Zenon
    <3>5. \A q \in 1..2 : s[q] = Planned(2 * n + 2 + q)'
      BY <1>6, <2>2, <2>3, <3>1
    <3> QED BY <1>2, <1>3, <2>6, <3>1, <3>4, <3>5
  <2> QED BY <2>5, <2>6
<1>9. DownTypes'
  BY <1>1, <1>2, <1>3, <1>8, WebsocketAssumption DEF DownInv, DownTypes, Done
<1>10. SentInv'
  BY <1>1, <1>2, <1>3, SentKept
<1>11. OutboxInv'
  <2>1. Body = IF responses = 0 THEN 0 ELSE 2 * responses + 2
    BY DEF Body
  <2>2. Len(down') \in Nat
    BY <1>9, LenProperties DEF DownTypes
  <2>3. Len(outbox') <= Written' /\ Len(down') + Len(outbox') <= Written'
    BY <1>1, <1>2, <1>3, <1>8, <2>1, <2>2
  <2>4. Len(down) = Body => Len(down') + Len(outbox') = Written'
    BY <1>1, <1>2, <1>3, <1>8, <2>1, <2>2
  <2>5. ~broken' /\ ~cancelled' => Len(down') + Len(outbox') = Written'
    BY <1>1, <1>2, <2>4
  <2> QED BY <1>3, <1>8, <2>3, <2>5 DEF OutboxInv
<1> QED BY <1>9, <1>10, <1>11 DEF DownInv

LEMMA ReturnsDown ==
  ASSUME DownInv, HandlerReturns
  PROVE  DownInv'
<1> DEFINE status == [type |-> "trailers", val |-> outcome']
<1>1. /\ server = "serving" /\ outbox = <<>> /\ server' = "closing" /\ outcome' \in HandlerCodes
      /\ UNCHANGED <<responses, writtenHeaders, cancelled, down, delivered, broken>>
  BY DEF HandlerReturns, linkVars
<1>2. /\ ~Done /\ Written = Body /\ Len(down) <= Body /\ responses \in Nat /\ Body \in Nat
      /\ ~broken /\ ~cancelled => Len(down) = Body
  BY <1>1, HandlerRuns, Bounds DEF DownInv
<1>3. outcome' \in Nat /\ Done' /\ Body' = Body /\ Written' = Body + 3
  BY <1>1, WebsocketAssumption DEF Done, Written, Body, None
<1>4. <<>> \in DownMessage /\ <<status>> \in DownMessage /\ Goodbye \in DownMessage
  <2>1. status \in DownItem /\ [type |-> "close", val |-> 0] \in DownItem
    BY <1>3 DEF DownItem
  <2> QED BY <2>1 DEF Goodbye, DownMessage
<1>5. outbox' = <<<<>>, <<status>>>> \o <<Goodbye>>
  BY DEF HandlerReturns, HeaderFrame, WebsocketFrame
<1> HIDE DEF status
<1>6. PICK blank, trailers, goodbye \in DownMessage :
       blank = <<>> /\ trailers = <<status>> /\ goodbye = Goodbye
  BY <1>4
<1>7. PICK s \in Seq(DownMessage) :
        /\ s = <<blank, trailers>> \o <<goodbye>> /\ Len(s) = 3
        /\ s[1] = blank /\ s[2] = trailers /\ s[3] = goodbye
  BY Three
<1>8. /\ outbox' \in Seq(DownMessage) /\ Len(outbox') = 3
      /\ \A q \in 1..3 : outbox'[q] = Planned(Body + q)'
  <2>1. Planned(Body + 1)' = <<>>
    <3>1. (Body + 1) % 2 = 1
      BY <1>2 DEF Body
    <3>2. (Body' + 1) % 2 = 1 /\ Body' \in Nat
      BY <1>2, <1>3, <3>1
    <3> QED BY <1>3, <3>2 DEF Planned
  <2>2. Planned(Body + 2)' = <<status>>
    BY <1>2, <1>3 DEF Planned, status
  <2>3. Planned(Body + 3)' = Goodbye
    BY <1>2, <1>3 DEF Planned
  <2> QED BY <1>5, <1>6, <1>7, <2>1, <2>2, <2>3
<1>9. DownTypes'
  BY <1>1, <1>3, <1>8 DEF DownInv, DownTypes
<1>10. SentInv'
  BY <1>1, <1>2, <1>3, SentKept
<1>11. OutboxInv'
  <2>1. Len(down) \in Nat
    BY Bounds DEF DownInv
  <2>2. Len(outbox') <= Written' /\ Len(down') + Len(outbox') <= Written'
    BY <1>1, <1>2, <1>3, <1>8, <2>1
  <2>3. ~broken' /\ ~cancelled' => Len(down') + Len(outbox') = Written'
    BY <1>1, <1>2, <1>3, <1>8
  <2>4. \A q \in 1..Len(outbox') : outbox'[q] = Planned(Written - Len(outbox) + q)'
    BY <1>2, <1>3, <1>8
  <2> QED BY <2>2, <2>3, <2>4 DEF OutboxInv
<1> QED BY <1>9, <1>10, <1>11 DEF DownInv

\* One message goes out, or is lost.
LEMMA TransmitsDown ==
  ASSUME DownInv, Transmission
  PROVE  DownInv'
<1>1. /\ outbox # <<>> /\ outbox' = Tail(outbox)
      /\ UNCHANGED <<server, cancelled, writtenHeaders, responses, outcome, delivered, broken>>
      /\ \/ down' = down /\ (broken \/ cancelled)
         \/ /\ down' = Append(down, Head(outbox))
            /\ broken \/ (cancelled /\ Head(outbox) # Goodbye) => FALSE
  BY DEF Transmission
<1>2. /\ outbox \in Seq(DownMessage) /\ down \in Seq(DownMessage)
      /\ Len(outbox) \in Nat \ {0} /\ Len(down) \in Nat /\ Written \in Nat
      /\ Len(outbox) <= Written /\ Len(down) + Len(outbox) <= Written
  BY <1>1, Nonempty, Bounds DEF DownInv, DownTypes, OutboxInv
<1>3. /\ outbox' \in Seq(DownMessage) /\ Len(outbox') = Len(outbox) - 1
      /\ \A q \in 1..(Len(outbox) - 1) : outbox'[q] = outbox[q + 1]
  BY <1>1, <1>2, HeadTailProperties
<1>4. PICK h \in DownMessage : h = Head(outbox) /\ h = outbox[1]
  <2>1. Head(outbox) = outbox[1] /\ Head(outbox) \in DownMessage
    BY <1>1, <1>2, HeadTailProperties
  <2> QED BY <2>1
<1>5. /\ \A p : Planned(p)' = Planned(p)
      /\ Written' = Written /\ Body' = Body /\ (Done' <=> Done)
  BY <1>1 DEF Planned, Written, Body, Done
<1>6. \A p \in 1..Len(down) : down[p] = Planned(p)
  BY <1>1 DEF DownInv, SentInv
<1>7. h = Planned(Written - Len(outbox) + 1)
  BY <1>2, <1>4 DEF DownInv, OutboxInv
<1>8. \A q \in 1..Len(outbox') : outbox'[q] = Planned(Written' - Len(outbox') + q)
  <2> SUFFICES ASSUME NEW q \in 1..(Len(outbox) - 1)
               PROVE  outbox'[q] = Planned(Written - (Len(outbox) - 1) + q)
    BY <1>3, <1>5
  <2>1. q + 1 \in 1..Len(outbox) /\ Written - (Len(outbox) - 1) + q = Written - Len(outbox) + (q + 1)
    BY <1>2
  <2>2. outbox[q + 1] = Planned(Written - Len(outbox) + (q + 1))
    BY <2>1 DEF DownInv, OutboxInv
  <2> QED BY <1>3, <2>1, <2>2
<1>9. \A q \in 1..Len(outbox') : outbox'[q] = Planned(Written - Len(outbox) + q)'
  BY <1>5, <1>8
<1>10. CASE down' = down /\ (broken \/ cancelled)
  <2>1. DownTypes'
    BY <1>1, <1>3, <1>10, <1>5 DEF DownInv, DownTypes
  <2>2. SentInv'
    BY <1>1, <1>5, <1>6, <1>10 DEF DownInv, SentInv
  <2>3. Len(outbox') <= Written' /\ Len(down') + Len(outbox') <= Written'
    BY <1>2, <1>3, <1>5, <1>10
  <2>4. broken' \/ cancelled'
    BY <1>1, <1>10
  <2>5. OutboxInv'
    BY <1>9, <2>3, <2>4 DEF OutboxInv
  <2> QED BY <2>1, <2>2, <2>5 DEF DownInv
<1>11. CASE down' = Append(down, h) /\ ~broken /\ (cancelled => h = Goodbye)
  <2>1. /\ down' \in Seq(DownMessage) /\ Len(down') = Len(down) + 1
        /\ down'[Len(down) + 1] = h
        /\ \A p \in 1..Len(down) : down'[p] = down[p]
    BY <1>2, <1>11, Grown
  <2>2. DownTypes'
    BY <1>1, <1>2, <1>3, <1>5, <2>1 DEF DownInv, DownTypes
  <2>3. Len(outbox') <= Written' /\ Len(down') + Len(outbox') <= Written'
    BY <1>2, <1>3, <1>5, <2>1
  <2>4. ~cancelled => Len(down) + Len(outbox) = Written
    BY <1>11 DEF DownInv, OutboxInv
  <2>5. ~broken' /\ ~cancelled' => Len(down') + Len(outbox') = Written'
    <3>1. Len(down) + Len(outbox) = Written => Len(down') + Len(outbox') = Written'
      BY <1>2, <1>3, <1>5, <2>1
    <3> QED BY <1>1, <2>4, <3>1
  <2>6. OutboxInv'
    BY <1>9, <2>3, <2>5 DEF OutboxInv
  <2>7. \/ h = Planned(Len(down) + 1)
        \/ h = Goodbye /\ Done /\ Len(outbox') = 0
    <3>1. CASE ~cancelled
      <4>1. Written - Len(outbox) + 1 = Len(down) + 1
        BY <1>2, <2>4, <3>1
      <4> QED BY <1>7, <4>1
    <3>2. CASE cancelled
      <4>1. h = Goodbye
        BY <1>11, <3>2
      <4>2. Written - Len(outbox) + 1 \in Nat
        BY <1>2
      <4>3. Done /\ Written - Len(outbox) + 1 = Body + 3
        BY <1>7, <4>1, <4>2, PlannedGoodbye DEF DownInv
      <4>4. Body \in Nat /\ Written = Body + 3
        BY <4>3, Bounds DEF DownInv, Written
      <4> QED BY <1>2, <1>3, <4>1, <4>3, <4>4
    <3> QED BY <3>1, <3>2
  <2>8. Len(outbox') = 0 => outbox' = <<>>
    BY <1>3, Nonempty
  <2>9. \A p \in 1..delivered : down'[p] # Goodbye
    <3>1. \A p \in 1..delivered : p \in 1..Len(down)
      BY <1>2 DEF DownInv, DownTypes
    <3> QED BY <2>1, <3>1 DEF DownInv, SentInv
  <2>10. ASSUME NEW p \in 1..Len(down')
         PROVE  \/ down'[p] = Planned(p)
                \/ down'[p] = Goodbye /\ Done /\ p = Len(down') /\ outbox' = <<>>
    <3>1. CASE p <= Len(down)
      BY <1>2, <1>6, <2>1, <3>1
    <3>2. CASE p = Len(down) + 1
      BY <2>1, <2>7, <2>8, <3>2
    <3> QED BY <1>2, <2>1, <3>1, <3>2
  <2>11. SentInv'
    BY <1>1, <1>5, <2>9, <2>10 DEF SentInv
  <2> QED BY <2>2, <2>6, <2>11 DEF DownInv
<1>12. \/ down' = down /\ (broken \/ cancelled)
       \/ down' = Append(down, h) /\ ~broken /\ (cancelled => h = Goodbye)
  BY <1>1, <1>4
<1> QED BY <1>10, <1>11, <1>12

LEMMA DeliversDown ==
  ASSUME DownInv, OnMessage, UNCHANGED serverVars
  PROVE  DownInv'
<1>1. /\ delivered < Len(down) /\ down[delivered + 1] # Goodbye /\ delivered' = delivered + 1
      /\ UNCHANGED <<server, cancelled, writtenHeaders, outbox, responses, outcome, down, broken>>
  BY DEF OnMessage, DownWaits, NextDown, serverVars
<1>2. delivered \in Nat /\ Len(down) \in Nat
  BY Bounds DEF DownInv, DownTypes
<1>3. DownTypes'
  BY <1>1, <1>2 DEF DownInv, DownTypes, Done
<1>4. \A p : Planned(p)' = Planned(p)
  BY <1>1 DEF Planned, Done, Body
<1>5. Written' = Written /\ (Done' <=> Done)
  BY <1>1 DEF Written, Body, Done
<1>6. OutboxInv'
  BY <1>1, <1>4, <1>5 DEF DownInv, OutboxInv
<1>7. \A p \in 1..delivered' : down[p] # Goodbye
  <2> SUFFICES ASSUME NEW p \in 1..(delivered + 1) PROVE down[p] # Goodbye
    BY <1>1
  <2>1. p = delivered + 1 \/ p \in 1..delivered
    BY <1>2
  <2> QED BY <1>1, <2>1 DEF DownInv, SentInv
<1>8. SentInv'
  BY <1>1, <1>4, <1>5, <1>7 DEF DownInv, SentInv
<1> QED BY <1>3, <1>6, <1>8 DEF DownInv

LEMMA InitDown == Init => DownInv
<1> SUFFICES ASSUME Init PROVE DownInv
  OBVIOUS
<1>1. /\ responses = 0 /\ outcome = None /\ down = <<>> /\ outbox = <<>> /\ delivered = 0
      /\ server = "handshake" /\ writtenHeaders = FALSE
  BY DEF Init, LinkInit, WrapperInit
<1>2. down \in Seq(DownMessage) /\ Len(down) = 0 /\ Len(outbox) = 0 /\ outbox \in Seq(DownMessage)
  BY <1>1
<1>3. DownTypes
  BY <1>1, <1>2, WebsocketAssumption DEF DownTypes, Done
<1>4. Written = 0
  BY <1>1 DEF Written, Done, Body
<1> QED BY <1>1, <1>2, <1>3, <1>4 DEF DownInv, OutboxInv, SentInv

\* The context is not cancelled before the wrapped server is called.
HandshakeInv == server = "handshake" => ~cancelled /\ ~draining

LEMMA NextHandshake == HandshakeInv /\ [Next]_vars => HandshakeInv'
<1> SUFFICES ASSUME HandshakeInv, [Next]_vars PROVE HandshakeInv'
  OBVIOUS
<1>1. CASE Server
  BY <1>1 DEF Server, ServerStep, ReadFirst, Read, ReadRest, ReadData, ReadBroken, ReadFinish,
     ReadClosed, Reads, Drain, Transmission, Return, HandlerWrites, HandlerReturns, HandshakeInv
<1>2. CASE UNCHANGED serverVars
  BY <1>2 DEF serverVars, HandshakeInv
<1> QED BY <1>1, <1>2 DEF Next, Client, Break, vars

LEMMA NextDownInv == DownInv /\ HandshakeInv /\ [Next]_vars => DownInv'
<1> SUFFICES ASSUME DownInv, HandshakeInv, [Next]_vars PROVE DownInv'
  OBVIOUS
<1> DEFINE quiet == UNCHANGED <<writtenHeaders, outbox, responses, outcome, down, delivered>>
           ends == server' \in {"closing", "returned"} <=> server \in {"closing", "returned"}
<1>1. CASE Break
  BY <1>1, DownQuiet DEF Break, serverVars
<1>2. CASE Application /\ UNCHANGED serverVars
  BY <1>2, DownQuiet DEF Application, AttachCallback, Connect, SendMessage, SendFinish, Cancel,
     serverVars, linkVars
<1>3. CASE OnMessage /\ UNCHANGED serverVars
  BY <1>3, DeliversDown
<1>4. CASE (OnOpen \/ OnClose) /\ UNCHANGED serverVars
  BY <1>4, DownQuiet DEF OnOpen, OnClose, serverVars, linkVars
<1>5. CASE UNCHANGED <<linkVars, serverVars>>
  BY <1>5, DownQuiet DEF serverVars, linkVars
<1>6. CASE HandlerWrites
  BY <1>6, WritesDown
<1>7. CASE HandlerReturns
  BY <1>7, ReturnsDown
<1>8. CASE Transmission
  BY <1>8, TransmitsDown
<1>9. CASE ReadFirst \/ Read \/ Drain \/ Return
  <2>1. quiet
    BY <1>9 DEF ReadFirst, Read, ReadRest, ReadData, ReadBroken, ReadFinish, ReadClosed, Drain,
       Return, linkVars
  <2>2. ends
    BY <1>9 DEF ReadFirst, Read, ReadRest, ReadData, ReadBroken, ReadFinish, ReadClosed, Drain,
       Return
  <2>3. cancelled => cancelled'
    <3>1. CASE ReadFirst
      <4>1. server' \in {"serving", "aborted"}
        BY <3>1 DEF ReadFirst
      <4> QED BY <3>1, <4>1 DEF ReadFirst, HandshakeInv
    <3> QED BY <1>9, <3>1 DEF Read, ReadRest, ReadData, ReadBroken, ReadFinish, ReadClosed, Drain, Return
  <2>4. broken => broken'
    BY <1>9 DEF ReadFirst, Read, ReadRest, ReadData, ReadBroken, ReadFinish, ReadClosed, Drain,
       Return, linkVars
  <2> QED BY <2>1, <2>2, <2>3, <2>4, DownQuiet
<1>10. CASE UNCHANGED vars
  BY <1>5, <1>10 DEF vars
<1> QED BY <1>1, <1>2, <1>3, <1>4, <1>5, <1>6, <1>7, <1>8, <1>9, <1>10
        DEF Next, Client, Server, ServerStep, SocketEvent

-----------------------------------------------------------------------------
(* What the client is handed *)

LastInv == \A type \in {"message", "trailers"} :
  DeliveredAt(type) = {} \/ Max(DeliveredAt(type)) \in DeliveredAt(type)

LEMMA LastKept ==
  ASSUME LastInv, delivered' = delivered, \A p \in 1..delivered : down'[p] = down[p]
  PROVE  LastInv' /\ \A type \in {"message", "trailers"} : \A none :
                       LastDelivered(type, none)' = LastDelivered(type, none)
<1>1. \A type : DeliveredAt(type)' = DeliveredAt(type)
  BY DEF DeliveredAt
<1>2. ASSUME NEW type \in {"message", "trailers"}, DeliveredAt(type) # {}
      PROVE  Max(DeliveredAt(type)) \in 1..delivered
  BY <1>2 DEF LastInv, DeliveredAt
<1>3. ASSUME NEW type \in {"message", "trailers"}, DeliveredAt(type) # {}
      PROVE  Max(DeliveredAt(type))' = Max(DeliveredAt(type))
  BY <1>1
<1>4. LastInv'
  BY <1>1 DEF LastInv
<1> QED BY <1>1, <1>2, <1>3, <1>4 DEF LastDelivered

\* The message delivered now is the last one.
LEMMA LastGrows ==
  ASSUME LastInv, delivered \in Nat, delivered' = delivered + 1, down' = down,
         NEW m, m = down[delivered + 1]
  PROVE  LastInv' /\ \A type \in {"message", "trailers"} : \A none :
           LastDelivered(type, none)' =
             IF m # <<>> /\ m[1].type = type THEN m[1].val ELSE LastDelivered(type, none)
<1>1. ASSUME NEW type, ~(m # <<>> /\ m[1].type = type)
      PROVE  DeliveredAt(type)' = DeliveredAt(type)
  BY <1>1 DEF DeliveredAt
<1>2. ASSUME NEW type, m # <<>> /\ m[1].type = type
      PROVE  Max(DeliveredAt(type))' = delivered + 1 /\ delivered + 1 \in DeliveredAt(type)'
  <2>1. /\ delivered + 1 \in DeliveredAt(type)'
        /\ \A p \in DeliveredAt(type)' : p \in Nat /\ delivered + 1 >= p
    BY <1>2 DEF DeliveredAt
  <2>2. \A p \in DeliveredAt(type)' : p >= delivered + 1 => p = delivered + 1
    BY <2>1
  <2> QED BY <2>1, <2>2 DEF Max
<1>3. LastInv'
  <2> SUFFICES ASSUME NEW type \in {"message", "trailers"}
               PROVE  DeliveredAt(type)' = {} \/ Max(DeliveredAt(type))' \in DeliveredAt(type)'
    BY DEF LastInv
  <2>1. CASE m # <<>> /\ m[1].type = type
    BY <1>2, <2>1
  <2>2. CASE ~(m # <<>> /\ m[1].type = type)
    BY <1>1, <2>2 DEF LastInv
  <2> QED BY <2>1, <2>2
<1>4. ASSUME NEW type \in {"message", "trailers"}, NEW none
      PROVE  LastDelivered(type, none)' =
               IF m # <<>> /\ m[1].type = type THEN m[1].val ELSE LastDelivered(type, none)
  <2>1. CASE m # <<>> /\ m[1].type = type
    <3>1. DeliveredAt(type)' # {} /\ Max(DeliveredAt(type))' = delivered + 1
      BY <1>2, <2>1
    <3> QED BY <2>1, <3>1 DEF LastDelivered
  <2>2. CASE ~(m # <<>> /\ m[1].type = type)
    BY <1>1, <2>2 DEF LastDelivered
  <2> QED BY <2>1, <2>2
<1> QED BY <1>3, <1>4

\* The first d messages that have come down hold this many of the response.
MessagesIn(d) ==
  IF d < 4 THEN 0 ELSE IF Done /\ d = Body + 2 THEN responses ELSE (d \div 2) - 1

Arrived == LastDelivered("message", 0)
Counted == Arrived = MessagesIn(delivered)

\* A message that is handed over is of the plan.
LEMMA HandedPlanned ==
  ASSUME DownInv, delivered < Len(down), down[delivered + 1] # Goodbye
  PROVE  /\ down[delivered + 1] = Planned(delivered + 1)
         /\ delivered + 1 \in Nat
         /\ delivered + 1 <= IF Done THEN Body + 2 ELSE Body
<1>1. /\ delivered \in Nat /\ Len(down) \in Nat /\ Len(outbox) \in Nat
      /\ Body \in Nat /\ Written \in Nat /\ Len(down) + Len(outbox) <= Written
  BY Bounds DEF DownInv, DownTypes, OutboxInv
<1>2. delivered + 1 \in 1..Len(down)
  BY <1>1
<1>3. down[delivered + 1] = Planned(delivered + 1)
  BY <1>2 DEF DownInv, SentInv
<1>4. ~(Done /\ delivered + 1 = Body + 3)
  BY <1>3 DEF Planned
<1> QED BY <1>1, <1>2, <1>3, <1>4 DEF Written

\* Trailers that are handed over next say nothing, or what the handler returned,
\* and then no message is missing.
Tells(v) ==
  \/ v = Absent /\ delivered = 1
  \/ v = outcome /\ Done /\ Arrived = responses /\ delivered >= 1

\* It is the first part of a frame, the trailers, or the next message.
LEMMA Handed ==
  ASSUME DownInv, Counted, delivered < Len(down), down[delivered + 1] # Goodbye,
         NEW m, m = down[delivered + 1]
  PROVE  \/ /\ m = <<>>
            /\ MessagesIn(delivered + 1) = Arrived
         \/ /\ \E v \in HandlerCodes \cup {Absent} :
                 m = <<[type |-> "trailers", val |-> v]>> /\ Tells(v)
            /\ MessagesIn(delivered + 1) = Arrived
         \/ /\ m = <<[type |-> "message", val |-> Arrived + 1]>>
            /\ MessagesIn(delivered + 1) = Arrived + 1
            /\ Arrived \in Nat /\ Arrived + 1 <= responses /\ delivered >= 1
<1>. PICK d \in Nat, b \in Nat, r \in Nat :
       /\ d = delivered /\ b = Body /\ r = responses
       /\ b = IF r = 0 THEN 0 ELSE 2 * r + 2
  <2>1. delivered \in Nat /\ Body \in Nat /\ responses \in Nat
    BY Bounds DEF DownInv, DownTypes
  <2>2. Body = IF responses = 0 THEN 0 ELSE 2 * responses + 2
    BY DEF Body
  <2> QED BY <2>1, <2>2
<1>1. /\ m = Planned(d + 1)
      /\ d + 1 <= IF Done THEN b + 2 ELSE b
  BY HandedPlanned
<1>2. Arrived = IF d < 4 THEN 0 ELSE IF Done /\ d = b + 2 THEN r ELSE (d \div 2) - 1
  BY DEF Counted, MessagesIn
<1>3. MessagesIn(d + 1) =
        IF d + 1 < 4 THEN 0 ELSE IF Done /\ d + 1 = b + 2 THEN r ELSE ((d + 1) \div 2) - 1
  BY DEF MessagesIn
<1>4. ~(Done /\ d = b + 2)
  BY <1>1
<1>5. CASE Done /\ d + 1 = b + 2
  <2>1. m = <<[type |-> "trailers", val |-> outcome]>>
    BY <1>1, <1>5 DEF Planned
  <2>2. outcome \in HandlerCodes
    BY <1>5 DEF DownInv, DownTypes, Done
  <2>3. Arrived = r
    <3>1. CASE r = 0
      BY <1>2, <1>5, <3>1
    <3>2. CASE r # 0
      <4>1. d = 2 * r + 3
        BY <1>5, <3>2
      <4>2. (d \div 2) - 1 = r
        BY <4>1
      <4>3. ~(d < 4)
        BY <3>2, <4>1
      <4> QED BY <1>2, <1>4, <4>2, <4>3
    <3> QED BY <3>1, <3>2
  <2>4. MessagesIn(d + 1) = r
    BY <1>3, <1>5
  <2>5. Tells(outcome)
    BY <1>5, <2>3 DEF Tells
  <2> QED BY <2>1, <2>2, <2>3, <2>4, <2>5
<1>6. CASE ~(Done /\ d + 1 = b + 2)
  <2>1. d + 1 <= b + 1
    BY <1>1, <1>6
  <2>2. ~(Done /\ d + 1 = b + 3)
    BY <2>1
  <2>3. /\ Arrived = IF d < 4 THEN 0 ELSE (d \div 2) - 1
        /\ MessagesIn(d + 1) = IF d + 1 < 4 THEN 0 ELSE ((d + 1) \div 2) - 1
    BY <1>2, <1>3, <1>4, <1>6
  <2>4. m = IF (d + 1) % 2 = 1 THEN <<>>
            ELSE IF d + 1 = 2 THEN <<[type |-> "trailers", val |-> Absent]>>
            ELSE <<[type |-> "message", val |-> ((d + 1) \div 2) - 1]>>
    BY <1>1, <1>6, <2>2 DEF Planned
  <2>5. CASE (d + 1) % 2 = 1
    <3>1. (d + 1) \div 2 = d \div 2 /\ (d < 4 <=> d + 1 < 4)
      BY <2>5
    <3> QED BY <2>3, <2>4, <2>5, <3>1
  <2>6. CASE d + 1 = 2
    <3>1. d < 4 /\ d + 1 < 4 /\ (d + 1) % 2 # 1
      BY <2>6
    <3>2. m = <<[type |-> "trailers", val |-> Absent]>>
      BY <2>4, <2>6, <3>1
    <3>3. Tells(Absent)
      BY <2>6 DEF Tells
    <3> QED BY <2>3, <3>1, <3>2, <3>3
  <2>7. CASE (d + 1) % 2 # 1 /\ d + 1 # 2
    <3>1. d >= 3 /\ ((d + 1) \div 2) - 1 \in Nat /\ (d >= 4 => (d \div 2) = ((d + 1) \div 2) - 1)
      BY <2>7
    <3>2. Arrived + 1 = ((d + 1) \div 2) - 1 /\ Arrived \in Nat
      BY <2>3, <2>7, <3>1
    <3>3. ((d + 1) \div 2) - 1 <= r
      BY <2>1, <2>7
    <3>4. MessagesIn(d + 1) = Arrived + 1
      BY <2>3, <3>1, <3>2
    <3> QED BY <2>4, <2>7, <3>2, <3>3, <3>4
  <2> QED BY <2>5, <2>6, <2>7
<1> QED BY <1>5, <1>6

HandInv == LastInv /\ Counted
LastStatus == LastDelivered("trailers", Undefined)

\* What was handed over stays what it was.
LEMMA KeepsHanded ==
  ASSUME DownInv, HandInv, [Next]_vars, delivered' = delivered
  PROVE  HandInv' /\ Arrived' = Arrived /\ LastStatus' = LastStatus
<1>1. down' = down \/ Transmission
  BY DEF Next, Client, Application, AttachCallback, Connect, SendMessage, SendFinish, Cancel,
     SocketEvent, OnOpen, OnMessage, OnClose, Handler, Server, ServerStep, ReadFirst, Read, ReadRest,
     ReadData, ReadBroken, ReadFinish, ReadClosed, Drain, Return, HandlerWrites, HandlerReturns,
     Break, vars, linkVars
<1>2. /\ delivered \in Nat /\ delivered <= Len(down) /\ Len(down) \in Nat
      /\ down \in Seq(DownMessage)
  BY Bounds DEF DownInv, DownTypes
<1>3. \A p \in 1..delivered : down'[p] = down[p]
  <2>1. CASE Transmission
    <3>1. PICK h \in DownMessage : h = Head(outbox)
      BY <2>1, HeadTailProperties DEF Transmission, DownInv, DownTypes
    <3>2. down' = down \/ down' = Append(down, h)
      BY <2>1, <3>1 DEF Transmission
    <3>3. down' = Append(down, h) => \A p \in 1..Len(down) : down'[p] = down[p]
      BY <1>2, Grown
    <3> QED BY <1>2, <3>2, <3>3
  <2> QED BY <1>1, <2>1
<1>4. LastInv' /\ Arrived' = Arrived /\ LastStatus' = LastStatus
  BY <1>3, LastKept DEF HandInv, Arrived, LastStatus
<1>5. UNCHANGED <<responses, outcome>> \/ HandlerWrites \/ HandlerReturns
  BY DEF Next, Client, Handler, Server, ServerStep, ReadFirst, Read, ReadRest,
     ReadData, ReadBroken, ReadFinish, ReadClosed, Drain, Transmission, Return,
     Break, vars, serverVars
<1>6. MessagesIn(delivered)' = MessagesIn(delivered)
  <2>1. CASE UNCHANGED <<responses, outcome>>
    BY <2>1 DEF MessagesIn, Done, Body
  <2>2. CASE HandlerWrites
    <3>1. ~Done /\ ~Done'
      BY <2>2 DEF HandlerWrites, Done, DownInv, DownTypes
    <3> QED BY <3>1 DEF MessagesIn
  <2>3. CASE HandlerReturns
    <3>1. server = "serving" /\ outbox = <<>> /\ responses' = responses
      BY <2>3 DEF HandlerReturns
    <3>2. ~Done /\ Len(down) <= Body /\ Body' = Body /\ Body \in Nat
      BY <3>1, HandlerRuns, Bounds DEF Body, DownInv
    <3>3. delivered # Body + 2
      BY <1>2, <3>2
    <3> QED BY <3>2, <3>3 DEF MessagesIn
  <2> QED BY <1>5, <2>1, <2>2, <2>3
<1>7. Counted'
  <2>1. MessagesIn(delivered') = MessagesIn(delivered)
    OBVIOUS
  <2> QED BY <1>4, <1>6 DEF HandInv, Counted
<1> QED BY <1>4, <1>7 DEF HandInv

\* OnMessage hands over the next message, trailers, or nothing.
LEMMA HandsOver ==
  ASSUME DownInv, HandInv, OnMessage, UNCHANGED serverVars, NEW m, m = NextDown
  PROVE  /\ HandInv'
         /\ \/ /\ m = <<>> /\ Arrived' = Arrived /\ LastStatus' = LastStatus
            \/ /\ \E v \in HandlerCodes \cup {Absent} :
                    /\ m = <<[type |-> "trailers", val |-> v]>> /\ Tells(v)
                    /\ LastStatus' = v
               /\ Arrived' = Arrived
            \/ /\ m = <<[type |-> "message", val |-> Arrived + 1]>>
               /\ Arrived \in Nat /\ Arrived + 1 <= responses /\ delivered >= 1
               /\ Arrived' = Arrived + 1 /\ LastStatus' = LastStatus
<1>1. /\ delivered < Len(down) /\ down[delivered + 1] # Goodbye /\ m = down[delivered + 1]
      /\ delivered' = delivered + 1 /\ UNCHANGED <<down, responses, outcome>>
  BY DEF OnMessage, DownWaits, NextDown, serverVars
<1>2. LastInv' /\ \A type \in {"message", "trailers"} : \A none :
        LastDelivered(type, none)' =
          IF m # <<>> /\ m[1].type = type THEN m[1].val ELSE LastDelivered(type, none)
  <2>1. delivered \in Nat
    BY DEF DownInv, DownTypes
  <2> QED BY <1>1, <2>1, LastGrows DEF HandInv
<1>3. /\ Arrived' = IF m # <<>> /\ m[1].type = "message" THEN m[1].val ELSE Arrived
      /\ LastStatus' = IF m # <<>> /\ m[1].type = "trailers" THEN m[1].val ELSE LastStatus
  BY <1>2 DEF Arrived, LastStatus
<1>4. MessagesIn(delivered)' = MessagesIn(delivered + 1)
  BY <1>1 DEF MessagesIn, Done, Body
<1>5. CASE m = <<>> /\ MessagesIn(delivered + 1) = Arrived
  BY <1>2, <1>3, <1>4, <1>5 DEF HandInv, Counted
<1>6. ASSUME NEW v \in HandlerCodes \cup {Absent}, m = <<[type |-> "trailers", val |-> v]>>,
             MessagesIn(delivered + 1) = Arrived
      PROVE  HandInv' /\ Arrived' = Arrived /\ LastStatus' = v
  <2>1. m # <<>> /\ m[1].type = "trailers" /\ m[1].val = v
    BY <1>6
  <2> QED BY <1>2, <1>3, <1>4, <1>6, <2>1 DEF HandInv, Counted
<1>7. CASE /\ m = <<[type |-> "message", val |-> Arrived + 1]>>
           /\ MessagesIn(delivered + 1) = Arrived + 1
           /\ Arrived \in Nat /\ Arrived + 1 <= responses /\ delivered >= 1
  <2>1. m # <<>> /\ m[1].type = "message" /\ m[1].val = Arrived + 1
    BY <1>7
  <2>2. Arrived' = Arrived + 1 /\ LastStatus' = LastStatus
    BY <1>3, <2>1
  <2> QED BY <1>2, <1>4, <1>7, <2>2 DEF HandInv, Counted
<1>8. \/ m = <<>> /\ MessagesIn(delivered + 1) = Arrived
      \/ /\ \E v \in HandlerCodes \cup {Absent} :
              m = <<[type |-> "trailers", val |-> v]>> /\ Tells(v)
         /\ MessagesIn(delivered + 1) = Arrived
      \/ /\ m = <<[type |-> "message", val |-> Arrived + 1]>>
         /\ MessagesIn(delivered + 1) = Arrived + 1
         /\ Arrived \in Nat /\ Arrived + 1 <= responses /\ delivered >= 1
  BY <1>1, Handed DEF HandInv
<1> QED BY <1>3, <1>5, <1>6, <1>7, <1>8

\* Before anything is sent nothing has been handed over.
LEMMA InitHanded == Init => HandInv /\ HandshakeInv /\ Arrived = 0 /\ LastStatus = Undefined
<1> SUFFICES ASSUME Init PROVE HandInv /\ HandshakeInv /\ Arrived = 0 /\ LastStatus = Undefined
  OBVIOUS
<1>1. delivered = 0 /\ server = "handshake" /\ responses = 0 /\ outcome = None
  BY DEF Init, LinkInit, WrapperInit
<1>2. \A type : DeliveredAt(type) = {}
  BY <1>1 DEF DeliveredAt
<1>3. Arrived = 0 /\ LastStatus = Undefined
  BY <1>2 DEF Arrived, LastStatus, LastDelivered
<1>4. MessagesIn(delivered) = 0
  BY <1>1 DEF MessagesIn
<1>5. HandInv
  BY <1>2, <1>3, <1>4 DEF HandInv, LastInv, Counted
<1>6. HandshakeInv
  BY DEF HandshakeInv, Init, LinkInit, WrapperInit
<1> QED BY <1>3, <1>5, <1>6

\* Only OnMessage takes a message from the connection.
LEMMA OnlyOnMessage ==
  ASSUME [Next]_vars
  PROVE  delivered' = delivered \/ (OnMessage /\ UNCHANGED serverVars)
  BY DEF Next, Client, Application, AttachCallback, Connect, SendMessage, SendFinish, Cancel,
     SocketEvent, OnOpen, OnClose, Handler, Server, ServerStep, ReadFirst, Read, ReadRest,
     ReadData, ReadBroken, ReadFinish, ReadClosed, Drain, Transmission, Return, HandlerWrites,
     HandlerReturns, Break, vars, linkVars

CallInv == Inv /\ DownInv /\ HandshakeInv /\ HandInv

LEMMA NextCallInv == CallInv /\ [Next]_vars => CallInv'
<1> SUFFICES ASSUME CallInv, [Next]_vars PROVE CallInv'
  OBVIOUS
<1>1. HandInv'
  BY OnlyOnMessage, KeepsHanded, HandsOver DEF CallInv
<1> QED BY <1>1, NextInv, NextDownInv, NextHandshake DEF CallInv

LEMMA CallInvHolds == Spec => []CallInv
<1>1. Init => CallInv
  BY InitInv, InitDown, InitHanded DEF CallInv
<1> QED BY <1>1, NextCallInv, PTL DEF Spec

-----------------------------------------------------------------------------
(* The WebSocket is one of the transports of AnyTransportCall *)

\* The theorems about a call, over this transport.
Call == INSTANCE CompleteCall_proofs WITH
  HeadersFirst <- FALSE,
  MaxHeaders <- 0,
  MaxChunks <- 4 + 2 * MaxResponses,
  MaxMessages <- MaxResponses,
  HeaderStatuses <- {},
  TrailerStatuses <- HandlerCodes \cup {Absent},
  HttpStatuses <- {},
  BadMessages <- FALSE,
  Unparsable <- FALSE,
  Sends <- TRUE,
  headersSeen <- 0,
  chunksSeen <- delivered,
  transportEnded <- ws = "closed",
  arrived <- LastDelivered("message", 0),
  lastStatus <- LastDelivered("trailers", Undefined),
  early <- IF started THEN MaxCallbacks ELSE callbacks

LEMMA SameInit == ClientInit <=> Call!ClientInit
  BY Zenon DEF ClientInit, Kinds,
               Call!ClientInit, Call!Kinds

LEMMA SameRegister == ASSUME NEW k PROVE Register(k) <=> Call!Register(k)
  BY Zenon DEF Register, ApplicationRuns, Busy, Top, Last, Kinds, flags,
               response,
               Call!Register, Call!ApplicationRuns, Call!Busy, Call!Top,
               Call!Last, Call!Kinds, Call!flags, Call!response

LEMMA SameStart == Start <=> Call!Start
  BY Zenon DEF Start, ApplicationRuns, Busy, Top, Last, Kinds, response,
               Call!Start, Call!ApplicationRuns, Call!Busy, Call!Top,
               Call!Last, Call!Kinds, Call!response

LEMMA SameSend == Send <=> Call!Send
  BY Zenon DEF Send, ApplicationRuns, Busy, Top, Last, Kinds, response,
               Call!Send, Call!ApplicationRuns, Call!Busy, Call!Top,
               Call!Last, Call!Kinds, Call!response

LEMMA SameFinishSend == FinishSend <=> Call!FinishSend
  BY Zenon DEF FinishSend, ApplicationRuns, Busy, Top, Last, Kinds, response,
               Call!FinishSend, Call!ApplicationRuns, Call!Busy, Call!Top,
               Call!Last, Call!Kinds, Call!response

LEMMA SameClose == Close <=> Call!Close
  BY Zenon DEF Close, ApplicationRuns, Busy, Top, Last, Kinds, response,
               Call!Close, Call!ApplicationRuns, Call!Busy, Call!Top,
               Call!Last, Call!Kinds, Call!response

LEMMA SameChunk == ASSUME NEW data PROVE OnTransportChunk(data) <=> Call!OnTransportChunk(data)
  BY Zenon DEF OnTransportChunk, TransportRuns, Busy, Top, Last, Kinds,
               clientVars, flags, response,
               Call!OnTransportChunk, Call!TransportRuns, Call!Busy, Call!Top,
               Call!Last, Call!Kinds, Call!clientVars, Call!flags,
               Call!response

LEMMA SameEnd == OnTransportEnd <=> Call!OnTransportEnd
  BY Zenon DEF OnTransportEnd, TransportRuns, Busy, Top, Last, Kinds,
               clientVars, flags, response, EndCode, Internal, Unknown,
               Complete, Loop,
               Call!OnTransportEnd, Call!TransportRuns, Call!Busy, Call!Top,
               Call!Last, Call!Kinds, Call!clientVars, Call!flags,
               Call!response, Call!EndCode, Call!Internal, Call!Unknown,
               Call!Complete, Call!Loop

LEMMA SameProcessItem == ProcessItem <=> Call!ProcessItem
  BY Zenon DEF ProcessItem, ClientRuns, Busy, Top, Last, Kinds, Pop, Front,
               RawOnMessage, RawOnHeaders, Loop, flags, response,
               Call!ProcessItem, Call!ClientRuns, Call!Busy, Call!Top,
               Call!Last, Call!Kinds, Call!Pop, Call!Front, Call!RawOnMessage,
               Call!RawOnHeaders, Call!Loop, Call!flags, Call!response

LEMMA SameInvoke == InvokeCallback <=> Call!InvokeCallback
  BY Zenon DEF InvokeCallback, ClientRuns, Busy, Top, Last, Kinds, Front,
               Skips, flags, response,
               Call!InvokeCallback, Call!ClientRuns, Call!Busy, Call!Top,
               Call!Last, Call!Kinds, Call!Front, Call!Skips, Call!flags,
               Call!response

LEMMA SameReturns == CallbackReturns <=> Call!CallbackReturns
  BY Zenon DEF CallbackReturns, Busy, Top, Last, Kinds, Front, flags,
               response,
               Call!CallbackReturns, Call!Busy, Call!Top, Call!Last,
               Call!Kinds, Call!Front, Call!flags, Call!response

LEMMA SameLoopEnds == LoopEnds <=> Call!LoopEnds
  BY Zenon DEF LoopEnds, ClientRuns, Busy, Top, Last, Kinds, Pop, Front,
               Skips, flags, response,
               Call!LoopEnds, Call!ClientRuns, Call!Busy, Call!Top, Call!Last,
               Call!Kinds, Call!Pop, Call!Front, Call!Skips, Call!flags,
               Call!response

LEMMA SameFail == FailAfterHeaders <=> Call!FailAfterHeaders
  BY Zenon DEF FailAfterHeaders, ClientRuns, Busy, Top, Last, Kinds, Front,
               Complete, Loop, flags, response,
               Call!FailAfterHeaders, Call!ClientRuns, Call!Busy, Call!Top,
               Call!Last, Call!Kinds, Call!Front, Call!Complete, Call!Loop,
               Call!flags, Call!response

LEMMA SameHandler ==
  ProcessItem \/ InvokeCallback \/ LoopEnds \/ FailAfterHeaders <=> Call!HandlerStep
  BY SameProcessItem, SameInvoke, SameLoopEnds, SameFail DEF Call!HandlerStep

\* A chunk that the call object is given, and nothing, one message or trailers.
LEMMA GivenChunk ==
  ASSUME OnTransportChunk(NextDown), ws # "closed", ws' = ws, delivered < 4 + 2 * MaxResponses,
         delivered' = delivered + 1, started' = started, NEW m, m = NextDown,
         NEW run \in Call!MessageRuns, NEW trailers \in Call!Trailers,
         [i \in DOMAIN run |-> [type |-> run[i], val |-> Arrived + i]] \o trailers = m,
         Arrived' = Arrived + Len(run),
         LastStatus' = IF trailers = <<>> THEN LastStatus ELSE trailers[1].val,
         callbacks' = callbacks
  PROVE  Call!Next
<1>1. Call!OnTransportChunk([i \in DOMAIN run |-> [type |-> run[i], val |-> Arrived + i]] \o trailers)
  BY SameChunk
<1>2. Call!TransportChunk(run, trailers)
  BY <1>1 DEF Call!TransportChunk, Arrived, LastStatus
<1> QED BY <1>2 DEF Call!Next

\* While OnMessage is enabled another message fits into the response.
LEMMA MessagesFit ==
  ASSUME DownInv, HandInv, OnMessage
  PROVE  Arrived \in Nat /\ MaxResponses - Arrived \in Nat /\ delivered < 4 + 2 * MaxResponses
<1>1. PICK d \in Nat, b \in Nat, r \in Nat :
        /\ d = delivered /\ b = Body /\ r = responses /\ r <= MaxResponses
        /\ b = IF r = 0 THEN 0 ELSE 2 * r + 2
  <2>1. delivered \in Nat /\ Body \in Nat /\ responses \in Nat /\ responses <= MaxResponses
    BY Bounds, WebsocketAssumption DEF DownInv, DownTypes
  <2>2. Body = IF responses = 0 THEN 0 ELSE 2 * responses + 2
    BY DEF Body
  <2> QED BY <2>1, <2>2
<1>2. d + 1 <= b + 2
  <2>1. delivered < Len(down) /\ down[delivered + 1] # Goodbye
    BY DEF OnMessage, DownWaits, NextDown
  <2>2. d + 1 <= IF Done THEN b + 2 ELSE b
    BY <1>1, <2>1, HandedPlanned
  <2> QED BY <1>1, <2>2
<1>3. Arrived = IF d < 4 THEN 0 ELSE IF Done /\ d = b + 2 THEN r ELSE (d \div 2) - 1
  BY <1>1 DEF HandInv, Counted, MessagesIn
<1>4. d >= 4 => r # 0 /\ d <= 2 * r + 3 /\ (d \div 2) - 1 \in Nat /\ (d \div 2) - 1 <= r
  BY <1>1, <1>2
<1>5. Arrived \in Nat /\ Arrived <= r
  BY <1>1, <1>3, <1>4
<1>6. d < 4 + 2 * MaxResponses
  BY <1>1, <1>2, WebsocketAssumption
<1> QED BY <1>1, <1>5, <1>6, WebsocketAssumption

\* The run of n messages that one WebSocket message may hold: at most one.
Run(n) == [i \in 1..n |-> "message"]
Parsed(run, a) == [i \in DOMAIN run |-> [type |-> run[i], val |-> a + i]]

LEMMA RunOfNone == ASSUME NEW a \in Nat PROVE Len(Run(0)) = 0 /\ Parsed(Run(0), a) = <<>>
<1>1. DOMAIN Run(0) = 1..0 /\ DOMAIN Parsed(Run(0), a) = 1..0
  BY DEF Run, Parsed
<1>2. Parsed(Run(0), a) \in Seq(Nat) /\ Len(Parsed(Run(0), a)) = 0
  BY <1>1 DEF Parsed
<1>3. Len(Run(0)) = 0
  BY DEF Run
<1> QED BY <1>2, <1>3, EmptySeq

LEMMA RunOfOne ==
  ASSUME NEW a \in Nat
  PROVE  Len(Run(1)) = 1 /\ Parsed(Run(1), a) = <<[type |-> "message", val |-> a + 1]>>
<1> DEFINE x == [type |-> "message", val |-> a + 1]
<1>1. DOMAIN Run(1) = 1..1 /\ Len(Run(1)) = 1
  BY DEF Run
<1>2. Parsed(Run(1), a) = [i \in 1..1 |-> x]
  BY <1>1 DEF Parsed, Run
<1> HIDE DEF x
<1>3. <<x>> = [i \in 1..1 |-> x]
  OBVIOUS
<1>4. Parsed(Run(1), a) = <<x>>
  BY <1>2, <1>3
<1> QED BY <1>1, <1>4 DEF x

\* What the socket hands over is a chunk that a transport may hand over.
LEMMA ChunkImplements ==
  ASSUME DownInv, HandInv, OnMessage, UNCHANGED serverVars
  PROVE  Call!Next
<1> DEFINE m == NextDown
<1>1. /\ OnTransportChunk(m) /\ ws = "open" /\ ws' = ws /\ delivered' = delivered + 1
      /\ started' = started /\ callbacks' = callbacks
  BY DEF OnMessage, OnTransportChunk, transportVars, clientVars, flags
<1>2. Arrived \in Nat /\ MaxResponses - Arrived \in Nat /\ delivered < 4 + 2 * MaxResponses
  BY MessagesFit
<1>3. \A n \in 0..(MaxResponses - Arrived) : Run(n) \in Call!MessageRuns
  BY DEF Run, Call!MessageRuns, Arrived
<1>4. <<>> \in Call!Trailers
  BY DEF Call!Trailers
<1>5. CASE m = <<>> /\ Arrived' = Arrived /\ LastStatus' = LastStatus
  <2>1. Run(0) \in Call!MessageRuns /\ Len(Run(0)) = 0 /\ Parsed(Run(0), Arrived) = <<>>
    BY <1>2, <1>3, RunOfNone
  <2>2. Parsed(Run(0), Arrived) \o <<>> = m
    BY <1>5, <2>1
  <2>3. Arrived' = Arrived + Len(Run(0))
    BY <1>2, <1>5, <2>1
  <2> QED BY <1>1, <1>2, <1>4, <1>5, <2>1, <2>2, <2>3, GivenChunk DEF Parsed
<1>6. ASSUME NEW v \in HandlerCodes \cup {Absent}, m = <<[type |-> "trailers", val |-> v]>>,
             LastStatus' = v, Arrived' = Arrived
      PROVE  Call!Next
  <2>1. Run(0) \in Call!MessageRuns /\ Len(Run(0)) = 0 /\ Parsed(Run(0), Arrived) = <<>>
    BY <1>2, <1>3, RunOfNone
  <2>2. m \in Call!Trailers /\ m # <<>> /\ m[1].val = v
    BY <1>6 DEF Call!Trailers
  <2>3. Parsed(Run(0), Arrived) \o m = m
    <3>1. PICK x : m = <<x>>
      BY <1>6
    <3>2. m \in Seq({x})
      BY <3>1
    <3> QED BY <2>1, <3>2, ConcatEmptySeq
  <2>4. Arrived' = Arrived + Len(Run(0))
    BY <1>2, <1>6, <2>1
  <2>5. LastStatus' = IF m = <<>> THEN LastStatus ELSE m[1].val
    BY <1>6, <2>2
  <2> QED BY <1>1, <1>2, <2>1, <2>2, <2>3, <2>4, <2>5, GivenChunk DEF Parsed
<1>7. CASE /\ m = <<[type |-> "message", val |-> Arrived + 1]>>
           /\ Arrived + 1 <= responses /\ Arrived' = Arrived + 1 /\ LastStatus' = LastStatus
  <2>1. 1 \in 0..(MaxResponses - Arrived)
    BY <1>2, <1>7, Bounds, WebsocketAssumption DEF DownInv, DownTypes
  <2>2. /\ Run(1) \in Call!MessageRuns /\ Len(Run(1)) = 1
        /\ Parsed(Run(1), Arrived) = <<[type |-> "message", val |-> Arrived + 1]>>
    BY <1>2, <1>3, <2>1, RunOfOne
  <2>3. Parsed(Run(1), Arrived) \o <<>> = m
    BY <1>7, <2>2
  <2>4. Arrived' = Arrived + Len(Run(1))
    BY <1>7, <2>2
  <2> QED BY <1>1, <1>2, <1>4, <1>7, <2>2, <2>3, <2>4, GivenChunk DEF Parsed
<1> QED BY <1>5, <1>6, <1>7, HandsOver

\* What the call object sees of the transport is as it was.
LEMMA SeenKept ==
  ASSUME CallInv, [Next]_vars, delivered' = delivered, (ws = "closed")' <=> ws = "closed"
  PROVE  UNCHANGED Call!transportVars
<1>1. Arrived' = Arrived /\ LastStatus' = LastStatus
  BY KeepsHanded DEF CallInv
<1>2. (ws = "closed")' = (ws = "closed")
  OBVIOUS
<1> QED BY <1>1, <1>2 DEF Call!transportVars, Arrived, LastStatus

LEMMA QuietImplements ==
  ASSUME CallInv, [Next]_vars, delivered' = delivered, (ws = "closed")' <=> ws = "closed",
         UNCHANGED clientVars
  PROVE  UNCHANGED Call!vars
  BY SeenKept DEF clientVars, flags, response, Call!vars, Call!clientVars, Call!flags, Call!response

LEMMA ApplicationImplements ==
  ASSUME CallInv, [Next]_vars, Application
  PROVE  Call!Next
<1>1. delivered' = delivered
  BY DEF Application, AttachCallback, Connect, SendMessage, SendFinish, Cancel, linkVars
<1>2. (ws = "closed")' <=> ws = "closed"
  <2>1. ~started => ws = "none"
    BY DEF CallInv, Inv, StreamInv
  <2> QED BY <2>1 DEF Application, AttachCallback, Connect, Start, SendMessage, SendFinish, Cancel,
             transportVars
<1>3. UNCHANGED Call!transportVars
  BY <1>1, <1>2, SeenKept
<1>4. CASE AttachCallback
  <2>1. PICK k \in Kinds : Register(k)
    BY <1>4 DEF AttachCallback
  <2>2. ~started /\ started' = started
    BY <1>4, <2>1 DEF AttachCallback, Register, flags
  <2>3. Call!Register(k) /\ k \in Call!Kinds
    BY <2>1, SameRegister DEF Kinds, Call!Kinds
  <2> QED BY <1>3, <2>2, <2>3 DEF Call!Next, Call!Application
<1>5. CASE Connect
  <2>1. Start /\ callbacks = MaxCallbacks /\ callbacks' = callbacks /\ ~started /\ started'
    BY <1>5 DEF Connect, Start
  <2>2. Call!Start
    BY <2>1, SameStart
  <2> QED BY <1>3, <2>1, <2>2 DEF Call!Next, Call!Application
<1>6. CASE SendMessage
  <2>1. Send /\ started /\ started' = started
    BY <1>6 DEF SendMessage, Send
  <2>2. Call!Send
    BY <2>1, SameSend
  <2> QED BY <1>3, <2>1, <2>2 DEF Call!Next, Call!Application
<1>7. CASE SendFinish
  <2>1. FinishSend /\ started /\ started' = started
    BY <1>7 DEF SendFinish, FinishSend
  <2>2. Call!FinishSend
    BY <2>1, SameFinishSend
  <2> QED BY <1>3, <2>1, <2>2 DEF Call!Next, Call!Application
<1>8. CASE Cancel
  <2>1. Close /\ started /\ started' = started
    BY <1>8 DEF Cancel, Close
  <2>2. Call!Close
    BY <2>1, SameClose
  <2> QED BY <1>3, <2>1, <2>2 DEF Call!Next, Call!Application
<1> QED BY <1>4, <1>5, <1>6, <1>7, <1>8 DEF Application

\* onclose is onEnd.
LEMMA CloseImplements ==
  ASSUME CallInv, [Next]_vars, OnClose
  PROVE  Call!Next
<1>1. /\ delivered' = delivered /\ ws' = "closed" /\ OnTransportEnd
      /\ started' = started /\ callbacks' = callbacks
  BY DEF OnClose, OnTransportEnd, linkVars, clientVars, flags
<1>2. Arrived' = Arrived /\ LastStatus' = LastStatus
  BY <1>1, KeepsHanded DEF CallInv
<1>3. Call!OnTransportEnd
  BY <1>1, SameEnd
<1>4. Call!TransportEnd
  BY <1>1, <1>2, <1>3 DEF Call!TransportEnd, Arrived, LastStatus
<1> QED BY <1>4 DEF Call!Next

LEMMA HandlerImplements ==
  ASSUME CallInv, [Next]_vars, Handler, UNCHANGED <<transportVars, linkVars>>
  PROVE  Call!Next
<1>1. delivered' = delivered /\ ws' = ws
  BY DEF transportVars, linkVars
<1>2. UNCHANGED Call!transportVars
  BY <1>1, SeenKept
<1>3. UNCHANGED <<callbacks, started>>
  BY DEF Handler, HandlerStep, InvokeCallback, ProcessItem, LoopEnds, FailAfterHeaders,
         CallbackReturns, flags
<1>4. Call!HandlerStep \/ Call!CallbackReturns
  BY SameHandler, SameReturns DEF Handler, HandlerStep
<1> QED BY <1>2, <1>3, <1>4 DEF Call!Next, Call!Handler, Call!Return

LEMMA NextImplements == CallInv /\ [Next]_vars => [Call!Next]_(Call!vars)
<1> SUFFICES ASSUME CallInv, [Next]_vars PROVE [Call!Next]_(Call!vars)
  OBVIOUS
<1>1. CASE Application
  BY <1>1, ApplicationImplements
<1>2. CASE OnOpen
  <2>1. delivered' = delivered /\ UNCHANGED clientVars /\ ((ws = "closed")' <=> ws = "closed")
    BY <1>2 DEF OnOpen
  <2> QED BY <2>1, QuietImplements
<1>3. CASE OnMessage /\ UNCHANGED serverVars
  BY <1>3, ChunkImplements DEF CallInv
<1>4. CASE OnClose
  BY <1>4, CloseImplements
<1>5. CASE Handler /\ UNCHANGED <<transportVars, linkVars, serverVars>>
  BY <1>5, HandlerImplements
<1>6. CASE Server
  <2>1. delivered' = delivered
    BY <1>6 DEF Server, ServerStep, ReadFirst, Read, ReadRest, ReadData, ReadBroken, ReadFinish,
       ReadClosed, Drain, Transmission, Return, HandlerWrites, HandlerReturns, linkVars
  <2>2. UNCHANGED clientVars /\ ((ws = "closed")' <=> ws = "closed")
    BY <1>6 DEF Server, transportVars
  <2> QED BY <2>1, <2>2, QuietImplements
<1>7. CASE Break \/ UNCHANGED vars
  <2>1. delivered' = delivered /\ UNCHANGED clientVars /\ ((ws = "closed")' <=> ws = "closed")
    BY <1>7 DEF Break, vars, transportVars, linkVars
  <2> QED BY <2>1, QuietImplements
<1> QED BY <1>1, <1>2, <1>3, <1>4, <1>5, <1>6, <1>7 DEF Next, Client, SocketEvent

LEMMA InitImplements == Init => Call!Init
<1> SUFFICES ASSUME Init PROVE Call!Init
  OBVIOUS
<1>1. Call!ClientInit
  BY SameInit DEF Init
<1>2. Arrived = 0 /\ LastStatus = Undefined
  BY InitHanded
<1>3. ws # "closed" /\ delivered = 0 /\ started = FALSE
  BY DEF Init, WebsocketInit, LinkInit, ClientInit
<1> QED BY <1>1, <1>2, <1>3 DEF Call!Init, Arrived, LastStatus

LEMMA WebsocketImplements == Spec => Call!Spec
<1> QED BY InitImplements, NextImplements, CallInvHolds, PTL DEF Spec, Call!Spec

\* What AnyTransportCall assumes of its constants.
LEMMA TransportConstants ==
  /\ FALSE \in BOOLEAN
  /\ 0 \in Nat /\ 4 + 2 * MaxResponses \in Nat /\ MaxResponses \in Nat
  /\ {} \cup (HandlerCodes \cup {Absent}) \subseteq Status
  /\ {} \subseteq Nat
  /\ FALSE \in BOOLEAN /\ FALSE \in BOOLEAN /\ TRUE \in BOOLEAN
<1>1. 4 + 2 * MaxResponses \in Nat /\ MaxResponses \in Nat
  BY WebsocketAssumption
<1>2. HandlerCodes \cup {Absent} \subseteq Status
  <2>1. \A code \in HandlerCodes : code \in Int
    BY WebsocketAssumption
  <2> QED BY <2>1, WebsocketAssumption DEF Status
<1> QED BY <1>1, <1>2

\* The WebSocket transport keeps the Transport contract, as it is stated in
\* AnyTransportCall: each onmessage is a chunk of the response, none comes after
\* onclose, and the messages of the response come in their order, however the
\* server's Write cuts them and wherever the connection breaks.
THEOREM WebsocketConforms == Spec => IsATransport
<1>1. AnyTransport!Init <=> Call!Init
  BY Zenon DEF AnyTransport!Init, Call!Init, AnyTransport!ClientInit, Call!ClientInit,
               AnyTransport!Kinds, Call!Kinds
<1>2. AnyTransport!Next <=> Call!Next
  BY Zenon DEF AnyTransport!Next, Call!Next, AnyTransport!Application, Call!Application,
               AnyTransport!Register, Call!Register, AnyTransport!Start, Call!Start,
               AnyTransport!Send, Call!Send, AnyTransport!FinishSend, Call!FinishSend,
               AnyTransport!Close, Call!Close, AnyTransport!ApplicationRuns,
               Call!ApplicationRuns, AnyTransport!TransportHeaders, Call!TransportHeaders,
               AnyTransport!OnTransportHeaders, Call!OnTransportHeaders,
               AnyTransport!TransportRuns, Call!TransportRuns, AnyTransport!HeaderCode,
               Call!HeaderCode, AnyTransport!HttpStatusToCode, Call!HttpStatusToCode,
               AnyTransport!RawOnHeaders, Call!RawOnHeaders, AnyTransport!TransportChunk,
               Call!TransportChunk, AnyTransport!OnTransportChunk, Call!OnTransportChunk,
               AnyTransport!MessageRuns, Call!MessageRuns, AnyTransport!Trailers,
               Call!Trailers, AnyTransport!TransportGarbage, Call!TransportGarbage,
               AnyTransport!OnUnparsableChunk, Call!OnUnparsableChunk,
               AnyTransport!Complete, Call!Complete, AnyTransport!Internal, Call!Internal,
               AnyTransport!Unknown, Call!Unknown, AnyTransport!EndCode, Call!EndCode,
               AnyTransport!TransportEnd, Call!TransportEnd, AnyTransport!OnTransportEnd,
               Call!OnTransportEnd, AnyTransport!Handler, Call!Handler,
               AnyTransport!HandlerStep, Call!HandlerStep, AnyTransport!ProcessItem,
               Call!ProcessItem, AnyTransport!ClientRuns, Call!ClientRuns, AnyTransport!Pop,
               Call!Pop, AnyTransport!RawOnMessage, Call!RawOnMessage,
               AnyTransport!InvokeCallback, Call!InvokeCallback, AnyTransport!Skips,
               Call!Skips, AnyTransport!LoopEnds, Call!LoopEnds,
               AnyTransport!FailAfterHeaders, Call!FailAfterHeaders, AnyTransport!Return,
               Call!Return, AnyTransport!CallbackReturns, Call!CallbackReturns,
               AnyTransport!clientVars, Call!clientVars, AnyTransport!flags, Call!flags,
               AnyTransport!response, Call!response, AnyTransport!transportVars,
               Call!transportVars, AnyTransport!Kinds, Call!Kinds, AnyTransport!Busy,
               Call!Busy, AnyTransport!Top, Call!Top, AnyTransport!Last, Call!Last,
               AnyTransport!Front, Call!Front, AnyTransport!OK, Call!OK, AnyTransport!Loop,
               Call!Loop
<1>3. [AnyTransport!Next]_(AnyTransport!vars) <=> [Call!Next]_(Call!vars)
  BY <1>2 DEF AnyTransport!vars, Call!vars, AnyTransport!clientVars, Call!clientVars,
               AnyTransport!flags, Call!flags, AnyTransport!response, Call!response,
               AnyTransport!transportVars, Call!transportVars
<1> QED BY <1>1, <1>3, WebsocketImplements, PTL DEF IsATransport, AnyTransport!Spec, Call!Spec


-----------------------------------------------------------------------------
(* The code that the client is told *)

LEMMA ClientInvHolds == ASSUME ~Reentrant PROVE Spec => []Call!CompleteInv
<1>1. Call!Spec => []Call!CompleteInv
  BY TransportConstants, ClientAssumption, WebsocketAssumption, Call!CompleteInvHolds
     DEF Status, Call!Status, Kinds, Call!Kinds
<1> QED BY <1>1, WebsocketImplements, PTL

\* What the handler has returned stays.
LEMMA DoneStays ==
  ASSUME DownInv, [Next]_vars, Done
  PROVE  Done' /\ outcome' = outcome /\ responses' = responses
<1>1. server # "serving"
  BY DEF DownInv, DownTypes
<1>2. UNCHANGED <<outcome, responses>>
  BY <1>1 DEF Next, Client, Handler, Server, ServerStep, ReadFirst, Read, ReadRest, ReadData,
     ReadBroken, ReadFinish, ReadClosed, Drain, Transmission, Return, HandlerWrites,
     HandlerReturns, Break, vars, serverVars
<1> QED BY <1>2 DEF Done

\* A status that the client has got is the handler's, and every message came first.
OutcomeInv ==
  \/ LastStatus \in {Undefined, Absent}
  \/ Done /\ LastStatus = outcome /\ Arrived = responses

LEMMA NextOutcome == ASSUME CallInv, OutcomeInv, [Next]_vars PROVE OutcomeInv'
<1>1. Done => Done' /\ outcome' = outcome /\ responses' = responses
  BY DoneStays DEF CallInv
<1>2. CASE delivered' = delivered
  <2>1. Arrived' = Arrived /\ LastStatus' = LastStatus
    BY <1>2, KeepsHanded DEF CallInv
  <2> QED BY <1>1, <2>1 DEF OutcomeInv
<1>3. CASE OnMessage /\ UNCHANGED serverVars
  <2>1. PICK m : m = NextDown
    OBVIOUS
  <2>2. CASE Arrived' = Arrived /\ LastStatus' = LastStatus
    BY <1>1, <2>2 DEF OutcomeInv
  <2>3. CASE \E v \in HandlerCodes \cup {Absent} : LastStatus' = v /\ Tells(v) /\ Arrived' = Arrived
    BY <1>1, <2>3 DEF OutcomeInv, Tells
  <2>4. CASE /\ Arrived \in Nat /\ Arrived + 1 <= responses /\ responses \in Nat
             /\ LastStatus' = LastStatus
    <3>1. Arrived # responses
      BY <2>4
    <3> QED BY <2>4, <3>1 DEF OutcomeInv
  <2>5. responses \in Nat
    BY Bounds DEF CallInv, DownInv
  <2> QED BY <1>3, <2>1, <2>2, <2>3, <2>4, <2>5, HandsOver DEF CallInv
<1> QED BY <1>2, <1>3, OnlyOnMessage

\* The items of the chunk that onTransportChunk has still to look at.
Left == Call!LeftOf(stack)

\* Metadata without a status is the first that comes, and so never responseTrailers.
OneItem(item) ==
  item.type = "trailers" => item.val \in HandlerCodes \/ (item.val = Absent /\ responseHeaders = Undefined)

TrailersInv ==
  /\ responseTrailers \in {Undefined} \cup HandlerCodes
  /\ delivered < 2 => responseHeaders = Undefined /\ Left = <<>>
  /\ Left = <<>> \/ \E item : Left = <<item>> /\ OneItem(item)

LEMMA StackOfOne ==
  ASSUME NEW f, stack = <<>>, stack' = Append(stack, f)
  PROVE  Call!LeftOf(stack') = IF f.do = "chunk" THEN f.data ELSE <<>>
<1>1. PICK s : s = stack'
  OBVIOUS
<1>2. Len(s) = 1 /\ s[1] = f
  BY <1>1
<1> QED BY <1>1, <1>2 DEF Call!LeftOf

\* An upcall of the transport finds no handler unfinished.
LEMMA UpcallTrailers ==
  ASSUME ~Reentrant, CallInv, TrailersInv, [Next]_vars,
         (OnMessage /\ UNCHANGED serverVars) \/ OnClose
  PROVE  TrailersInv'
<1>1. stack = <<>> /\ delivered \in Nat
  BY DEF OnMessage, OnClose, OnTransportChunk, OnTransportEnd, TransportRuns, CallInv, DownInv, DownTypes
<1>2. delivered' \in {delivered, delivered + 1} /\ UNCHANGED response
  BY DEF OnMessage, OnClose, OnTransportChunk, OnTransportEnd, clientVars, linkVars
<1>3. CASE UNCHANGED stack
  BY <1>1, <1>2, <1>3 DEF TrailersInv, Left, OneItem, response
<1>4. CASE OnClose /\ stack' # stack
  <2>1. stack' = Append(stack, Loop("end", EndCode)) /\ delivered' = delivered
    BY <1>4 DEF OnClose, OnTransportEnd, Complete, clientVars, linkVars
  <2>2. Left' = <<>>
    <3>1. Loop("end", EndCode).do = "end"
      BY DEF Loop
    <3>2. PICK f : f = Loop("end", EndCode)
      OBVIOUS
    <3> QED BY <1>1, <2>1, <3>1, <3>2, StackOfOne DEF Left
  <2> QED BY <1>2, <2>1, <2>2 DEF TrailersInv, response
<1>5. CASE OnMessage /\ UNCHANGED serverVars /\ stack' # stack
  <2>1. PICK m : m = NextDown
    OBVIOUS
  <2>2. stack' = Append(stack, [do |-> "chunk", data |-> m]) /\ delivered' = delivered + 1
    BY <1>5, <2>1 DEF OnMessage, OnTransportChunk, clientVars
  <2>3. Left' = m
    BY <1>1, <2>2, StackOfOne DEF Left
  <2>4. CASE m = <<>>
    BY <1>1, <1>2, <2>2, <2>3, <2>4 DEF TrailersInv, response
  <2>5. ASSUME NEW item, m = <<item>>, OneItem(item), delivered >= 1 PROVE TrailersInv'
    <3>1. OneItem(item)'
      BY <1>2, <2>5 DEF OneItem, response
    <3>2. ~(delivered' < 2)
      BY <1>1, <2>2, <2>5
    <3> QED BY <1>2, <2>3, <2>5, <3>1, <3>2 DEF TrailersInv, response
  <2>6. ASSUME NEW v \in HandlerCodes \cup {Absent}, m = <<[type |-> "trailers", val |-> v]>>, Tells(v)
        PROVE  TrailersInv'
    <3>1. delivered >= 1 /\ (v \in HandlerCodes \/ (v = Absent /\ delivered < 2))
      BY <1>1, <2>6 DEF Tells, Done, CallInv, DownInv, DownTypes
    <3>2. OneItem([type |-> "trailers", val |-> v])
      BY <3>1 DEF OneItem, TrailersInv
    <3> QED BY <2>5, <2>6, <3>1, <3>2
  <2>7. CASE m = <<[type |-> "message", val |-> Arrived + 1]>> /\ delivered >= 1
    <3>1. OneItem([type |-> "message", val |-> Arrived + 1])
      BY DEF OneItem
    <3> QED BY <2>5, <2>7, <3>1
  <2> QED BY <1>5, <2>1, <2>4, <2>6, <2>7, HandsOver DEF CallInv
<1> QED BY <1>3, <1>4, <1>5

\* data.forEach takes the items one by one, nothing else touches the metadata.
LEMMA HandlerTrailers ==
  ASSUME CallInv, Call!CallInv, TrailersInv, [Next]_vars,
         Handler, UNCHANGED <<transportVars, linkVars>>
  PROVE  TrailersInv'
<1>1. delivered' = delivered /\ Arrived' = Arrived
  BY KeepsHanded DEF linkVars, CallInv
<1>2. /\ Call!ClientTypeOK /\ Call!SeqInv
      /\ LastDelivered("message", 0) \in Nat
      /\ LastDelivered("message", 0)' = LastDelivered("message", 0)
  BY <1>1, WebsocketAssumption DEF Call!CallInv, Call!TypeOK, Arrived
<1>3. ASSUME Left' = Left, UNCHANGED response PROVE TrailersInv'
  BY <1>1, <1>3 DEF TrailersInv, OneItem, response
<1>4. CASE InvokeCallback \/ CallbackReturns
  <2>1. Call!InvokeCallback \/ Call!CallbackReturns
    BY <1>4, SameInvoke, SameReturns
  <2>2. Call!LeftOf(stack') = Call!LeftOf(stack)
    BY <2>1, TransportConstants, ClientAssumption, Call!LoopGoesOn
       DEF Status, Call!Status, Kinds, Call!Kinds
  <2>3. UNCHANGED response
    BY <1>4 DEF InvokeCallback, CallbackReturns
  <2> QED BY <1>3, <2>2, <2>3 DEF Left
<1>5. CASE LoopEnds
  <2>1. Call!LoopEnds
    BY <1>5, SameLoopEnds
  <2>2. Call!LeftOf(stack') = Call!LeftOf(stack)
    BY <1>2, <2>1, TransportConstants, ClientAssumption, Call!LoopEndsSeq
       DEF Status, Call!Status, Kinds, Call!Kinds
  <2>3. UNCHANGED response
    BY <1>5 DEF LoopEnds
  <2> QED BY <1>3, <2>2, <2>3 DEF Left
<1>6. CASE FailAfterHeaders
  <2>1. Call!FailAfterHeaders
    BY <1>6, SameFail
  <2>2. Call!LeftOf(stack') = <<>> /\ Call!LeftOf(stack) = <<>>
    BY <1>2, <2>1, TransportConstants, ClientAssumption, Call!FailSeq
       DEF Status, Call!Status, Kinds, Call!Kinds
  <2>3. UNCHANGED response
    BY <1>6 DEF FailAfterHeaders
  <2> QED BY <1>3, <2>2, <2>3 DEF Left
<1>7. CASE ProcessItem
  <2>1. Call!ProcessItem /\ Call!Top = Top
    BY <1>7, SameProcessItem, Zenon DEF Top, Call!Top, Last, Call!Last
  <2>2. /\ Call!LeftOf(stack) = Call!Top.data
        /\ \/ /\ Call!LeftOf(stack') = <<>> /\ UNCHANGED response
           \/ /\ Call!LeftOf(stack') = Tail(Call!Top.data) /\ Call!Top.data # <<>> /\ UNCHANGED response
           \/ /\ Call!Top.data # <<>> /\ Head(Call!Top.data).type = "trailers"
              /\ Call!LeftOf(stack') = Tail(Call!Top.data)
              /\ IF responseHeaders = Undefined
                   THEN responseHeaders' = Head(Call!Top.data).val /\ UNCHANGED responseTrailers
                   ELSE responseTrailers' = Head(Call!Top.data).val /\ UNCHANGED responseHeaders
    BY <1>2, <2>1, TransportConstants, ClientAssumption, Call!ItemView
       DEF Status, Call!Status, Kinds, Call!Kinds, response, Call!response
  <2>3. /\ Left = Top.data
        /\ \/ /\ Left' = <<>> /\ UNCHANGED response
           \/ /\ Left' = Tail(Top.data) /\ Top.data # <<>> /\ UNCHANGED response
           \/ /\ Top.data # <<>> /\ Head(Top.data).type = "trailers"
              /\ Left' = Tail(Top.data)
              /\ IF responseHeaders = Undefined
                   THEN responseHeaders' = Head(Top.data).val /\ UNCHANGED responseTrailers
                   ELSE responseTrailers' = Head(Top.data).val /\ UNCHANGED responseHeaders
    BY <2>1, <2>2 DEF Left
  <2>4. CASE Left' = <<>> /\ UNCHANGED response
    BY <1>1, <2>4 DEF TrailersInv, OneItem, response
  <2>5. CASE ~(Left' = <<>> /\ UNCHANGED response)
    <3>1. PICK item : Top.data = <<item>> /\ OneItem(item)
      BY <2>3, <2>5 DEF TrailersInv
    <3>2. Tail(<<item>>) = <<>> /\ Head(<<item>>) = item
      OBVIOUS
    <3>3. /\ Left' = <<>> /\ ~(delivered < 2)
          /\ item.type = "trailers"
          /\ IF responseHeaders = Undefined
               THEN responseHeaders' = item.val /\ UNCHANGED responseTrailers
               ELSE responseTrailers' = item.val /\ UNCHANGED responseHeaders
      BY <2>3, <2>5, <3>1, <3>2 DEF TrailersInv
    <3>4. responseHeaders = Undefined \/ item.val \in HandlerCodes
      BY <3>1, <3>3 DEF OneItem
    <3> QED BY <1>1, <3>3, <3>4 DEF TrailersInv
  <2> QED BY <2>4, <2>5
<1> QED BY <1>4, <1>5, <1>6, <1>7 DEF Handler, HandlerStep

LEMMA NextTrailers ==
  ASSUME ~Reentrant, CallInv, Call!CallInv, TrailersInv, [Next]_vars
  PROVE  TrailersInv'
<1>1. ASSUME UNCHANGED <<stack, response>>, delivered' = delivered PROVE TrailersInv'
  BY <1>1 DEF TrailersInv, OneItem, Left, response
<1>2. CASE Application
  BY <1>1, <1>2 DEF Application, AttachCallback, Register, Connect, Start, SendMessage, Send,
     SendFinish, FinishSend, Cancel, Close, linkVars
<1>3. CASE OnOpen
  BY <1>1, <1>3 DEF OnOpen, clientVars
<1>4. CASE (OnMessage /\ UNCHANGED serverVars) \/ OnClose
  BY <1>4, UpcallTrailers
<1>5. CASE Handler /\ UNCHANGED <<transportVars, linkVars, serverVars>>
  BY <1>5, HandlerTrailers
<1>6. CASE Server
  BY <1>1, <1>6 DEF Server, ServerStep, ReadFirst, Read, ReadRest, ReadData, ReadBroken, ReadFinish,
     ReadClosed, Drain, Transmission, Return, HandlerWrites, HandlerReturns, linkVars, clientVars
<1>7. CASE Break \/ UNCHANGED vars
  BY <1>1, <1>7 DEF Break, vars, clientVars, linkVars
<1> QED BY <1>2, <1>3, <1>4, <1>5, <1>6, <1>7 DEF Next, Client, SocketEvent

\* An end is Unknown, or the handler's code behind all it has written.
Proper(c) ==
  \/ c = Unknown
  \/ /\ Done /\ c = outcome
     /\ \A i \in 1..MaxCallbacks["message"] : heard["message"][i] = [n \in 1..responses |-> n]

EndsInv ==
  /\ \A p \in 1..Len(stack) : ~Call!FailFrameAt(p)
  /\ \A c : Call!Reports(c) => Proper(c)

\* onTransportEnd looks at the last metadata that came.
LEMMA EndIsProper ==
  ASSUME ~Reentrant, CallInv, Call!CompleteInv, TrailersInv, OutcomeInv, [Next]_vars,
         NEW c, Call!EndsWith(c)
  PROVE  Proper(c)'
<1>1. responseTrailers # NoStatus
  <2>1. \A code \in HandlerCodes : code \in Int
    BY WebsocketAssumption
  <2>2. NoStatus \notin Int /\ NoStatus # Undefined
    BY ClientAssumption
  <2> QED BY <2>1, <2>2 DEF TrailersInv
<1>2. /\ started /\ heard' = heard
      /\ c = Call!Unknown \/ (c = LastDelivered("trailers", Undefined) /\ c \notin {Undefined, NoStatus})
      /\ started => \A i \in 1..MaxCallbacks["message"] :
                      Call!Heard(i) = Call!FirstMessages(LastDelivered("message", 0))
  BY <1>1, TransportConstants, ClientAssumption, WebsocketAssumption, Call!EndsDone
     DEF Status, Call!Status, Kinds, Call!Kinds, Call!CompleteInv
<1>3. c = Unknown \/ (Done /\ c = outcome /\ Arrived = responses)
  BY <1>2, WebsocketAssumption DEF OutcomeInv, LastStatus, Unknown, Call!Unknown
<1>4. Done => Done' /\ outcome' = outcome /\ responses' = responses
  BY DoneStays DEF CallInv
<1>5. \A i \in 1..MaxCallbacks["message"] : heard["message"][i] = [n \in 1..Arrived |-> n]
  BY <1>2 DEF Call!Heard, Call!FirstMessages, Arrived
<1> QED BY <1>2, <1>3, <1>4, <1>5 DEF Proper

LEMMA NextEnds ==
  ASSUME ~Reentrant, CallInv, Call!CompleteInv, TrailersInv, OutcomeInv, EndsInv, [Next]_vars
  PROVE  EndsInv'
<1>1. [Call!Next]_(Call!vars) /\ Call!CallInv /\ Call!FailsWithError
  BY NextImplements DEF Call!CompleteInv
<1>2. ASSUME NEW p \in 1..Len(stack') PROVE ~(Call!FailFrameAt(p)')
  <2>1. Call!FailFrameAt(p)' => p \in 1..Len(stack) /\ Call!FailFrameAt(p)
    BY <1>1, TransportConstants, ClientAssumption, WebsocketAssumption, Call!FramesKept
       DEF Status, Call!Status, Kinds, Call!Kinds
  <2> QED BY <2>1 DEF EndsInv
<1>3. ASSUME NEW c, Call!Reports(c)' PROVE Proper(c)'
  <2>1. Call!Reports(c) \/ Call!EndsWith(c) \/ Call!FailsWith(c)
    BY <1>1, <1>3, TransportConstants, ClientAssumption, WebsocketAssumption, Call!ReportIsNewOrOld
       DEF Status, Call!Status, Kinds, Call!Kinds
  <2>2. CASE Call!Reports(c)
    <3>1. heard'["message"] = heard["message"]
      BY <1>1, <2>2, TransportConstants, ClientAssumption, WebsocketAssumption,
         Call!ReportedIsCompleted, Call!MessagesFinal
         DEF Status, Call!Status, Kinds, Call!Kinds
    <3>2. Done => Done' /\ outcome' = outcome /\ responses' = responses
      BY DoneStays DEF CallInv
    <3> QED BY <2>2, <3>1, <3>2 DEF EndsInv, Proper
  <2>3. CASE Call!EndsWith(c)
    BY <2>3, EndIsProper
  <2>4. ~Call!FailsWith(c)
    BY DEF Call!FailsWith, Call!TransportGarbage, EndsInv
  <2> QED BY <2>1, <2>2, <2>3, <2>4
<1> QED BY <1>2, <1>3 DEF EndsInv

LEMMA InitEnds == Init => OutcomeInv /\ TrailersInv /\ EndsInv
<1> SUFFICES ASSUME Init PROVE OutcomeInv /\ TrailersInv /\ EndsInv
  OBVIOUS
<1>1. /\ stack = <<>> /\ responseHeaders = Undefined /\ responseTrailers = Undefined /\ delivered = 0
      /\ heard = [k \in Kinds |-> [i \in 1..MaxCallbacks[k] |-> <<>>]]
  BY DEF Init, ClientInit, LinkInit
<1>2. Len(stack) = 0
  BY <1>1
<1>3. OutcomeInv
  BY InitHanded DEF OutcomeInv
<1>4. TrailersInv
  BY <1>1, <1>2 DEF TrailersInv, Left, Call!LeftOf
<1>5. \A c : ~Call!Reports(c)
  <2>1. ASSUME NEW i \in 1..MaxCallbacks["end"] PROVE heard["end"][i] = <<>>
    BY <1>1, <2>1 DEF Kinds
  <2>2. \A c : <<c>> # <<>>
    OBVIOUS
  <2>3. \A p : p \notin 1..Len(stack)
    BY <1>2
  <2> QED BY <2>1, <2>2, <2>3, Zenon DEF Call!Reports, Call!Callbacks
<1> QED BY <1>2, <1>3, <1>4, <1>5 DEF EndsInv

\* What the end callbacks of the client are told is what the method's handler has
\* returned, after every message it has written, or else Unknown: with the
\* trailers in a WebSocket message behind all others, nothing that a broken
\* connection or a cancelled context leaves out can make an OK of an error.  The
\* transport makes its upcalls one after the other.
THEOREM CodeIsTheHandlersHolds == ASSUME ~Reentrant PROVE Spec => []CodeIsTheHandlers
<1>1. Init => OutcomeInv /\ TrailersInv /\ EndsInv
  BY InitEnds
<1>2. CallInv /\ OutcomeInv /\ [Next]_vars => OutcomeInv'
  BY NextOutcome
<1>3. CallInv /\ Call!CompleteInv /\ TrailersInv /\ [Next]_vars => TrailersInv'
  BY NextTrailers DEF Call!CompleteInv
<1>4. CallInv /\ Call!CompleteInv /\ TrailersInv /\ OutcomeInv /\ EndsInv /\ [Next]_vars => EndsInv'
  BY NextEnds
<1>5. ASSUME Call!CompleteInv, EndsInv PROVE CodeIsTheHandlers
  <2> SUFFICES ASSUME NEW i \in 1..MaxCallbacks["end"], heard["end"][i] # <<>>
               PROVE  \/ heard["end"][i] = <<Unknown>>
                      \/ /\ heard["end"][i] = <<outcome>>
                         /\ \A j \in 1..MaxCallbacks["message"] :
                              heard["message"][j] = [n \in 1..responses |-> n]
    BY DEF CodeIsTheHandlers, EndCodes
  <2>1. Call!ClientTypeOK /\ Call!AtMostOneEnd
    BY <1>5 DEF Call!CompleteInv, Call!CallInv, Call!TypeOK, Call!EndInv
  <2>2. heard["end"][i] \in Seq(Call!Status) /\ Len(heard["end"][i]) <= 1
    BY <2>1 DEF Call!ClientTypeOK, Call!AtMostOneEnd, Call!Callbacks, Call!Kinds
  <2>3. PICK s \in Seq(Call!Status) : s = heard["end"][i]
    BY <2>2
  <2>4. s # <<>> /\ Len(s) <= 1
    BY <2>2, <2>3
  <2>5. PICK c : heard["end"][i] = <<c>>
    BY <2>3, <2>4, Single
  <2>6. Call!Reports(c)
    BY <2>5 DEF Call!Reports, Call!Callbacks
  <2> QED BY <1>5, <2>5, <2>6 DEF EndsInv, Proper
<1> QED BY <1>1, <1>2, <1>3, <1>4, <1>5, CallInvHolds, ClientInvHolds, PTL DEF Spec

-----------------------------------------------------------------------------
(* Types *)

Upward == -2..MaxRequests

Ranges ==
  /\ ws \in {"none", "connecting", "open", "closing", "closed"}
  /\ server \in {"handshake", "aborted", "serving", "closing", "returned"}
  /\ reader \in {"more", "eof", "error"}
  /\ sent \in 0..MaxRequests /\ remaining \in 0..MaxRequests
  /\ sendQueue \in Seq(0..MaxRequests) /\ up \in Seq(Upward)
  /\ requests \in Seq(1..MaxRequests)

LEMMA InitRanges == Init => Ranges
  BY WebsocketAssumption, EmptySeq DEF Init, WebsocketInit, LinkInit, WrapperInit, Ranges

LEMMA TransmitRanges ==
  ASSUME Ranges, NEW x \in 0..MaxRequests, Transmit(x)
  PROVE  sendQueue' \in Seq(0..MaxRequests) /\ up' \in Seq(Upward)
<1>1. x \in Upward
  BY WebsocketAssumption DEF Upward
<1>2. Append(sendQueue, x) \in Seq(0..MaxRequests) /\ Append(up, x) \in Seq(Upward)
  BY <1>1, AppendProperties DEF Ranges
<1> QED BY <1>2 DEF Transmit, Ranges

LEMMA ClientRanges ==
  ASSUME Ranges, Application \/ SocketEvent, UNCHANGED serverVars
  PROVE  Ranges'
<1>1. MaxRequests \in Nat /\ UNCHANGED <<server, reader, remaining, requests>>
  BY WebsocketAssumption DEF serverVars
<1>2. CASE AttachCallback \/ Connect \/ OnMessage \/ OnClose
  BY <1>1, <1>2 DEF AttachCallback, Connect, OnMessage, OnClose, transportVars, linkVars, Ranges
<1>3. CASE SendMessage
  <2>1. sent' = sent + 1 /\ sent + 1 \in 0..MaxRequests /\ ws' = ws /\ Transmit(sent + 1)
    BY <1>1, <1>3 DEF SendMessage, Ranges
  <2>2. sendQueue' \in Seq(0..MaxRequests) /\ up' \in Seq(Upward)
    <3>1. PICK x \in 0..MaxRequests : x = sent + 1
      BY <2>1
    <3> QED BY <2>1, TransmitRanges
  <2> QED BY <1>1, <2>1, <2>2 DEF Ranges
<1>4. CASE SendFinish
  <2>1. sent' = sent /\ ws' = ws /\ Transmit(FinishSendFrame) /\ FinishSendFrame \in 0..MaxRequests
    BY <1>1, <1>4 DEF SendFinish, FinishSendFrame
  <2>2. sendQueue' \in Seq(0..MaxRequests) /\ up' \in Seq(Upward)
    BY <2>1, TransmitRanges
  <2> QED BY <1>1, <2>1, <2>2 DEF Ranges
<1>5. CASE Cancel
  <2>1. /\ UNCHANGED <<sent, sendQueue>> /\ ws' \in {ws, "closing"}
        /\ up' = up \/ up' = Append(up, CloseFrame)
    BY <1>5 DEF Cancel
  <2>2. CloseFrame \in Upward
    BY <1>1 DEF CloseFrame, Upward
  <2>3. Append(up, CloseFrame) \in Seq(Upward)
    BY <2>2, AppendProperties DEF Ranges
  <2>4. up' \in Seq(Upward)
    BY <2>1, <2>3 DEF Ranges
  <2> QED BY <1>1, <2>1, <2>4 DEF Ranges
<1>6. CASE OnOpen
  <2>1. /\ UNCHANGED <<sent, sendQueue>> /\ ws' = "open"
        /\ up' = up \/ up' = <<HeadersFrame>> \o sendQueue
    BY <1>6 DEF OnOpen
  <2>2. <<HeadersFrame>> \in Seq(Upward)
    <3>1. HeadersFrame \in Upward
      BY <1>1 DEF HeadersFrame, Upward
    <3> QED BY <3>1
  <2>3. sendQueue \in Seq(Upward)
    <3>1. \A i \in 1..Len(sendQueue) : sendQueue[i] \in Upward
      <4>1. \A i \in 1..Len(sendQueue) : sendQueue[i] \in 0..MaxRequests
        BY ElementOfSeq DEF Ranges
      <4> QED BY <1>1, <4>1 DEF Upward
    <3>2. sendQueue = [i \in 1..Len(sendQueue) |-> sendQueue[i]] /\ Len(sendQueue) \in Nat
      BY LenProperties DEF Ranges
    <3> QED BY <3>1, <3>2
  <2>4. up' \in Seq(Upward)
    BY <2>1, <2>2, <2>3, ConcatProperties DEF Ranges
  <2> QED BY <1>1, <2>1, <2>4 DEF Ranges
<1> QED BY <1>2, <1>3, <1>4, <1>5, <1>6 DEF Application, SocketEvent

LEMMA ServerRanges ==
  ASSUME Inv, Ranges, Server
  PROVE  Ranges'
<1>1. MaxRequests \in Nat /\ UNCHANGED <<ws, sent, sendQueue, up>>
  BY WebsocketAssumption DEF Server, transportVars, ServerStep, ReadFirst, Read, ReadRest, ReadData,
     ReadBroken, ReadFinish, ReadClosed, Drain, Transmission, Return, HandlerWrites, HandlerReturns,
     linkVars
<1>2. /\ server' \in {server, "serving", "aborted", "closing", "returned"}
      /\ reader' \in {reader, "eof", "error"}
  BY DEF Server, ServerStep, ReadFirst, Read, ReadRest, ReadData,
     ReadBroken, ReadFinish, ReadClosed, Drain, Transmission, Return, HandlerWrites, HandlerReturns
<1>3. \/ UNCHANGED <<remaining, requests>>
      \/ ReadRest
      \/ ReadData
  BY DEF Server, ServerStep, ReadFirst, Read, ReadBroken, ReadFinish, ReadClosed, Drain,
     Transmission, Return, HandlerWrites, HandlerReturns
<1>4. remaining' \in 0..MaxRequests /\ requests' \in Seq(1..MaxRequests)
  <2>1. CASE UNCHANGED <<remaining, requests>>
    BY <2>1 DEF Ranges
  <2>2. ASSUME NEW x \in 1..MaxRequests PROVE Append(requests, x) \in Seq(1..MaxRequests)
    BY <2>2, AppendProperties DEF Ranges
  <2>3. CASE ReadRest
    <3>1. PICK x \in 1..MaxRequests : x = remaining
      BY <1>1, <2>3 DEF ReadRest, Ranges
    <3>2. remaining' = 0 /\ requests' = Append(requests, x)
      BY <2>3, <3>1 DEF ReadRest
    <3> QED BY <1>1, <2>2, <3>2
  <2>4. CASE ReadData
    <3>1. /\ NextUp > 0
          /\ \/ requests' = Append(requests, NextUp) /\ remaining' = remaining
             \/ remaining' = NextUp /\ requests' = requests
      BY <2>4 DEF ReadData
    <3>2. taken + 1 \in 1..Len(up)
      BY <2>4, LenProperties DEF ReadData, UpWaits, Inv, StreamTypes
    <3>3. NextUp \in Upward
      BY <3>2, ElementOfSeq DEF NextUp, Ranges
    <3>4. PICK x \in 1..MaxRequests : x = NextUp
      BY <1>1, <3>1, <3>3 DEF Upward
    <3>5. Append(requests, NextUp) \in Seq(1..MaxRequests)
      BY <2>2, <3>4
    <3>6. NextUp \in 0..MaxRequests
      BY <1>1, <3>4
    <3>7. remaining \in 0..MaxRequests /\ requests \in Seq(1..MaxRequests)
      BY DEF Ranges
    <3> QED BY <3>1, <3>5, <3>6, <3>7
  <2> QED BY <1>3, <2>1, <2>3, <2>4
<1> QED BY <1>1, <1>2, <1>4 DEF Ranges

LEMMA NextRanges == Inv /\ Ranges /\ [Next]_vars => Ranges'
<1> SUFFICES ASSUME Inv, Ranges, [Next]_vars PROVE Ranges'
  OBVIOUS
<1>1. CASE (Application \/ SocketEvent) /\ UNCHANGED serverVars
  BY <1>1, ClientRanges
<1>2. CASE Server
  BY <1>2, ServerRanges
<1>3. CASE UNCHANGED <<transportVars, serverVars, up>>
  BY <1>3 DEF transportVars, serverVars, Ranges
<1>4. CASE Handler /\ UNCHANGED <<transportVars, linkVars, serverVars>>
  BY <1>3, <1>4 DEF linkVars
<1>5. CASE Break \/ UNCHANGED vars
  BY <1>3, <1>5 DEF Break, vars, linkVars
<1> QED BY <1>1, <1>2, <1>4, <1>5 DEF Next, Client

\* The variables of both ends keep their types.
THEOREM WebsocketTypeCorrect == Spec => []TypeOK
<1>1. Spec => []Ranges
  <2>1. Init => Inv /\ Ranges
    BY InitInv, InitRanges
  <2>2. Inv /\ Ranges /\ [Next]_vars => Inv' /\ Ranges'
    BY NextInv, NextRanges
  <2> QED BY <2>1, <2>2, PTL DEF Spec
<1>2. Spec => []Call!TypeOK
  <2>1. Call!Spec => []Call!TypeOK
    BY TransportConstants, ClientAssumption, Call!TypeCorrect DEF Status, Call!Status, Kinds, Call!Kinds
  <2> QED BY <2>1, WebsocketImplements, PTL
<1>3. Call!TypeOK => ClientTypeOK
  BY Zenon DEF Call!TypeOK, ClientTypeOK, Call!ClientTypeOK, Kinds, Call!Kinds, Status, Call!Status,
     Frame, Call!Frame, LoopFrame, Call!LoopFrame, ChunkFrame, Call!ChunkFrame,
     FailFrame, Call!FailFrame, Item, Call!Item
<1>4. ASSUME ClientTypeOK, Ranges, CallInv PROVE TypeOK
  <2>1. Len(up) \in Nat /\ Len(down) \in Nat
    BY LenProperties DEF CallInv, Inv, StreamTypes, DownInv, DownTypes
  <2>2. taken \in 0..Len(up) /\ delivered \in 0..Len(down)
    BY <2>1, <1>4 DEF CallInv, Inv, StreamTypes, ReaderInv, DownInv, DownTypes
  <2>3. responses \in 0..MaxResponses /\ outcome \in HandlerCodes \cup {None}
    BY <1>4 DEF CallInv, DownInv, DownTypes
  <2> QED BY <1>4, <2>2, <2>3 DEF TypeOK, Ranges, Upward
<1> QED BY <1>1, <1>2, <1>3, <1>4, CallInvHolds, PTL

=============================================================================
