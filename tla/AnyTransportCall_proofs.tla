----------------------- MODULE AnyTransportCall_proofs -----------------------
(***************************************************************************)
(* Proofs about AnyTransportCall, for every number of callbacks, messages  *)
(* and chunks.  First, for re-entrant transports too: types and one end.   *)
(* Then for transports that make their upcalls one after the other         *)
(* (~Reentrant), which is all of them but the fake transport: no message   *)
(* or headers after the end, messages in order, and the refinement of      *)
(* CallLifecycle.  Messages may fail to deserialize throughout.            *)
(***************************************************************************)
EXTENDS AnyTransportCall, SequenceTheorems, TLAPS

USE DEF Status

-----------------------------------------------------------------------------
(* The stack *)

LEMMA FrontLast ==
  ASSUME NEW S, NEW s \in Seq(S), s # <<>>
  PROVE  /\ Front(s) \in Seq(S)
         /\ Len(Front(s)) = Len(s) - 1
         /\ \A p \in 1..(Len(s) - 1) : Front(s)[p] = s[p]
         /\ Len(s) \in Nat \ {0}
         /\ Last(s) = s[Len(s)]
         /\ Last(s) \in S
<1>1. Len(s) \in Nat \ {0} /\ \A i \in 1..Len(s) : s[i] \in S
  BY EmptySeq, LenProperties, ElementOfSeq
<1>2. /\ Front(s) \in Seq(S)
      /\ Len(Front(s)) = Len(s) - 1
      /\ \A p \in 1..(Len(s) - 1) : Front(s)[p] = s[p]
  <2> DEFINE n == Len(s) - 1
  <2>1. n \in Nat /\ \A i \in 1..n : s[i] \in S
    BY <1>1
  <2> HIDE DEF n
  <2>2. /\ SubSeq(s, 1, n) \in Seq(S)
        /\ Len(SubSeq(s, 1, n)) = IF 1 <= n THEN n - 1 + 1 ELSE 0
        /\ \A p \in 1..(n - 1 + 1) : SubSeq(s, 1, n)[p] = s[1 + p - 1]
    BY <2>1, SubSeqProperties, SMTT(30)
  <2>3. /\ SubSeq(s, 1, n) \in Seq(S)
        /\ Len(SubSeq(s, 1, n)) = n
        /\ \A p \in 1..n : SubSeq(s, 1, n)[p] = s[p]
    BY <2>1, <2>2
  <2> QED BY <2>3 DEF n, Front
<1> QED BY <1>1, <1>2 DEF Last

LEMMA LastFrame ==
  ASSUME ClientTypeOK, stack # <<>>
  PROVE  /\ Top \in Frame
         /\ Top.do \in Kinds => Top \in LoopFrame /\ Top.last <= MaxCallbacks[Top.do]
         /\ Top.do = "chunk" => Top \in ChunkFrame
         /\ Top.do = "fail" => Top \in FailFrame
<1>1. Top \in Frame /\ Top = stack[Len(stack)] /\ Len(stack) \in Nat \ {0}
  BY FrontLast DEF ClientTypeOK, Top
<1>2. Top.do \in Kinds => Top \in LoopFrame
  BY <1>1 DEF Frame, LoopFrame, ChunkFrame, FailFrame, Kinds
<1>3. Top.do = "chunk" => Top \in ChunkFrame
  BY <1>1 DEF Frame, LoopFrame, ChunkFrame, FailFrame, Kinds
<1>4. Top.do = "fail" => Top \in FailFrame
  BY <1>1 DEF Frame, LoopFrame, ChunkFrame, FailFrame, Kinds
<1>5. Top.do \in Kinds => Top.last <= MaxCallbacks[Top.do]
  BY <1>1 DEF ClientTypeOK
<1> QED BY <1>1, <1>2, <1>3, <1>4, <1>5

\* StackOK is what ClientTypeOK says of the stack.
StackOK(s) ==
  /\ s \in Seq(Frame)
  /\ \A p \in 1..Len(s) : s[p].do \in Kinds => s[p].last <= MaxCallbacks[s[p].do]

FrameOK(f) == f \in Frame /\ (f.do \in Kinds => f.last <= MaxCallbacks[f.do])

LEMMA PushOK ==
  ASSUME NEW s, StackOK(s), NEW f, FrameOK(f)
  PROVE  StackOK(Append(s, f))
  BY DEF StackOK, FrameOK

LEMMA PopOK ==
  ASSUME StackOK(stack), stack # <<>>
  PROVE  StackOK(Front(stack))
<1>1. /\ Front(stack) \in Seq(Frame)
      /\ Len(Front(stack)) = Len(stack) - 1
      /\ \A p \in 1..(Len(stack) - 1) : Front(stack)[p] = stack[p]
      /\ Len(stack) \in Nat \ {0}
  BY FrontLast DEF StackOK
<1> QED BY <1>1 DEF StackOK

LEMMA LoopOK ==
  ASSUME ClientTypeOK, NEW k \in Kinds, NEW v \in Status
  PROVE  FrameOK(Loop(k, v))
<1>1. callbacks[k] \in Nat /\ callbacks[k] <= MaxCallbacks[k]
  BY ClientAssumption DEF ClientTypeOK
<1> QED BY <1>1 DEF FrameOK, Loop, Frame, LoopFrame

LEMMA NextOK ==
  ASSUME NEW f \in LoopFrame, FrameOK(f)
  PROVE  FrameOK([f EXCEPT !.next = f.next + 1, !.busy = TRUE])
<1> DEFINE g == [f EXCEPT !.next = f.next + 1, !.busy = TRUE]
<1>1. f.next + 1 \in Nat \ {0}
  BY DEF LoopFrame
<1>2. g \in LoopFrame
  BY <1>1 DEF LoopFrame
<1>3. g.do = f.do /\ g.last = f.last
  BY DEF LoopFrame
<1> QED BY <1>2, <1>3 DEF FrameOK, Frame

LEMMA TypeIsStack == ASSUME ClientTypeOK PROVE StackOK(stack)
  BY DEF ClientTypeOK, StackOK

LEMMA CompleteOK ==
  ASSUME ClientTypeOK, NEW rest, StackOK(rest), NEW c \in Status, Complete(c, rest)
  PROVE  StackOK(stack') /\ completed' \in BOOLEAN
<1>1. "end" \in Kinds
  BY DEF Kinds
<1>2. StackOK(Append(rest, Loop("end", c)))
  BY <1>1, LoopOK, PushOK
<1> QED BY <1>2 DEF Complete

-----------------------------------------------------------------------------
(* Type correctness *)

LEMMA InitType == Init => TypeOK
<1> SUFFICES ASSUME Init PROVE TypeOK
  OBVIOUS
<1> USE DEF Init, ClientInit
<1>1. \A k \in Kinds : MaxCallbacks[k] \in Nat
  BY ClientAssumption
<1>2. stack = <<>> /\ <<>> \in Seq(Frame) /\ Len(<<>>) = 0
  BY EmptySeq
<1>3. \A k \in Kinds : /\ callbacks[k] \in 0..MaxCallbacks[k]
                       /\ heard[k] \in [1..MaxCallbacks[k] -> Seq(Status)]
  BY <1>1
<1>4. /\ started \in BOOLEAN /\ sentFirstMessage \in BOOLEAN /\ finishedSending \in BOOLEAN
      /\ closed \in BOOLEAN /\ completed \in BOOLEAN
      /\ DOMAIN callbacks = Kinds /\ DOMAIN heard = Kinds
  OBVIOUS
<1>5. responseHeaders = Undefined /\ responseTrailers = Undefined
  OBVIOUS
<1>6. StackOK(stack)
  BY <1>2 DEF StackOK
<1> HIDE DEF Init, ClientInit
<1>7. ClientTypeOK
  BY <1>3, <1>4, <1>5, <1>6 DEF ClientTypeOK, StackOK
<1>8. DOMAIN early = Kinds /\ \A k \in Kinds : early[k] \in 0..MaxCallbacks[k]
  BY <1>1 DEF Init, ClientInit
<1>9. headersSeen \in 0..MaxHeaders /\ chunksSeen \in 0..MaxChunks /\ arrived \in 0..MaxMessages
  BY TransportAssumption DEF Init
<1>10. transportEnded \in BOOLEAN /\ lastStatus \in Status \cup {Undefined}
  BY DEF Init
<1> QED BY <1>7, <1>8, <1>9, <1>10 DEF TypeOK

\* What an action leaves alone keeps its type.
LEMMA SameType ==
  ASSUME ClientTypeOK, UNCHANGED clientVars
  PROVE  ClientTypeOK'
  BY DEF ClientTypeOK, clientVars, flags, response

LEMMA RegisterType ==
  ASSUME ClientTypeOK, NEW k \in Kinds, Register(k)
  PROVE  ClientTypeOK'
<1>1. \A j \in Kinds : callbacks'[j] \in 0..MaxCallbacks[j]
  <2>1. /\ DOMAIN callbacks = Kinds /\ \A j \in Kinds : callbacks[j] \in 0..MaxCallbacks[j]
        /\ callbacks' = [callbacks EXCEPT ![k] = callbacks[k] + 1]
        /\ callbacks[k] < MaxCallbacks[k]
    BY DEF ClientTypeOK, Register
  <2>2. \A j \in Kinds : MaxCallbacks[j] \in Nat
    BY ClientAssumption
  <2> QED BY <2>1, <2>2
<1>2. DOMAIN callbacks' = Kinds
  BY DEF ClientTypeOK, Register
<1> QED BY <1>1, <1>2 DEF ClientTypeOK, Register, flags, response

LEMMA FlagType ==
  ASSUME ClientTypeOK, Start \/ Send \/ FinishSend \/ Close
  PROVE  ClientTypeOK'
  BY DEF ClientTypeOK, Start, Send, FinishSend, Close, response

LEMMA HeadersType ==
  ASSUME ClientTypeOK, NEW h \in Status, NEW s \in Nat, OnTransportHeaders(h, s)
  PROVE  ClientTypeOK'
<1>1. CASE UNCHANGED clientVars
  BY <1>1, SameType
<1>2. CASE ~(closed \/ s = 0)
  <2> DEFINE code == HeaderCode(h, s)
             rest == IF code = OK THEN stack
                     ELSE Append(stack, [do |-> "fail", code |-> code])
  <2>1. code \in Int
    BY DEF HeaderCode, HttpStatusToCode
  <2>2. FrameOK([do |-> "fail", code |-> code])
    BY <2>1 DEF FrameOK, Frame, FailFrame, Kinds
  <2>3. StackOK(rest)
    BY <2>2, TypeIsStack, PushOK
  <2>4. "headers" \in Kinds
    BY DEF Kinds
  <2>5. StackOK(Append(rest, Loop("headers", h)))
    BY <2>3, <2>4, LoopOK, PushOK
  <2> HIDE DEF code, rest
  <2>6. /\ responseHeaders' = h
        /\ stack' \in {rest, Append(rest, Loop("headers", h))}
        /\ UNCHANGED <<flags, completed, responseTrailers, callbacks, heard>>
    BY <1>2 DEF OnTransportHeaders, RawOnHeaders, code, rest
  <2>7. StackOK(stack')
    BY <2>3, <2>5, <2>6
  <2> QED BY <2>6, <2>7 DEF ClientTypeOK, StackOK, flags
<1> QED BY <1>1, <1>2 DEF OnTransportHeaders

LEMMA ChunkType ==
  ASSUME ClientTypeOK, NEW data \in Seq(Item), OnTransportChunk(data)
  PROVE  ClientTypeOK'
<1>1. CASE UNCHANGED clientVars
  BY <1>1, SameType
<1>2. CASE ~closed
  <2>1. FrameOK([do |-> "chunk", data |-> data])
    BY DEF FrameOK, Frame, ChunkFrame, Kinds
  <2>2. StackOK(stack')
    BY <1>2, <2>1, TypeIsStack, PushOK DEF OnTransportChunk
  <2> QED BY <1>2, <2>2 DEF OnTransportChunk, ClientTypeOK, StackOK, flags, response
<1> QED BY <1>1, <1>2 DEF OnTransportChunk

LEMMA GarbageType ==
  ASSUME ClientTypeOK, OnUnparsableChunk
  PROVE  ClientTypeOK'
<1>1. CASE UNCHANGED clientVars
  BY <1>1, SameType
<1>2. CASE ~closed
  <2>1. StackOK(stack') /\ completed' \in BOOLEAN
    BY <1>2, TypeIsStack, CompleteOK DEF OnUnparsableChunk, Internal
  <2> QED BY <1>2, <2>1 DEF OnUnparsableChunk, ClientTypeOK, StackOK, flags, response
<1> QED BY <1>1, <1>2 DEF OnUnparsableChunk

LEMMA EndType ==
  ASSUME ClientTypeOK, OnTransportEnd
  PROVE  ClientTypeOK'
<1>1. CASE UNCHANGED clientVars
  BY <1>1, SameType
<1>2. CASE ~closed
  <2>1. EndCode \in Status
    BY DEF ClientTypeOK, EndCode, Internal, Unknown
  <2>2. StackOK(stack') /\ completed' \in BOOLEAN
    BY <1>2, <2>1, TypeIsStack, CompleteOK DEF OnTransportEnd
  <2> QED BY <1>2, <2>2 DEF OnTransportEnd, ClientTypeOK, StackOK, flags, response
<1> QED BY <1>1, <1>2 DEF OnTransportEnd

LEMMA ProcessItemType ==
  ASSUME ClientTypeOK, ProcessItem
  PROVE  ClientTypeOK'
<1>1. /\ stack # <<>> /\ Top \in ChunkFrame
      /\ UNCHANGED <<flags, completed, callbacks, heard>>
  BY LastFrame DEF ProcessItem, ClientRuns
<1>2. StackOK(Front(stack))
  BY <1>1, TypeIsStack, PopOK
<1>3. CASE Top.data = <<>>
  <2>1. stack' = Front(stack) /\ UNCHANGED response
    BY <1>3 DEF ProcessItem, Pop
  <2> QED BY <1>1, <1>2, <2>1 DEF ClientTypeOK, StackOK, flags, response
<1>4. CASE Top.data # <<>>
  <2> DEFINE d == Head(Top.data)
             top == [Top EXCEPT !.data = Tail(@)]
             rest == Append(Front(stack), top)
  <2>1. Top.data \in Seq(Item)
    BY <1>1 DEF ChunkFrame
  <2>2. d \in Item /\ Tail(Top.data) \in Seq(Item)
    BY <1>4, <2>1
  <2>3. FrameOK(top)
    BY <1>1, <2>2 DEF FrameOK, Frame, ChunkFrame, Kinds
  <2>4. StackOK(rest)
    BY <1>2, <2>3, PushOK
  <2>5. d.val \in Status
    BY <2>2 DEF Item
  <2>6. /\ StackOK(Append(rest, Loop("headers", d.val)))
        /\ StackOK(Append(rest, Loop("message", d.val)))
    <3>1. "headers" \in Kinds /\ "message" \in Kinds
      BY DEF Kinds
    <3> HIDE DEF rest, d
    <3> QED BY <2>4, <2>5, <3>1, LoopOK, PushOK
  <2> HIDE DEF d, rest, top
  <2>7. /\ stack' \in {Front(stack), rest, Append(rest, Loop("headers", d.val)),
                       Append(rest, Loop("message", d.val))}
        /\ responseHeaders' \in {responseHeaders, d.val}
        /\ responseTrailers' \in {responseTrailers, d.val}
    BY <1>4 DEF ProcessItem, Pop, RawOnMessage, RawOnHeaders, response, d, rest, top
  <2>8. StackOK(stack')
    BY <1>2, <2>4, <2>6, <2>7
  <2> QED BY <1>1, <2>5, <2>7, <2>8 DEF ClientTypeOK, StackOK, flags
<1> QED BY <1>3, <1>4

LEMMA InvokeType ==
  ASSUME ClientTypeOK, InvokeCallback
  PROVE  ClientTypeOK'
<1>1. /\ stack # <<>> /\ Top.do \in Kinds /\ Top \in LoopFrame
      /\ Top.last <= MaxCallbacks[Top.do] /\ Top.next <= Top.last
  BY LastFrame DEF InvokeCallback, ClientRuns
<1> DEFINE top == [Top EXCEPT !.next = @ + 1, !.busy = TRUE]
<1>2. FrameOK(top)
  BY <1>1, NextOK DEF FrameOK, Frame
<1>3. StackOK(stack')
  BY <1>1, <1>2, TypeIsStack, PopOK, PushOK DEF InvokeCallback
<1>4. /\ Top.next \in 1..MaxCallbacks[Top.do]
      /\ Top.val \in Status
  BY <1>1, ClientAssumption DEF LoopFrame
<1>5. \A k \in Kinds : heard'[k] \in [1..MaxCallbacks[k] -> Seq(Status)]
  <2> TAKE k \in Kinds
  <2>1. heard[k] \in [1..MaxCallbacks[k] -> Seq(Status)] /\ DOMAIN heard = Kinds
    BY DEF ClientTypeOK
  <2>2. heard'[k] = IF k = Top.do
                      THEN [heard[k] EXCEPT ![Top.next] = Append(heard[k][Top.next], Top.val)]
                      ELSE heard[k]
    BY <1>1, <2>1 DEF InvokeCallback
  <2>3. k = Top.do => Append(heard[k][Top.next], Top.val) \in Seq(Status)
    BY <1>4, <2>1, AppendProperties
  <2> QED BY <1>4, <2>1, <2>2, <2>3
<1>6. DOMAIN heard' = Kinds
  BY DEF InvokeCallback, ClientTypeOK
<1> QED BY <1>3, <1>5, <1>6 DEF InvokeCallback, ClientTypeOK, StackOK, flags, response

LEMMA ReturnsType ==
  ASSUME ClientTypeOK, CallbackReturns
  PROVE  ClientTypeOK'
<1>1. /\ stack # <<>> /\ Top \in LoopFrame
      /\ Top.do \in Kinds /\ Top.last <= MaxCallbacks[Top.do]
  BY LastFrame DEF CallbackReturns, Busy
<1>2. FrameOK([Top EXCEPT !.busy = FALSE])
  BY <1>1 DEF FrameOK, Frame, LoopFrame
<1>3. StackOK(stack')
  BY <1>1, <1>2, TypeIsStack, PopOK, PushOK DEF CallbackReturns
<1> QED BY <1>3 DEF CallbackReturns, ClientTypeOK, StackOK, flags, response

LEMMA LoopEndsType ==
  ASSUME ClientTypeOK, LoopEnds
  PROVE  ClientTypeOK'
<1>1. StackOK(stack')
  BY TypeIsStack, PopOK DEF LoopEnds, ClientRuns, Pop
<1> QED BY <1>1 DEF LoopEnds, ClientTypeOK, StackOK, flags, response

LEMMA FailType ==
  ASSUME ClientTypeOK, FailAfterHeaders
  PROVE  ClientTypeOK'
<1>1. stack # <<>> /\ Top.code \in Status
  BY LastFrame DEF FailAfterHeaders, ClientRuns, FailFrame
<1>2. StackOK(stack') /\ completed' \in BOOLEAN
  BY <1>1, TypeIsStack, PopOK, CompleteOK DEF FailAfterHeaders
<1> QED BY <1>2 DEF FailAfterHeaders, ClientTypeOK, StackOK, flags, response

LEMMA HandlerType == ASSUME ClientTypeOK, HandlerStep PROVE ClientTypeOK'
  BY ProcessItemType, InvokeType, LoopEndsType, FailType DEF HandlerStep

\* A chunk of the environment is a sequence of items.
LEMMA ChunkIsItems ==
  ASSUME arrived \in Nat, NEW run \in MessageRuns, NEW trailers \in Trailers
  PROVE  /\ [i \in DOMAIN run |-> [type |-> run[i], val |-> arrived + i]] \o trailers \in Seq(Item)
         /\ Len(run) \in Nat /\ arrived + Len(run) <= MaxMessages
         /\ trailers = <<>> \/ trailers[1].val \in Status
<1>1. PICK n \in 0 .. MaxMessages - arrived : run \in [1..n -> {"message", "bad"}]
  BY TransportAssumption DEF MessageRuns
<1>2. /\ n \in Nat /\ arrived + n <= MaxMessages
      /\ DOMAIN run = 1..n /\ run \in Seq({"message", "bad"}) /\ Len(run) = n
  BY <1>1, TransportAssumption
<1>3. [i \in 1..n |-> [type |-> run[i], val |-> arrived + i]] \in Seq(Item)
  <2>1. \A i \in 1..n : [type |-> run[i], val |-> arrived + i] \in Item
    BY <1>1 DEF Item
  <2> QED BY <1>1, <2>1
<1>4. trailers \in Seq(Item) /\ (trailers = <<>> \/ trailers[1].val \in Status)
  <2>1. CASE trailers = <<>>
    BY <2>1
  <2>2. CASE trailers # <<>>
    <3>1. PICK g \in TrailerStatuses : trailers = <<[type |-> "trailers", val |-> g]>>
      BY <2>2 DEF Trailers
    <3>2. g \in Status /\ [type |-> "trailers", val |-> g] \in Item
      BY TransportAssumption DEF Item
    <3> QED BY <3>1, <3>2
  <2> QED BY <2>1, <2>2
<1> QED BY <1>1, <1>2, <1>3, <1>4, ConcatProperties

LEMMA EarlyType ==
  ASSUME TypeOK, ClientTypeOK',
         early' = IF started THEN early ELSE callbacks'
  PROVE  DOMAIN early' = Kinds /\ \A k \in Kinds : early'[k] \in 0..MaxCallbacks[k]
  BY DEF TypeOK, ClientTypeOK

LEMMA NextType == TypeOK /\ [Next]_vars => TypeOK'
<1> SUFFICES ASSUME TypeOK, [Next]_vars PROVE TypeOK'
  OBVIOUS
<1> USE DEF TypeOK
<1>1. CASE Application
  <2>1. ClientTypeOK'
    BY <1>1, RegisterType, FlagType DEF Application
  <2> QED BY <1>1, <2>1, EarlyType DEF Application, transportVars
<1>2. ASSUME NEW h \in HeaderStatuses, NEW s \in HttpStatuses, TransportHeaders(h, s)
      PROVE  TypeOK'
  <2>1. h \in Status /\ s \in Nat
    BY TransportAssumption
  <2>2. ClientTypeOK'
    BY <1>2, <2>1, HeadersType DEF TransportHeaders
  <2> QED BY <1>2, <2>1, <2>2, TransportAssumption DEF TransportHeaders
<1>3. ASSUME NEW run \in MessageRuns, NEW trailers \in Trailers, TransportChunk(run, trailers)
      PROVE  TypeOK'
  <2>1. arrived \in Nat
    BY TransportAssumption
  <2>2. ClientTypeOK'
    BY <1>3, <2>1, ChunkIsItems, ChunkType DEF TransportChunk
  <2>3. arrived' \in 0..MaxMessages /\ lastStatus' \in Status \cup {Undefined}
    BY <1>3, <2>1, ChunkIsItems, TransportAssumption DEF TransportChunk
  <2> QED BY <1>3, <2>2, <2>3, TransportAssumption DEF TransportChunk
<1>4. CASE TransportGarbage
  <2>1. ClientTypeOK'
    BY <1>4, GarbageType DEF TransportGarbage
  <2> QED BY <1>4, <2>1, TransportAssumption DEF TransportGarbage
<1>5. CASE TransportEnd
  <2>1. ClientTypeOK'
    BY <1>5, EndType DEF TransportEnd
  <2> QED BY <1>5, <2>1 DEF TransportEnd
<1>6. CASE Handler
  <2>1. ClientTypeOK'
    BY <1>6, HandlerType DEF Handler
  <2> QED BY <1>6, <2>1 DEF Handler, transportVars
<1>7. CASE Return
  <2>1. ClientTypeOK'
    BY <1>7, ReturnsType DEF Return
  <2> QED BY <1>7, <2>1 DEF Return, transportVars
<1>8. CASE UNCHANGED vars
  <2>1. ClientTypeOK'
    BY <1>8, SameType DEF vars
  <2> QED BY <1>8, <2>1 DEF vars, transportVars
<1> QED BY <1>1, <1>2, <1>3, <1>4, <1>5, <1>6, <1>7, <1>8 DEF Next

\* Every reachable state is well typed: in particular a loop never runs past
\* the callbacks there are, and the code it reports is a grpc-status or a Code.
THEOREM TypeCorrect == Spec => []TypeOK
<1>1. Init => TypeOK
  BY InitType
<1>2. TypeOK /\ [Next]_vars => TypeOK'
  BY NextType
<1> QED BY <1>1, <1>2, PTL DEF Spec

-----------------------------------------------------------------------------
(* At most one end.  SameEnds(s, t): every end loop of t is in s, at the    *)
(* same place and equally far.                                             *)

SameEnds(s, t) ==
  \A p \in 1..Len(t) :
    t[p].do = "end" => /\ p \in 1..Len(s)
                       /\ s[p].do = "end"
                       /\ s[p].val = t[p].val
                       /\ s[p].next = t[p].next

EndInv == EndLoopOnce /\ AtMostOneEnd

LEMMA SameEndsPush ==
  ASSUME NEW s, NEW t, StackOK(t), SameEnds(s, t), NEW f, FrameOK(f), f.do # "end"
  PROVE  SameEnds(s, Append(t, f))
<1>1. t \in Seq(Frame) /\ f \in Frame
  BY DEF StackOK, FrameOK
<1>2. /\ Len(Append(t, f)) = Len(t) + 1 /\ Len(t) \in Nat
      /\ \A p \in 1..Len(t) : Append(t, f)[p] = t[p]
      /\ Append(t, f)[Len(t) + 1] = f
  BY <1>1, AppendProperties, LenProperties
<1> QED BY <1>2 DEF SameEnds

LEMMA SameEndsFront ==
  ASSUME StackOK(stack), stack # <<>>
  PROVE  SameEnds(stack, Front(stack))
<1>1. /\ Len(Front(stack)) = Len(stack) - 1
      /\ \A p \in 1..(Len(stack) - 1) : Front(stack)[p] = stack[p]
      /\ Len(stack) \in Nat \ {0}
  BY FrontLast DEF StackOK
<1> QED BY <1>1 DEF SameEnds

\* The frame on top is replaced by one that is as far.
LEMMA SameEndsTop ==
  ASSUME StackOK(stack), stack # <<>>, NEW f, FrameOK(f),
         f.do = "end" => Top.do = "end" /\ f.val = Top.val /\ f.next = Top.next
  PROVE  SameEnds(stack, Append(Front(stack), f))
<1>1. /\ Front(stack) \in Seq(Frame)
      /\ Len(Front(stack)) = Len(stack) - 1
      /\ \A p \in 1..(Len(stack) - 1) : Front(stack)[p] = stack[p]
      /\ Len(stack) \in Nat \ {0} /\ Top = stack[Len(stack)]
  BY FrontLast DEF StackOK, Top
<1>2. /\ Len(Append(Front(stack), f)) = Len(stack)
      /\ \A p \in 1..(Len(stack) - 1) : Append(Front(stack), f)[p] = stack[p]
      /\ Append(Front(stack), f)[Len(stack)] = f
  BY <1>1, AppendProperties DEF FrameOK
<1> QED BY <1>1, <1>2 DEF SameEnds

\* No end loop starts and no end callback is called.
LEMMA QuietStep ==
  ASSUME EndInv, SameEnds(stack, stack'), completed' = completed,
         heard'["end"] = heard["end"]
  PROVE  EndInv'
<1>1. EndFrames' \subseteq EndFrames
      /\ \A p \in EndFrames' : stack[p].val = stack'[p].val /\ stack[p].next = stack'[p].next
  BY DEF SameEnds, EndFrames
<1>2. EndLoopOnce'
  BY <1>1 DEF EndInv, EndLoopOnce
<1>3. AtMostOneEnd'
  BY DEF EndInv, AtMostOneEnd
<1> QED BY <1>2, <1>3 DEF EndInv

\* The call completes: the first time the one end loop starts.
LEMMA CompleteStep ==
  ASSUME ClientTypeOK, EndInv, NEW c \in Status,
         NEW rest, StackOK(rest), SameEnds(stack, rest),
         Complete(c, rest), UNCHANGED heard
  PROVE  EndInv'
<1>1. CASE completed
  BY <1>1, QuietStep DEF Complete
<1>2. CASE ~completed
  <2> DEFINE n == Len(rest) + 1
  <2>1. rest \in Seq(Frame) /\ Len(rest) \in Nat
    BY DEF StackOK
  <2>2. /\ Len(stack') = n
        /\ \A p \in 1..Len(rest) : stack'[p] = rest[p]
        /\ stack'[n] = Loop("end", c)
    <3>1. stack' = Append(rest, Loop("end", c))
      BY <1>2 DEF Complete
    <3>2. Loop("end", c) \in Frame
      BY LoopOK DEF Kinds, FrameOK
    <3> QED BY <2>1, <3>1, <3>2, AppendProperties
  <2>3. \A p \in 1..Len(rest) : rest[p].do # "end"
    BY <1>2 DEF SameEnds, EndInv, EndLoopOnce, EndFrames
  <2>4. EndFrames' \subseteq {n}
    BY <2>1, <2>2, <2>3 DEF EndFrames
  <2>5. \A i \in Callbacks("end") : heard'["end"][i] = <<>>
    BY <1>2 DEF EndInv, EndLoopOnce
  <2>6. completed' = TRUE
    BY DEF Complete
  <2>7. EndLoopOnce'
    BY <2>4, <2>5, <2>6 DEF EndLoopOnce
  <2>8. AtMostOneEnd'
    BY <2>5 DEF AtMostOneEnd
  <2> QED BY <2>7, <2>8 DEF EndInv
<1> QED BY <1>1, <1>2

\* The end loop calls a callback that has heard nothing; the others have heard
\* the same code or nothing.
LEMMA EndHeard ==
  ASSUME ClientTypeOK, EndInv, InvokeCallback, Top.do = "end"
  PROVE  /\ Top.next \in Callbacks("end") /\ Top.val \in Status
         /\ heard["end"][Top.next] = <<>> /\ heard'["end"][Top.next] = <<Top.val>>
         /\ \A i \in Callbacks("end") :
              /\ i # Top.next => heard'["end"][i] = heard["end"][i]
              /\ heard["end"][i] = <<>> \/ (heard["end"][i] = <<Top.val>> /\ i < Top.next)
<1> DEFINE n == Len(stack)
           k == Top.next
<1>1. /\ stack # <<>> /\ Top \in LoopFrame
      /\ Top.last <= MaxCallbacks["end"] /\ k <= Top.last
  BY LastFrame DEF InvokeCallback, ClientRuns, Kinds
<1>2. n \in Nat \ {0} /\ Top = stack[n]
  BY <1>1, FrontLast DEF ClientTypeOK, Top
<1>3. n \in EndFrames
  BY <1>2 DEF EndFrames
<1>4. k \in Nat \ {0} /\ k \in Callbacks("end") /\ Top.val \in Status
  BY <1>1, ClientAssumption DEF Callbacks, LoopFrame, Kinds
<1>5. \A i \in Callbacks("end") :
        heard["end"][i] = <<>> \/ (heard["end"][i] = <<Top.val>> /\ i < k)
  BY <1>2, <1>3 DEF EndInv, EndLoopOnce
<1>6. heard["end"][k] = <<>>
  BY <1>4, <1>5
<1>7. /\ heard'["end"][k] = <<Top.val>>
      /\ \A i \in Callbacks("end") : i # k => heard'["end"][i] = heard["end"][i]
  <2>1. heard["end"] \in [Callbacks("end") -> Seq(Status)] /\ "end" \in DOMAIN heard
    BY DEF ClientTypeOK, Kinds, Callbacks
  <2>2. heard'["end"] = [heard["end"] EXCEPT ![k] = Append(heard["end"][k], Top.val)]
    BY <2>1 DEF InvokeCallback
  <2>3. Append(<<>>, Top.val) = <<Top.val>>
    OBVIOUS
  <2> QED BY <1>4, <1>6, <2>1, <2>2, <2>3
<1> QED BY <1>4, <1>5, <1>6, <1>7

LEMMA InvokeStep ==
  ASSUME ClientTypeOK, EndInv, InvokeCallback
  PROVE  EndInv'
<1>1. /\ stack # <<>> /\ Top.do \in Kinds /\ Top \in LoopFrame /\ FrameOK(Top)
      /\ Top.last <= MaxCallbacks[Top.do] /\ Top.next <= Top.last
  BY LastFrame DEF InvokeCallback, ClientRuns, FrameOK
<1> DEFINE top == [Top EXCEPT !.next = Top.next + 1, !.busy = TRUE]
<1>2. FrameOK(top) /\ top.do = Top.do /\ top.val = Top.val /\ top.next = Top.next + 1
  BY <1>1, NextOK DEF LoopFrame
<1>3. stack' = Append(Front(stack), top) /\ UNCHANGED completed
  BY DEF InvokeCallback
<1> HIDE DEF top
<1>4. CASE Top.do # "end"
  <2>1. SameEnds(stack, stack')
    BY <1>1, <1>2, <1>3, <1>4, TypeIsStack, SameEndsTop
  <2>2. heard'["end"] = heard["end"]
    BY <1>4 DEF InvokeCallback, ClientTypeOK, Kinds
  <2> QED BY <1>3, <2>1, <2>2, QuietStep
<1>5. CASE Top.do = "end"
  <2> DEFINE n == Len(stack)
             k == Top.next
  <2>1. /\ n \in Nat \ {0} /\ Top = stack[n]
        /\ Front(stack) \in Seq(Frame) /\ Len(Front(stack)) = n - 1
        /\ \A p \in 1..(n - 1) : Front(stack)[p] = stack[p]
    BY <1>1, FrontLast DEF ClientTypeOK, Top
  <2>2. /\ Len(stack') = n
        /\ \A p \in 1..(n - 1) : stack'[p] = stack[p]
        /\ stack'[n] = top
    BY <1>2, <1>3, <2>1, AppendProperties DEF FrameOK
  <2>3. EndFrames = {n} /\ EndFrames' = {n}
    <3>1. n \in EndFrames
      BY <1>5, <2>1 DEF EndFrames
    <3>2. EndFrames = {n}
      BY <3>1 DEF EndInv, EndLoopOnce
    <3>3. EndFrames' = {n}
      BY <1>2, <1>5, <2>1, <2>2, <3>2 DEF EndFrames
    <3> QED BY <3>2, <3>3
  <2>4. k \in Nat \ {0} /\ k \in Callbacks("end")
    BY <1>1, <1>5, EndHeard DEF LoopFrame
  <2>5. \A i \in Callbacks("end") :
          heard["end"][i] = <<>> \/ (heard["end"][i] = <<Top.val>> /\ i < k)
    BY <1>5, EndHeard
  <2>6. /\ heard'["end"][k] = <<Top.val>>
        /\ \A i \in Callbacks("end") : i # k => heard'["end"][i] = heard["end"][i]
    BY <1>5, EndHeard
  <2>7. \A i \in Callbacks("end") :
          \/ heard'["end"][i] = <<>>
          \/ heard'["end"][i] = <<Top.val>> /\ i < k + 1
    BY <2>4, <2>5, <2>6 DEF Callbacks
  <2>8. EndLoopOnce'
    <3>1. completed'
      BY <1>3, <2>3 DEF EndInv, EndLoopOnce
    <3>2. stack'[n].val = Top.val /\ stack'[n].next = k + 1
      BY <1>2, <2>2
    <3> QED BY <2>3, <2>7, <3>1, <3>2 DEF EndLoopOnce
  <2>9. AtMostOneEnd'
    <3>1. Len(<<>>) = 0 /\ Len(<<Top.val>>) = 1
      OBVIOUS
    <3>2. \A i \in Callbacks("end") : Len(heard'["end"][i]) <= 1
      <4> TAKE i \in Callbacks("end")
      <4>1. heard'["end"][i] = <<>> \/ heard'["end"][i] = <<Top.val>>
        BY <2>7
      <4>2. CASE heard'["end"][i] = <<>>
        BY <3>1, <4>2
      <4>3. CASE heard'["end"][i] = <<Top.val>>
        BY <3>1, <4>3
      <4> QED BY <4>1, <4>2, <4>3
    <3>3. \A i, j \in Callbacks("end") :
            heard'["end"][i] # <<>> /\ heard'["end"][j] # <<>> =>
              heard'["end"][i] = heard'["end"][j]
      BY <2>7, Zenon
    <3> QED BY <3>2, <3>3 DEF AtMostOneEnd
  <2> QED BY <2>8, <2>9 DEF EndInv
<1> QED BY <1>4, <1>5

LEMMA ProcessItemStep ==
  ASSUME ClientTypeOK, EndInv, ProcessItem
  PROVE  EndInv'
<1>1. stack # <<>> /\ Top \in ChunkFrame /\ UNCHANGED <<completed, heard>>
  BY LastFrame DEF ProcessItem, ClientRuns
<1>2. SameEnds(stack, Front(stack)) /\ StackOK(Front(stack))
  BY <1>1, TypeIsStack, SameEndsFront, PopOK
<1>3. CASE Top.data = <<>>
  BY <1>1, <1>2, <1>3, QuietStep DEF ProcessItem, Pop
<1>4. CASE Top.data # <<>>
  <2> DEFINE d == Head(Top.data)
             top == [Top EXCEPT !.data = Tail(@)]
             rest == Append(Front(stack), top)
             h == Loop("headers", d.val)
             m == Loop("message", d.val)
  <2>1. Top.data \in Seq(Item)
    BY <1>1 DEF ChunkFrame
  <2>2. d \in Item /\ Tail(Top.data) \in Seq(Item)
    BY <1>4, <2>1
  <2>3. FrameOK(top) /\ top.do # "end"
    BY <1>1, <2>2 DEF FrameOK, Frame, ChunkFrame, Kinds
  <2>4. StackOK(rest) /\ SameEnds(stack, rest)
    BY <1>2, <2>3, PushOK, SameEndsPush
  <2>5. d.val \in Status
    BY <2>2 DEF Item
  <2>6. FrameOK(h) /\ h.do # "end" /\ FrameOK(m) /\ m.do # "end"
    BY <2>5, LoopOK DEF Kinds, Loop
  <2>7. stack' \in {Front(stack), rest, Append(rest, h), Append(rest, m)}
    BY <1>4 DEF ProcessItem, Pop, RawOnMessage, RawOnHeaders
  <2> HIDE DEF rest, h, m
  <2>8. SameEnds(stack, stack')
    BY <1>2, <2>4, <2>6, <2>7, SameEndsPush
  <2> QED BY <1>1, <2>8, QuietStep
<1> QED BY <1>3, <1>4

LEMMA HandlerEndStep ==
  ASSUME ClientTypeOK, EndInv, HandlerStep
  PROVE  EndInv'
<1>1. CASE LoopEnds
  <2>1. SameEnds(stack, stack')
    BY <1>1, TypeIsStack, SameEndsFront DEF LoopEnds, ClientRuns, Pop
  <2> QED BY <1>1, <2>1, QuietStep DEF LoopEnds
<1>2. CASE FailAfterHeaders
  <2>1. stack # <<>> /\ Top.code \in Status
    BY <1>2, LastFrame DEF FailAfterHeaders, ClientRuns, FailFrame
  <2>2. StackOK(Front(stack)) /\ SameEnds(stack, Front(stack))
    BY <2>1, TypeIsStack, SameEndsFront, PopOK
  <2> QED BY <1>2, <2>1, <2>2, CompleteStep DEF FailAfterHeaders
<1> QED BY <1>1, <1>2, ProcessItemStep, InvokeStep DEF HandlerStep

LEMMA ReturnEndStep ==
  ASSUME ClientTypeOK, EndInv, CallbackReturns
  PROVE  EndInv'
<1>1. /\ stack # <<>> /\ Top \in LoopFrame /\ FrameOK(Top)
      /\ UNCHANGED <<completed, heard>>
  BY LastFrame DEF CallbackReturns, Busy, FrameOK
<1> DEFINE top == [Top EXCEPT !.busy = FALSE]
<1>2. FrameOK(top) /\ top.do = Top.do /\ top.val = Top.val /\ top.next = Top.next
  BY <1>1 DEF FrameOK, Frame, LoopFrame
<1>3. stack' = Append(Front(stack), top)
  BY DEF CallbackReturns
<1> HIDE DEF top
<1>4. SameEnds(stack, stack')
  BY <1>1, <1>2, <1>3, TypeIsStack, SameEndsTop
<1> QED BY <1>1, <1>4, QuietStep

LEMMA NoStackChange ==
  ASSUME EndInv, UNCHANGED <<stack, completed, heard>>
  PROVE  EndInv'
  BY QuietStep DEF SameEnds

LEMMA UpcallEndStep ==
  ASSUME ClientTypeOK, EndInv,
         \/ \E h \in Status, s \in Nat : OnTransportHeaders(h, s)
         \/ \E data \in Seq(Item) : OnTransportChunk(data)
         \/ OnUnparsableChunk
         \/ OnTransportEnd
  PROVE  EndInv'
<1>1. CASE UNCHANGED clientVars
  BY <1>1, NoStackChange DEF clientVars
<1>2. StackOK(stack) /\ SameEnds(stack, stack)
  BY TypeIsStack DEF SameEnds
<1>3. ASSUME NEW h \in Status, NEW s \in Nat, OnTransportHeaders(h, s), ~(closed \/ s = 0)
      PROVE  EndInv'
  <2> DEFINE code == HeaderCode(h, s)
             fail == [do |-> "fail", code |-> code]
             rest == IF code = OK THEN stack ELSE Append(stack, fail)
             loop == Loop("headers", h)
  <2>1. FrameOK(fail) /\ fail.do # "end"
    BY DEF FrameOK, Frame, FailFrame, Kinds, HeaderCode, HttpStatusToCode
  <2>2. StackOK(rest) /\ SameEnds(stack, rest)
    BY <1>2, <2>1, PushOK, SameEndsPush
  <2>3. FrameOK(loop) /\ loop.do # "end"
    BY LoopOK DEF Kinds, Loop
  <2>4. stack' \in {rest, Append(rest, loop)} /\ UNCHANGED <<completed, heard>>
    BY <1>3 DEF OnTransportHeaders, RawOnHeaders
  <2> HIDE DEF rest, loop
  <2>5. SameEnds(stack, stack')
    BY <2>2, <2>3, <2>4, SameEndsPush
  <2> QED BY <2>4, <2>5, QuietStep
<1>4. ASSUME NEW data \in Seq(Item), OnTransportChunk(data), ~closed
      PROVE  EndInv'
  <2> DEFINE f == [do |-> "chunk", data |-> data]
  <2>1. FrameOK(f) /\ f.do # "end"
    BY DEF FrameOK, Frame, ChunkFrame, Kinds
  <2>2. stack' = Append(stack, f) /\ UNCHANGED <<completed, heard>>
    BY <1>4 DEF OnTransportChunk
  <2>3. SameEnds(stack, stack')
    BY <1>2, <2>1, <2>2, SameEndsPush
  <2> QED BY <2>2, <2>3, QuietStep
<1>5. CASE OnUnparsableChunk /\ ~closed
  BY <1>2, <1>5, CompleteStep DEF OnUnparsableChunk, Internal
<1>6. CASE OnTransportEnd /\ ~closed
  <2>1. EndCode \in Status
    BY DEF ClientTypeOK, EndCode, Internal, Unknown
  <2> QED BY <1>2, <1>6, <2>1, CompleteStep DEF OnTransportEnd
<1> QED BY <1>1, <1>3, <1>4, <1>5, <1>6
        DEF OnTransportHeaders, OnTransportChunk, OnUnparsableChunk, OnTransportEnd

LEMMA NextEnd == TypeOK /\ EndInv /\ [Next]_vars => EndInv'
<1> SUFFICES ASSUME TypeOK, EndInv, [Next]_vars PROVE EndInv'
  OBVIOUS
<1>1. ClientTypeOK
  BY DEF TypeOK
<1>2. CASE Application
  <2>1. UNCHANGED <<stack, completed, heard>>
    BY <1>2 DEF Application, Register, Start, Close, Send, FinishSend
  <2> QED BY <2>1, NoStackChange
<1>3. ASSUME NEW h \in HeaderStatuses, NEW s \in HttpStatuses, TransportHeaders(h, s)
      PROVE  EndInv'
  BY <1>1, <1>3, UpcallEndStep, TransportAssumption DEF TransportHeaders
<1>4. ASSUME NEW run \in MessageRuns, NEW trailers \in Trailers, TransportChunk(run, trailers)
      PROVE  EndInv'
  <2>1. arrived \in Nat
    BY TransportAssumption DEF TypeOK
  <2> QED BY <1>1, <1>4, <2>1, ChunkIsItems, UpcallEndStep DEF TransportChunk
<1>5. CASE TransportGarbage
  BY <1>1, <1>5, UpcallEndStep DEF TransportGarbage
<1>6. CASE TransportEnd
  BY <1>1, <1>6, UpcallEndStep DEF TransportEnd
<1>7. CASE Handler
  BY <1>1, <1>7, HandlerEndStep DEF Handler
<1>8. CASE Return
  BY <1>1, <1>8, ReturnEndStep DEF Return
<1>9. CASE UNCHANGED vars
  BY <1>9, NoStackChange DEF vars, clientVars
<1> QED BY <1>2, <1>3, <1>4, <1>5, <1>6, <1>7, <1>8, <1>9 DEF Next

LEMMA InitEnd == Init => EndInv
<1> SUFFICES ASSUME Init PROVE EndInv
  OBVIOUS
<1>1. EndFrames = {} /\ \A i \in Callbacks("end") : heard["end"][i] = <<>>
  BY DEF Init, ClientInit, EndFrames, Callbacks, Kinds
<1>2. Len(<<>>) <= 1
  OBVIOUS
<1> QED BY <1>1, <1>2 DEF EndInv, EndLoopOnce, AtMostOneEnd

\* rawOnEnd and rawOnError between them call each end callback at most once,
\* and every end callback hears the same code: for any number of callbacks, any
\* response, cut anywhere, any nesting of upcalls and any use of close.
THEOREM AtMostOneEndHolds == Spec => []AtMostOneEnd
<1>1. Init => EndInv
  BY InitEnd
<1>2. TypeOK /\ EndInv /\ [Next]_vars => EndInv'
  BY NextEnd
<1>3. EndInv => AtMostOneEnd
  BY DEF EndInv
<1> QED BY <1>1, <1>2, <1>3, TypeCorrect, PTL DEF Spec

-----------------------------------------------------------------------------
(* Transports that make their upcalls one after the other.  Without        *)
(* nesting at most two handlers are unfinished: Shape lists the stacks     *)
(* there are, InOrder relates what the message callbacks have heard to the *)
(* items that onTransportChunk has left.                                   *)

Shape ==
  /\ Len(stack) \in 0..2
  /\ Len(stack) = 1 => stack[1].do # "message"
  /\ Len(stack) = 2 => /\ stack[1].do \in {"chunk", "fail"}
                       /\ stack[2].do \in {"headers", "message"}
                       /\ stack[1].do = "fail" => stack[2].do = "headers"
  /\ completed => \A p \in 1..Len(stack) : stack[p].do \notin {"headers", "message"}

\* The items onTransportChunk has still to look at.
LeftOf(s) == IF Len(s) > 0 /\ s[1].do = "chunk" THEN s[1].data ELSE <<>>

MessagesIn(d) == IF d # <<>> /\ d[Len(d)].type = "trailers" THEN Len(d) - 1 ELSE Len(d)

\* The messages that are no longer left: delivered or dropped.
Taken == arrived - MessagesIn(LeftOf(stack))

MessageLoop == Len(stack) = 2 /\ stack[2].do = "message"

\* The last message that callback i can have heard.
Upto(i) == IF MessageLoop /\ i >= stack[2].next THEN Taken - 1 ELSE Taken

Heard(i) == heard["message"][i]

\* The messages of d are from + 1, from + 2, ... and the trailers come last.
NumberedItems(d, from) ==
  \A n \in 1..Len(d) :
    IF n <= MessagesIn(d) THEN d[n].type # "trailers" /\ d[n].val = from + n
    ELSE d[n].type = "trailers"

InOrder ==
  /\ NumberedItems(LeftOf(stack), Taken)
  /\ Taken \in Nat
  /\ MessageLoop => stack[2].val = Taken /\ Taken > 0
  /\ \A i \in Callbacks("message") :
       /\ Heard(i) \in Seq(Nat)
       /\ Heard(i) # <<>> => Heard(i)[Len(Heard(i))] <= Upto(i)

-----------------------------------------------------------------------------
(* The stack *)

LEMMA Empty == ASSUME ClientTypeOK PROVE /\ stack \in Seq(Frame) /\ Len(stack) \in Nat
                                         /\ stack = <<>> <=> Len(stack) = 0
  BY EmptySeq, LenProperties DEF ClientTypeOK

LEMMA TopFrame ==
  ASSUME ClientTypeOK, stack # <<>>
  PROVE  Top = stack[Len(stack)] /\ Len(stack) \in Nat \ {0}
  BY FrontLast DEF ClientTypeOK, Top

LEMMA Popped ==
  ASSUME ClientTypeOK, stack # <<>>, NEW s, s = Front(stack)
  PROVE  /\ s \in Seq(Frame)
         /\ Len(s) = Len(stack) - 1
         /\ \A p \in 1..(Len(stack) - 1) : s[p] = stack[p]
  BY FrontLast DEF ClientTypeOK

LEMMA Pushed ==
  ASSUME NEW rest \in Seq(Frame), NEW f \in Frame, NEW s, s = Append(rest, f)
  PROVE  /\ s \in Seq(Frame)
         /\ Len(s) = Len(rest) + 1
         /\ \A p \in 1..Len(rest) : s[p] = rest[p]
         /\ s[Len(rest) + 1] = f
  BY AppendProperties, LenProperties

LEMMA Replaced ==
  ASSUME ClientTypeOK, stack # <<>>, NEW f \in Frame, NEW s, s = Append(Front(stack), f)
  PROVE  /\ s \in Seq(Frame)
         /\ Len(s) = Len(stack)
         /\ \A p \in 1..(Len(stack) - 1) : s[p] = stack[p]
         /\ s[Len(stack)] = f
<1>1. /\ Front(stack) \in Seq(Frame) /\ Len(Front(stack)) = Len(stack) - 1
      /\ \A p \in 1..(Len(stack) - 1) : Front(stack)[p] = stack[p]
      /\ Len(stack) \in Nat \ {0}
  BY Popped, TopFrame
<1> QED BY <1>1, Pushed

LEMMA LoopFrames ==
  ASSUME ClientTypeOK, NEW k \in Kinds, NEW v \in Status
  PROVE  Loop(k, v) \in Frame /\ Loop(k, v).do = k /\ Loop(k, v).val = v
         /\ Loop(k, v).next = 1 /\ Loop(k, v).last = callbacks[k]
<1>1. Loop(k, v) \in Frame
  BY LoopOK DEF FrameOK
<1> QED BY <1>1 DEF Loop

\* Without nesting an upcall finds no handler unfinished.
LEMMA UpcallAlone == ASSUME ~Reentrant, TransportRuns PROVE started /\ stack = <<>>
  BY DEF TransportRuns

-----------------------------------------------------------------------------
(* Items *)

LEMMA MessagesLeft ==
  ASSUME NEW d \in Seq(Item)
  PROVE  /\ Len(d) \in Nat /\ MessagesIn(d) \in 0..Len(d)
         /\ d = <<>> => MessagesIn(d) = 0
<1>1. Len(d) \in Nat /\ (d = <<>> <=> Len(d) = 0)
  BY EmptySeq, LenProperties
<1>2. MessagesIn(d) = Len(d) \/ (d # <<>> /\ MessagesIn(d) = Len(d) - 1)
  BY Zenon DEF MessagesIn
<1> QED BY <1>1, <1>2

LEMMA NothingLeft == ASSUME NEW from PROVE MessagesIn(<<>>) = 0 /\ NumberedItems(<<>>, from)
  BY EmptySeq DEF MessagesIn, NumberedItems

\* A message goes, and the rest is numbered on; after the trailers nothing is left.
LEMMA TailItems ==
  ASSUME NEW d \in Seq(Item), d # <<>>, NEW from \in Nat, NumberedItems(d, from)
  PROVE  /\ Head(d).type # "trailers" => /\ Head(d).val = from + 1
                                         /\ MessagesIn(Tail(d)) = MessagesIn(d) - 1
                                         /\ NumberedItems(Tail(d), from + 1)
         /\ Head(d).type = "trailers" => MessagesIn(d) = 0 /\ Tail(d) = <<>>
<1> DEFINE t == Tail(d)
<1>1. /\ Len(d) \in Nat \ {0} /\ Head(d) = d[1]
      /\ t \in Seq(Item) /\ Len(t) = Len(d) - 1
      /\ \A n \in 1..Len(t) : t[n] = d[n + 1]
  BY EmptySeq, HeadTailProperties
<1> HIDE DEF t
<1>2. t = <<>> <=> Len(d) = 1
  <2>1. t = <<>> <=> Len(t) = 0
    BY <1>1, EmptySeq
  <2> QED BY <1>1, <2>1
<1>3. MessagesIn(d) \in 0..Len(d)
  BY MessagesLeft
<1>4. ASSUME d[1].type # "trailers"
      PROVE  d[1].val = from + 1 /\ MessagesIn(t) = MessagesIn(d) - 1 /\ NumberedItems(t, from + 1)
  <2>1. MessagesIn(d) >= 1 /\ d[1].val = from + 1
    BY <1>1, <1>3, <1>4 DEF NumberedItems
  <2>2. MessagesIn(t) = MessagesIn(d) - 1
    <3>1. CASE Len(d) = 1
      BY <1>1, <1>2, <1>4, <3>1 DEF MessagesIn
    <3>2. CASE Len(d) > 1
      <4>1. t # <<>> /\ t[Len(t)] = d[Len(d)]
        BY <1>1, <1>2, <3>2
      <4> QED BY <1>1, <4>1 DEF MessagesIn
    <3> QED BY <1>1, <3>1, <3>2
  <2>3. NumberedItems(t, from + 1)
    <3> SUFFICES ASSUME NEW n \in 1..Len(t)
                 PROVE  IF n <= MessagesIn(t) THEN t[n].type # "trailers" /\ t[n].val = from + 1 + n
                        ELSE t[n].type = "trailers"
      BY DEF NumberedItems
    <3>1. n + 1 \in 1..Len(d) /\ t[n] = d[n + 1]
      BY <1>1
    <3>2. IF n + 1 <= MessagesIn(d) THEN d[n + 1].type # "trailers" /\ d[n + 1].val = from + (n + 1)
          ELSE d[n + 1].type = "trailers"
      BY <3>1 DEF NumberedItems
    <3> QED BY <1>3, <2>2, <3>1, <3>2
  <2> QED BY <2>1, <2>2, <2>3
<1>5. ASSUME d[1].type = "trailers" PROVE MessagesIn(d) = 0 /\ t = <<>>
  <2>1. MessagesIn(d) = 0
    BY <1>1, <1>3, <1>5 DEF NumberedItems
  <2> QED BY <1>1, <1>2, <2>1 DEF MessagesIn
<1> QED BY <1>1, <1>4, <1>5 DEF t

\* Messages in a row and possibly the trailers are numbered items.
LEMMA ItemsThenTrailers ==
  ASSUME NEW items \in Seq(Item), NEW trailers \in Seq(Item), NEW from \in Nat,
         \A i \in 1..Len(items) : items[i].type # "trailers" /\ items[i].val = from + i,
         trailers = <<>> \/ (Len(trailers) = 1 /\ trailers[1].type = "trailers"),
         NEW data, data = items \o trailers
  PROVE  MessagesIn(data) = Len(items) /\ NumberedItems(data, from)
<1> DEFINE n == Len(items)
<1>1. n \in Nat
  BY LenProperties
<1>2. CASE trailers = <<>>
  <2>1. data = items
    BY <1>2, ConcatEmptySeq
  <2>2. MessagesIn(data) = n
    <3>1. items # <<>> => items[n].type # "trailers"
      BY <1>1, EmptySeq
    <3> QED BY <2>1, <3>1, Zenon DEF MessagesIn
  <2> QED BY <1>1, <2>1, <2>2 DEF NumberedItems
<1>3. CASE Len(trailers) = 1 /\ trailers[1].type = "trailers"
  <2>1. /\ Len(data) = n + Len(trailers)
        /\ \A i \in 1..(n + Len(trailers)) :
             data[i] = IF i <= n THEN items[i] ELSE trailers[i - n]
    BY ConcatProperties, Zenon
  <2>2. /\ Len(data) = n + 1 /\ data[n + 1] = trailers[1]
        /\ \A i \in 1..n : data[i] = items[i]
    BY <1>1, <1>3, <2>1
  <2>3. MessagesIn(data) = n
    <3>1. Len(data) # 0 /\ Len(data) - 1 = n /\ data[Len(data)].type = "trailers"
      BY <1>1, <1>3, <2>2
    <3>2. data # <<>>
      BY <3>1, EmptySeq
    <3> QED BY <3>1, <3>2, Zenon DEF MessagesIn
  <2> QED BY <1>1, <1>3, <2>2, <2>3 DEF NumberedItems
<1> QED BY <1>2, <1>3

\* A chunk of the environment holds the messages that follow the ones before.
LEMMA ChunkIsNumbered ==
  ASSUME arrived \in Nat, NEW run \in MessageRuns, NEW trailers \in Trailers, NEW data,
         data = [i \in DOMAIN run |-> [type |-> run[i], val |-> arrived + i]] \o trailers
  PROVE  /\ Len(run) \in Nat
         /\ MessagesIn(data) = Len(run)
         /\ NumberedItems(data, arrived)
<1> DEFINE items == [i \in DOMAIN run |-> [type |-> run[i], val |-> arrived + i]]
<1>1. PICK n \in 0 .. MaxMessages - arrived : run \in [1..n -> {"message", "bad"}]
  BY TransportAssumption DEF MessageRuns
<1>2. n \in Nat /\ DOMAIN run = 1..n /\ Len(run) = n
  BY <1>1
<1>3. /\ items \in Seq(Item) /\ Len(items) = n
      /\ \A i \in 1..n : items[i].type # "trailers" /\ items[i].val = arrived + i
  <2>1. \A i \in 1..n : [type |-> run[i], val |-> arrived + i] \in Item
    BY <1>1 DEF Item
  <2> QED BY <1>1, <1>2, <2>1
<1>4. /\ trailers \in Seq(Item)
      /\ trailers = <<>> \/ (Len(trailers) = 1 /\ trailers[1].type = "trailers")
  <2>1. CASE trailers = <<>>
    BY <2>1
  <2>2. CASE trailers # <<>>
    <3>1. PICK g \in TrailerStatuses : trailers = <<[type |-> "trailers", val |-> g]>>
      BY <2>2 DEF Trailers
    <3>2. g \in Status /\ [type |-> "trailers", val |-> g] \in Item
      BY TransportAssumption DEF Item
    <3>3. <<[type |-> "trailers", val |-> g]>> \in Seq(Item)
      BY <3>2
    <3> QED BY <3>1, <3>3
  <2> QED BY <2>1, <2>2
<1>5. data = items \o trailers
  OBVIOUS
<1> HIDE DEF items
<1> QED BY <1>2, <1>3, <1>4, <1>5, ItemsThenTrailers, ZenonT(60)

-----------------------------------------------------------------------------
(* What a step may do to the order                                         *)

LEMMA UptoTaken ==
  ASSUME Taken \in Nat, NEW i PROVE Upto(i) \in Int /\ Upto(i) <= Taken
  BY DEF Upto

\* No message loop is left, and no more than that is taken.
LEMMA QuietOrder ==
  ASSUME InOrder, ~MessageLoop', heard'["message"] = heard["message"],
         Taken' \in Nat, Taken' >= Taken, NumberedItems(LeftOf(stack'), Taken')
  PROVE  InOrder'
<1>1. ASSUME NEW i \in Callbacks("message")
      PROVE  /\ Heard(i)' \in Seq(Nat)
             /\ Heard(i)' # <<>> => Heard(i)'[Len(Heard(i)')] <= Upto(i)'
  <2>1. Heard(i)' = Heard(i) /\ Heard(i) \in Seq(Nat)
    BY DEF InOrder, Heard
  <2>2. Upto(i)' = Taken'
    BY DEF Upto
  <2>3. Taken \in Nat
    BY DEF InOrder
  <2>4. Heard(i) # <<>> => Heard(i)[Len(Heard(i))] \in Nat /\ Heard(i)[Len(Heard(i))] <= Upto(i)
    BY <2>1, EmptySeq, LenProperties, ElementOfSeq DEF InOrder
  <2> QED BY <2>1, <2>2, <2>3, <2>4, UptoTaken
<1> QED BY <1>1 DEF InOrder

\* The next message is taken and its loop starts.
LEMMA MessageStarts ==
  ASSUME InOrder, ~MessageLoop, MessageLoop', heard'["message"] = heard["message"],
         Taken' = Taken + 1, NumberedItems(LeftOf(stack'), Taken'),
         stack'[2].val = Taken', stack'[2].next = 1
  PROVE  InOrder'
<1>1. Taken \in Nat
  BY DEF InOrder
<1>2. ASSUME NEW i \in Callbacks("message")
      PROVE  /\ Heard(i)' \in Seq(Nat)
             /\ Heard(i)' # <<>> => Heard(i)'[Len(Heard(i)')] <= Upto(i)'
  <2>1. Heard(i)' = Heard(i)
    BY DEF Heard
  <2>2. Upto(i)' = Taken /\ Upto(i) = Taken
    <3>1. i >= 1
      BY ClientAssumption DEF Callbacks
    <3> QED BY <1>1, <3>1 DEF Upto
  <2> QED BY <2>1, <2>2 DEF InOrder
<1> QED BY <1>1, <1>2 DEF InOrder

\* A callback returns, or a callback of another kind is called.
LEMMA SameOrder ==
  ASSUME InOrder, heard'["message"] = heard["message"], arrived' = arrived,
         LeftOf(stack') = LeftOf(stack), MessageLoop' <=> MessageLoop,
         MessageLoop => stack'[2].val = stack[2].val /\ stack'[2].next = stack[2].next
  PROVE  InOrder'
<1>1. Taken' = Taken
  BY DEF Taken
<1>2. \A i : Heard(i)' = Heard(i)
  BY DEF Heard
<1>3. \A i : Upto(i)' = Upto(i)
  BY <1>1 DEF Upto
<1> QED BY <1>1, <1>2, <1>3 DEF InOrder

\* The message loop calls its next callback.
LEMMA MessageHeard ==
  ASSUME ClientTypeOK, InOrder, MessageLoop, MessageLoop', arrived' = arrived,
         LeftOf(stack') = LeftOf(stack), NEW k \in Callbacks("message"), k = stack[2].next,
         heard'["message"] = [heard["message"] EXCEPT ![k] = Append(heard["message"][k], Taken)],
         stack'[2].val = stack[2].val, stack'[2].next = k + 1
  PROVE  InOrder'
<1>1. Taken' = Taken /\ Taken \in Nat
  BY DEF Taken, InOrder
<1>2. k \in Nat
  BY ClientAssumption DEF Callbacks
<1>3. ASSUME NEW i \in Callbacks("message"), i # k
      PROVE  /\ Heard(i)' \in Seq(Nat)
             /\ Heard(i)' # <<>> => Heard(i)'[Len(Heard(i)')] <= Upto(i)'
  <2>1. Heard(i)' = Heard(i)
    BY <1>3 DEF Heard
  <2>2. Upto(i)' = Upto(i)
    <3>1. i \in Nat
      BY ClientAssumption DEF Callbacks
    <3> QED BY <1>1, <1>2, <1>3, <3>1 DEF Upto
  <2> QED BY <2>1, <2>2 DEF InOrder
<1>4. Heard(k)' \in Seq(Nat) /\ Heard(k)'[Len(Heard(k)')] = Taken /\ Upto(k)' = Taken
  <2>1. Heard(k) \in Seq(Nat)
    BY DEF InOrder
  <2>2. Heard(k)' = Append(Heard(k), Taken)
    BY DEF Heard, ClientTypeOK, Callbacks, Kinds
  <2>3. Upto(k)' = Taken
    BY <1>1, <1>2 DEF Upto
  <2> QED BY <1>1, <2>1, <2>2, <2>3, AppendProperties, LenProperties
<1>5. \A i \in Callbacks("message") :
       /\ Heard(i)' \in Seq(Nat)
       /\ Heard(i)' # <<>> => Heard(i)'[Len(Heard(i)')] <= Upto(i)'
  BY <1>1, <1>3, <1>4
<1> QED BY <1>1, <1>5 DEF InOrder

-----------------------------------------------------------------------------
(* Shape and order are kept                                                *)

SeqInv == Shape /\ InOrder

\* A step outside the message loops, after which no message is missing that
\* was not missing before, unless the client no longer delivers any.
Still ==
  /\ ~MessageLoop /\ ~MessageLoop' /\ heard'["message"] = heard["message"]
  /\ Taken' = Taken \/ closed \/ completed

\* With no handler unfinished, all that has arrived is taken.
LEMMA AllTaken ==
  ASSUME ClientTypeOK, arrived \in Nat, stack = <<>>
  PROVE  LeftOf(stack) = <<>> /\ Taken = arrived /\ ~MessageLoop /\ Len(stack) = 0
<1>1. Len(stack) = 0
  BY Empty
<1>2. LeftOf(stack) = <<>>
  BY <1>1 DEF LeftOf
<1> QED BY <1>1, <1>2, NothingLeft DEF Taken, MessageLoop

LEMMA UpcallOrder ==
  ASSUME ClientTypeOK, InOrder, arrived \in Nat, stack = <<>>,
         arrived' \in Nat, arrived' >= arrived, LeftOf(stack') = <<>>, ~MessageLoop',
         heard'["message"] = heard["message"], arrived' = arrived \/ closed
  PROVE  InOrder' /\ Still
<1>1. Taken = arrived /\ Taken' = arrived' /\ ~MessageLoop
  BY AllTaken, NothingLeft DEF Taken
<1>2. NumberedItems(LeftOf(stack'), Taken')
  BY NothingLeft
<1> QED BY <1>1, <1>2, QuietOrder DEF Still

\* Complete is called with nothing else unfinished.
LEMMA CompleteView ==
  ASSUME ClientTypeOK, NEW rest \in Seq(Frame), Len(rest) = 0,
         NEW c \in Status, Complete(c, rest)
  PROVE  /\ Shape' /\ LeftOf(stack') = <<>> /\ ~MessageLoop' /\ completed'
         /\ \/ Len(stack') = 0 /\ completed
            \/ /\ Len(stack') = 1 /\ stack'[1].do = "end" /\ stack'[1].val = c
               /\ ~completed
<1>1. "end" \in Kinds
  BY DEF Kinds
<1>2. \/ Len(stack') = 0 /\ completed
      \/ /\ Len(stack') = 1 /\ stack'[1].do = "end" /\ stack'[1].val = c
         /\ ~completed
  <2> DEFINE loop == Loop("end", c)
  <2>1. loop \in Frame /\ loop.do = "end" /\ loop.val = c
    BY <1>1, LoopFrames
  <2> HIDE DEF loop
  <2>2. (completed /\ stack' = rest) \/ (~completed /\ stack' = Append(rest, loop))
    BY DEF Complete, loop
  <2> QED BY <2>1, <2>2, Pushed
<1>3. completed' = TRUE
  BY DEF Complete
<1>4. Shape' /\ LeftOf(stack') = <<>> /\ ~MessageLoop'
  BY <1>2, <1>3 DEF Shape, LeftOf, MessageLoop
<1> QED BY <1>2, <1>3, <1>4

LEMMA UnchangedSeq ==
  ASSUME SeqInv, UNCHANGED <<stack, completed, heard, arrived>>
  PROVE  SeqInv'
<1>1. Shape'
  BY DEF SeqInv, Shape
<1>2. InOrder'
  BY SameOrder DEF SeqInv, MessageLoop
<1> QED BY <1>1, <1>2 DEF SeqInv

LEMMA HeadersView ==
  ASSUME ~Reentrant, ClientTypeOK,
         NEW h \in Status, NEW s \in Nat, OnTransportHeaders(h, s), ~(closed \/ s = 0)
  PROVE  /\ stack = <<>> /\ LeftOf(stack') = <<>> /\ ~MessageLoop' /\ Shape'
         /\ responseHeaders' = h
         /\ UNCHANGED <<flags, completed, responseTrailers, callbacks, heard>>
         /\ \A p \in 1..Len(stack') :
              \/ stack'[p].do = "headers"
              \/ stack'[p].do = "fail" /\ stack'[p].code # OK
<1> DEFINE code == HeaderCode(h, s)
           fail == [do |-> "fail", code |-> code]
           rest == IF code = OK THEN stack ELSE Append(stack, fail)
           loop == Loop("headers", h)
<1>1. stack = <<>> /\ Len(stack) = 0 /\ stack \in Seq(Frame)
  BY UpcallAlone, Empty DEF OnTransportHeaders
<1>2. fail \in Frame /\ fail.do = "fail" /\ fail.code = code
  BY DEF Frame, FailFrame, HeaderCode, HttpStatusToCode
<1>3. loop \in Frame /\ loop.do = "headers"
  BY LoopFrames DEF Kinds
<1>4. /\ stack' = (IF completed THEN rest ELSE Append(rest, loop))
      /\ responseHeaders' = h
      /\ UNCHANGED <<flags, completed, responseTrailers, callbacks, heard>>
  BY DEF OnTransportHeaders, RawOnHeaders
<1> HIDE DEF fail, loop, code
<1>5. /\ rest \in Seq(Frame)
      /\ Len(rest) = 0 \/ (Len(rest) = 1 /\ rest[1].do = "fail" /\ rest[1].code # OK)
  BY <1>1, <1>2, Pushed
<1> HIDE DEF rest
<1>6. \/ Len(stack') = 0
      \/ Len(stack') = 1 /\ stack'[1].do = "fail" /\ stack'[1].code # OK
      \/ Len(stack') = 1 /\ stack'[1].do = "headers" /\ ~completed
      \/ /\ Len(stack') = 2 /\ stack'[1].do = "fail" /\ stack'[1].code # OK
         /\ stack'[2].do = "headers" /\ ~completed
  <2>1. CASE completed
    BY <1>4, <1>5, <2>1
  <2>2. CASE ~completed
    BY <1>3, <1>4, <1>5, <2>2, Pushed
  <2> QED BY <2>1, <2>2
<1>7. Shape'
  BY <1>4, <1>6 DEF Shape
<1>8. LeftOf(stack') = <<>> /\ ~MessageLoop'
  BY <1>6 DEF LeftOf, MessageLoop
<1>9. \A p \in 1..Len(stack') :
        stack'[p].do = "headers" \/ (stack'[p].do = "fail" /\ stack'[p].code # OK)
  BY <1>6
<1> QED BY <1>1, <1>4, <1>7, <1>8, <1>9

LEMMA HeadersSeq ==
  ASSUME ~Reentrant, ClientTypeOK, arrived \in Nat, SeqInv,
         NEW h \in Status, NEW s \in Nat, OnTransportHeaders(h, s), arrived' = arrived
  PROVE  SeqInv' /\ Still /\ LeftOf(stack') = <<>>
<1>1. CASE closed \/ s = 0
  <2>1. UNCHANGED <<stack, completed, heard>>
    BY <1>1 DEF OnTransportHeaders, clientVars
  <2>2. stack = <<>>
    BY UpcallAlone DEF OnTransportHeaders
  <2> QED BY <2>1, <2>2, AllTaken, UnchangedSeq DEF Still, Taken, MessageLoop
<1>2. CASE ~(closed \/ s = 0)
  BY <1>2, HeadersView, UpcallOrder DEF SeqInv
<1> QED BY <1>1, <1>2

LEMMA ChunkSeq ==
  ASSUME ~Reentrant, ClientTypeOK, arrived \in Nat, SeqInv,
         NEW data \in Seq(Item), OnTransportChunk(data), NumberedItems(data, arrived),
         arrived' = arrived + MessagesIn(data)
  PROVE  /\ SeqInv' /\ Still /\ stack = <<>>
         /\ ~closed => LeftOf(stack') = data /\ Len(stack') = 1 /\ stack'[1].do = "chunk"
<1>1. stack = <<>> /\ Len(stack) = 0 /\ stack \in Seq(Frame)
  BY UpcallAlone, Empty DEF OnTransportChunk
<1>2. MessagesIn(data) \in Nat /\ arrived' \in Nat /\ arrived' >= arrived
  BY MessagesLeft
<1>3. CASE closed
  <2>1. UNCHANGED <<stack, completed, heard>>
    BY <1>3 DEF OnTransportChunk, clientVars
  <2>2. Shape'
    BY <2>1 DEF SeqInv, Shape
  <2>3. LeftOf(stack') = <<>> /\ ~MessageLoop'
    BY <1>1, <2>1, AllTaken DEF MessageLoop
  <2> QED BY <1>1, <1>2, <1>3, <2>1, <2>2, <2>3, UpcallOrder DEF SeqInv
<1>4. CASE ~closed
  <2> DEFINE chunk == [do |-> "chunk", data |-> data]
  <2>1. chunk \in Frame /\ chunk.do = "chunk" /\ chunk.data = data
    BY DEF Frame, ChunkFrame
  <2>2. stack' = Append(stack, chunk) /\ UNCHANGED <<completed, heard>>
    BY <1>4 DEF OnTransportChunk
  <2> HIDE DEF chunk
  <2>3. Len(stack') = 1 /\ stack'[1] = chunk
    BY <1>1, <2>1, <2>2, Pushed
  <2>4. Shape'
    BY <2>1, <2>3 DEF Shape
  <2>5. LeftOf(stack') = data /\ ~MessageLoop'
    BY <2>1, <2>3 DEF LeftOf, MessageLoop
  <2>6. Taken = arrived /\ Taken' = arrived /\ ~MessageLoop
    BY <1>1, <1>2, <2>5, AllTaken DEF Taken
  <2> QED BY <1>1, <2>1, <2>2, <2>3, <2>4, <2>5, <2>6, QuietOrder DEF SeqInv, Still
<1> QED BY <1>3, <1>4

LEMMA EndCodeStatus == ASSUME ClientTypeOK PROVE EndCode \in Status
  BY DEF ClientTypeOK, EndCode, Internal, Unknown, Status

LEMMA CompleteSeq ==
  ASSUME ~Reentrant, ClientTypeOK, arrived \in Nat, SeqInv,
         OnUnparsableChunk \/ OnTransportEnd, arrived' = arrived
  PROVE  SeqInv' /\ Still /\ LeftOf(stack') = <<>> /\ stack = <<>>
<1>1. stack = <<>> /\ Len(stack) = 0 /\ stack \in Seq(Frame)
  BY UpcallAlone, Empty DEF OnUnparsableChunk, OnTransportEnd
<1>2. CASE closed
  <2>1. UNCHANGED <<stack, completed, heard>>
    BY <1>2 DEF OnUnparsableChunk, OnTransportEnd, clientVars
  <2> QED BY <1>1, <1>2, <2>1, AllTaken, UnchangedSeq DEF Still, MessageLoop
<1>3. CASE ~closed
  <2>2. EndCode \in Status /\ Internal \in Status
    BY EndCodeStatus DEF Internal, Status
  <2>3. \E c \in Status : Complete(c, stack)
    BY <1>3, <2>2 DEF OnUnparsableChunk, OnTransportEnd
  <2>4. UNCHANGED heard
    BY <1>3 DEF OnUnparsableChunk, OnTransportEnd
  <2>5. Shape' /\ LeftOf(stack') = <<>> /\ ~MessageLoop'
    BY <1>1, <2>3, CompleteView
  <2> QED BY <1>1, <2>4, <2>5, UpcallOrder DEF SeqInv
<1> QED BY <1>2, <1>3

\* onTransportChunk takes the next item; no other handler is unfinished.
LEMMA ItemView ==
  ASSUME ClientTypeOK, SeqInv, ProcessItem
  PROVE  LET d == Head(Top.data)
         IN  /\ Top.data \in Seq(Item) /\ LeftOf(stack) = Top.data
             /\ ~MessageLoop /\ Len(stack) = 1 /\ Shape'
             /\ UNCHANGED <<flags, completed, callbacks, heard>>
             /\ \A p \in 1..Len(stack') : stack'[p].do \in {"chunk", "headers", "message"}
             /\ \/ /\ Top.data = <<>> \/ d.type = "bad"
                   /\ LeftOf(stack') = <<>> /\ ~MessageLoop' /\ UNCHANGED response
                \/ /\ Top.data # <<>> /\ d.type = "message"
                   /\ LeftOf(stack') = Tail(Top.data) /\ UNCHANGED response
                   /\ \/ ~MessageLoop' /\ (completed \/ closed)
                      \/ /\ MessageLoop' /\ stack'[2].val = d.val /\ stack'[2].next = 1
                         /\ stack'[2].last = callbacks["message"]
                \/ /\ Top.data # <<>> /\ d.type = "trailers"
                   /\ LeftOf(stack') = Tail(Top.data) /\ ~MessageLoop'
                   /\ IF responseHeaders = Undefined
                        THEN responseHeaders' = d.val /\ UNCHANGED responseTrailers
                        ELSE responseTrailers' = d.val /\ UNCHANGED responseHeaders
<1>1. /\ stack # <<>> /\ Top \in ChunkFrame /\ Top = stack[Len(stack)]
      /\ Len(stack) \in Nat \ {0}
      /\ UNCHANGED <<flags, completed, callbacks, heard>>
  BY LastFrame, TopFrame DEF ProcessItem, ClientRuns
<1>2. Top.do = "chunk" /\ Top.data \in Seq(Item)
  BY <1>1 DEF ChunkFrame
<1>3. Len(stack) = 1 /\ LeftOf(stack) = Top.data /\ ~MessageLoop
  <2>1. Len(stack) = 1
    BY <1>1, <1>2 DEF SeqInv, Shape
  <2> QED BY <1>1, <1>2, <2>1 DEF LeftOf, MessageLoop
<1>4. Front(stack) \in Seq(Frame) /\ Len(Front(stack)) = 0
  BY <1>1, <1>3, Popped
<1> DEFINE d == Head(Top.data)
           left == Tail(Top.data)
\* The forEach ends, or an exception ends it.
<1>5. CASE stack' = Front(stack) /\ (Top.data = <<>> \/ d.type = "bad") /\ UNCHANGED response
  <2>1. Len(stack') = 0
    BY <1>4, <1>5
  <2>2. LeftOf(stack') = <<>> /\ ~MessageLoop' /\ Shape'
    BY <2>1 DEF LeftOf, MessageLoop, Shape
  <2>3. \A p \in 1..Len(stack') : stack'[p].do \in {"chunk", "headers", "message"}
    BY <2>1
  <2> QED BY <1>1, <1>2, <1>3, <1>5, <2>2, <2>3, Zenon
<1>6. CASE Top.data # <<>> /\ d.type # "bad"
  <2> DEFINE top == [Top EXCEPT !.data = left]
             rest == Append(Front(stack), top)
             h == Loop("headers", d.val)
             m == Loop("message", d.val)
  <2>1. d \in Item /\ left \in Seq(Item)
    BY <1>2, <1>6
  <2>2. d.val \in Status
    BY <2>1 DEF Item, Status
  <2>3. /\ h \in Frame /\ h.do = "headers"
        /\ m \in Frame /\ m.do = "message" /\ m.val = d.val /\ m.next = 1
        /\ m.last = callbacks["message"]
    BY <2>2, LoopFrames DEF Kinds
  <2>4. top \in Frame /\ top.do = "chunk" /\ top.data = left
    BY <1>1, <2>1 DEF Frame, ChunkFrame
  <2>5. \/ /\ d.type = "message" /\ UNCHANGED response
           /\ \/ stack' = Append(rest, m) /\ ~completed
              \/ stack' = rest /\ (completed \/ closed)
        \/ /\ d.type = "trailers"
           /\ stack' = rest \/ (stack' = Append(rest, h) /\ ~completed)
           /\ IF responseHeaders = Undefined
                THEN responseHeaders' = d.val /\ UNCHANGED responseTrailers
                ELSE responseTrailers' = d.val /\ UNCHANGED responseHeaders
    BY <1>6 DEF ProcessItem, RawOnMessage, RawOnHeaders
  <2> HIDE DEF d, left, top, h, m
  <2>6. rest \in Seq(Frame) /\ Len(rest) = 1 /\ rest[1] = top
    BY <1>4, <2>4, Pushed
  <2> HIDE DEF rest
  <2>7. ASSUME NEW f \in Frame, stack' = Append(rest, f)
        PROVE  Len(stack') = 2 /\ stack'[1] = top /\ stack'[2] = f
    BY <2>6, <2>7, Pushed
  <2>8. CASE stack' = rest
    <3>1. Len(stack') = 1 /\ stack'[1] = top
      BY <2>6, <2>8
    <3>2. /\ LeftOf(stack') = left /\ ~MessageLoop' /\ Shape'
          /\ \A p \in 1..Len(stack') : stack'[p].do \in {"chunk", "headers", "message"}
      BY <2>4, <3>1 DEF LeftOf, MessageLoop, Shape
    <3>3. \/ d.type = "message" /\ UNCHANGED response /\ (completed \/ closed)
          \/ /\ d.type = "trailers"
             /\ IF responseHeaders = Undefined
                  THEN responseHeaders' = d.val /\ UNCHANGED responseTrailers
                  ELSE responseTrailers' = d.val /\ UNCHANGED responseHeaders
      BY <2>3, <2>5, <2>7, <2>8, <3>1
    <3> QED BY <1>1, <1>2, <1>3, <1>6, <3>2, <3>3, Zenon DEF d, left
  <2>9. CASE stack' = Append(rest, m) /\ ~completed /\ d.type = "message" /\ UNCHANGED response
    <3>1. Len(stack') = 2 /\ stack'[1] = top /\ stack'[2] = m
      BY <2>3, <2>7, <2>9
    <3>2. /\ LeftOf(stack') = left /\ MessageLoop' /\ Shape'
          /\ stack'[2].val = d.val /\ stack'[2].next = 1 /\ stack'[2].last = callbacks["message"]
          /\ \A p \in 1..Len(stack') : stack'[p].do \in {"chunk", "headers", "message"}
      BY <1>1, <2>3, <2>4, <2>9, <3>1 DEF LeftOf, MessageLoop, Shape
    <3> QED BY <1>1, <1>2, <1>3, <1>6, <2>9, <3>2, Zenon DEF d, left
  <2>10. CASE /\ stack' = Append(rest, h) /\ ~completed /\ d.type = "trailers"
              /\ IF responseHeaders = Undefined
                   THEN responseHeaders' = d.val /\ UNCHANGED responseTrailers
                   ELSE responseTrailers' = d.val /\ UNCHANGED responseHeaders
    <3>1. Len(stack') = 2 /\ stack'[1] = top /\ stack'[2] = h
      BY <2>3, <2>7, <2>10
    <3>2. /\ LeftOf(stack') = left /\ ~MessageLoop' /\ Shape'
          /\ \A p \in 1..Len(stack') : stack'[p].do \in {"chunk", "headers", "message"}
      BY <1>1, <2>3, <2>4, <2>10, <3>1 DEF LeftOf, MessageLoop, Shape
    <3> QED BY <1>1, <1>2, <1>3, <1>6, <2>10, <3>2, Zenon DEF d, left
  <2> QED BY <2>5, <2>8, <2>9, <2>10
<1> QED BY <1>5, <1>6 DEF ProcessItem, Pop

LEMMA ProcessItemSeq ==
  ASSUME ClientTypeOK, arrived \in Nat, SeqInv, ProcessItem, arrived' = arrived
  PROVE  SeqInv'
<1> DEFINE d == Head(Top.data)
           left == Tail(Top.data)
<1>1. /\ Top.data \in Seq(Item) /\ LeftOf(stack) = Top.data
      /\ ~MessageLoop /\ Shape' /\ heard'["message"] = heard["message"]
      /\ \/ LeftOf(stack') = <<>> /\ ~MessageLoop'
         \/ /\ Top.data # <<>> /\ d.type = "message" /\ LeftOf(stack') = left
            /\ MessageLoop' => stack'[2].val = d.val /\ stack'[2].next = 1
         \/ Top.data # <<>> /\ d.type = "trailers" /\ LeftOf(stack') = left /\ ~MessageLoop'
  BY ItemView
<1>2. /\ NumberedItems(Top.data, Taken) /\ Taken \in Nat
      /\ Taken = arrived - MessagesIn(Top.data)
      /\ MessagesIn(Top.data) \in Nat
  <2>1. MessagesIn(Top.data) \in Nat
    BY <1>1, MessagesLeft
  <2> QED BY <1>1, <2>1 DEF SeqInv, InOrder, Taken
<1>3. Top.data # <<>> =>
        /\ d.type # "trailers" => /\ d.val = Taken + 1
                                  /\ MessagesIn(left) = MessagesIn(Top.data) - 1
                                  /\ NumberedItems(left, Taken + 1)
        /\ d.type = "trailers" => MessagesIn(Top.data) = 0 /\ left = <<>>
  BY <1>1, <1>2, TailItems
<1>4. Taken' = arrived - MessagesIn(LeftOf(stack'))
  BY DEF Taken
<1> HIDE DEF d, left
<1>5. CASE LeftOf(stack') = <<>> /\ ~MessageLoop'
  <2>1. Taken' = arrived
    BY <1>4, <1>5, NothingLeft
  <2> QED BY <1>1, <1>2, <1>5, <2>1, NothingLeft, QuietOrder DEF SeqInv
<1>6. CASE Top.data # <<>> /\ d.type = "trailers" /\ LeftOf(stack') = left /\ ~MessageLoop'
  <2>1. LeftOf(stack') = <<>>
    BY <1>3, <1>6
  <2> QED BY <1>5, <1>6, <2>1
<1>7. CASE /\ Top.data # <<>> /\ d.type = "message" /\ LeftOf(stack') = left
           /\ MessageLoop' => stack'[2].val = d.val /\ stack'[2].next = 1
  <2>1. Taken' = Taken + 1 /\ NumberedItems(LeftOf(stack'), Taken') /\ d.val = Taken'
    BY <1>2, <1>3, <1>4, <1>7
  <2>2. CASE ~MessageLoop'
    BY <1>1, <1>2, <2>1, <2>2, QuietOrder DEF SeqInv
  <2>3. CASE MessageLoop'
    BY <1>1, <1>7, <2>1, <2>3, MessageStarts DEF SeqInv
  <2> QED BY <2>2, <2>3
<1> QED BY <1>1, <1>5, <1>6, <1>7

\* The running loop is replaced by one that is over the same callbacks.
LEMMA SameLoops ==
  ASSUME ClientTypeOK, Shape, stack # <<>>, Top.do \in Kinds,
         NEW f \in Frame, f.do = Top.do, f.val = Top.val,
         stack' = Append(Front(stack), f), UNCHANGED completed
  PROVE  /\ Shape' /\ LeftOf(stack') = LeftOf(stack)
         /\ MessageLoop <=> Top.do = "message"
         /\ MessageLoop' <=> MessageLoop
         /\ MessageLoop => Top = stack[2] /\ stack'[2] = f
         /\ Top = stack[Len(stack)] /\ Len(stack) \in Nat \ {0}
         /\ Len(stack') = Len(stack) /\ stack'[Len(stack)] = f
         /\ \A p \in 1..(Len(stack) - 1) : stack'[p] = stack[p]
<1>1. Top = stack[Len(stack)] /\ Len(stack) \in 1..2
  BY TopFrame DEF Shape
<1>2. /\ Len(stack') = Len(stack) /\ stack'[Len(stack)] = f
      /\ \A p \in 1..(Len(stack) - 1) : stack'[p] = stack[p]
  BY Replaced
<1>3. CASE Len(stack) = 1
  <2>1. stack[1].do \in {"headers", "end"} /\ stack'[1].do = stack[1].do
    BY <1>1, <1>2, <1>3 DEF Shape, Kinds
  <2> QED BY <1>1, <1>2, <1>3, <2>1 DEF Shape, LeftOf, MessageLoop
<1>4. CASE Len(stack) = 2
  <2>1. stack'[1] = stack[1] /\ stack'[2] = f /\ Top = stack[2]
    BY <1>1, <1>2, <1>4
  <2> QED BY <1>2, <1>4, <2>1 DEF Shape, LeftOf, MessageLoop
<1>5. /\ Len(stack) = 1 \/ Len(stack) = 2
      /\ Len(stack) \in Nat \ {0}
  BY <1>1
<1> QED BY <1>1, <1>2, <1>3, <1>4, <1>5, Zenon

LEMMA InvokeSeq ==
  ASSUME ClientTypeOK, SeqInv, InvokeCallback, arrived' = arrived
  PROVE  SeqInv'
<1>1. /\ stack # <<>> /\ Top.do \in Kinds /\ Top \in LoopFrame /\ FrameOK(Top)
      /\ Top.last <= MaxCallbacks[Top.do] /\ Top.next <= Top.last
      /\ UNCHANGED completed
  BY LastFrame DEF InvokeCallback, ClientRuns, FrameOK
<1> DEFINE top == [Top EXCEPT !.next = Top.next + 1, !.busy = TRUE]
<1>2. top \in Frame /\ top.do = Top.do /\ top.val = Top.val /\ top.next = Top.next + 1
  BY <1>1, NextOK DEF LoopFrame, FrameOK
<1>3. stack' = Append(Front(stack), top)
  BY DEF InvokeCallback
<1> HIDE DEF top
<1>4. /\ Shape' /\ LeftOf(stack') = LeftOf(stack)
      /\ MessageLoop <=> Top.do = "message"
      /\ MessageLoop' <=> MessageLoop
      /\ MessageLoop => Top = stack[2] /\ stack'[2] = top
  BY <1>1, <1>2, <1>3, SameLoops DEF SeqInv
<1>5. CASE Top.do # "message"
  <2>1. heard'["message"] = heard["message"]
    BY <1>5 DEF InvokeCallback, ClientTypeOK, Kinds
  <2> QED BY <1>4, <1>5, <2>1, SameOrder DEF SeqInv
<1>6. CASE Top.do = "message"
  <2>1. Top.next \in Callbacks("message")
    BY <1>1, <1>6, ClientAssumption DEF Callbacks, LoopFrame
  <2>2. Top.val = Taken
    BY <1>4, <1>6 DEF SeqInv, InOrder
  <2>3. heard'["message"] = [heard["message"] EXCEPT ![Top.next] =
                               Append(heard["message"][Top.next], Taken)]
    BY <1>6, <2>1, <2>2 DEF InvokeCallback, ClientTypeOK, Kinds
  <2> QED BY <1>2, <1>4, <1>6, <2>1, <2>3, MessageHeard DEF SeqInv
<1> QED BY <1>5, <1>6

LEMMA ReturnsSeq ==
  ASSUME ClientTypeOK, SeqInv, CallbackReturns, arrived' = arrived
  PROVE  SeqInv'
<1>1. stack # <<>> /\ Top \in LoopFrame /\ Top.do \in Kinds /\ UNCHANGED <<completed, heard>>
  BY LastFrame DEF CallbackReturns, Busy
<1> DEFINE top == [Top EXCEPT !.busy = FALSE]
<1>2. top \in Frame /\ top.do = Top.do /\ top.val = Top.val /\ top.next = Top.next
  BY <1>1 DEF Frame, LoopFrame
<1>3. stack' = Append(Front(stack), top)
  BY DEF CallbackReturns
<1> HIDE DEF top
<1>4. /\ Shape' /\ LeftOf(stack') = LeftOf(stack)
      /\ MessageLoop' <=> MessageLoop
      /\ MessageLoop => Top = stack[2] /\ stack'[2] = top
  BY <1>1, <1>2, <1>3, SameLoops DEF SeqInv
<1> QED BY <1>1, <1>2, <1>4, SameOrder DEF SeqInv

LEMMA LoopEndsSeq ==
  ASSUME ClientTypeOK, SeqInv, LoopEnds, arrived' = arrived
  PROVE  /\ SeqInv' /\ LeftOf(stack') = LeftOf(stack) /\ ~MessageLoop' /\ Taken' = Taken
         /\ MessageLoop <=> Top.do = "message"
         /\ MessageLoop => Top = stack[2]
         /\ Len(stack') = Len(stack) - 1 /\ \A p \in 1..(Len(stack) - 1) : stack'[p] = stack[p]
<1>1. /\ stack # <<>> /\ Top.do \in Kinds /\ stack' = Front(stack)
      /\ UNCHANGED <<completed, heard>>
  BY DEF LoopEnds, ClientRuns, Pop
<1>2. Top = stack[Len(stack)] /\ Len(stack) \in 1..2
  BY <1>1, TopFrame DEF SeqInv, Shape
<1>3. Len(stack') = Len(stack) - 1 /\ \A p \in 1..(Len(stack) - 1) : stack'[p] = stack[p]
  BY <1>1, Popped
<1>4. LeftOf(stack') = LeftOf(stack) /\ ~MessageLoop' /\ Shape'
  <2>1. CASE Len(stack) = 1
    <3>1. stack[1].do # "chunk"
      BY <1>1, <1>2, <2>1 DEF Kinds
    <3> QED BY <1>3, <2>1, <3>1 DEF LeftOf, MessageLoop, Shape
  <2>2. CASE Len(stack) = 2
    <3>1. Len(stack') = 1 /\ stack'[1] = stack[1] /\ stack[1].do \in {"chunk", "fail"}
      BY <1>3, <2>2 DEF SeqInv, Shape
    <3>2. LeftOf(stack') = LeftOf(stack) /\ ~MessageLoop'
      BY <2>2, <3>1 DEF LeftOf, MessageLoop
    <3>3. Shape'
      BY <3>1 DEF Shape
    <3> QED BY <3>2, <3>3
  <2> QED BY <1>2, <2>1, <2>2
<1>5. Taken' = Taken
  BY <1>4 DEF Taken
<1>6. Taken' \in Nat /\ Taken' >= Taken /\ NumberedItems(LeftOf(stack'), Taken')
  BY <1>4, <1>5 DEF SeqInv, InOrder
<1>7. SeqInv'
  BY <1>1, <1>4, <1>6, QuietOrder DEF SeqInv
<1>8. MessageLoop <=> Top.do = "message"
  BY <1>2 DEF SeqInv, Shape, MessageLoop
<1>9. MessageLoop => Top = stack[2]
  BY <1>2 DEF MessageLoop
<1> QED BY <1>3, <1>4, <1>5, <1>7, <1>8, <1>9

LEMMA FailSeq ==
  ASSUME ClientTypeOK, arrived \in Nat, SeqInv, FailAfterHeaders, arrived' = arrived
  PROVE  /\ SeqInv' /\ Still /\ LeftOf(stack) = <<>> /\ LeftOf(stack') = <<>>
         /\ Top = stack[1] /\ Len(stack) = 1
<1>1. /\ stack # <<>> /\ Top = stack[Len(stack)] /\ Top.do = "fail" /\ Top.code \in Status
      /\ Complete(Top.code, Front(stack)) /\ UNCHANGED heard
  BY TopFrame, LastFrame DEF FailAfterHeaders, ClientRuns, FailFrame, Status
<1>2. Len(stack) = 1
  BY <1>1, TopFrame DEF SeqInv, Shape
<1>3. Front(stack) \in Seq(Frame) /\ Len(Front(stack)) = 0
  BY <1>1, <1>2, Popped
<1>4. Shape' /\ LeftOf(stack') = <<>> /\ ~MessageLoop'
  BY <1>1, <1>3, CompleteView
<1>5. LeftOf(stack) = <<>> /\ ~MessageLoop
  BY <1>1, <1>2 DEF LeftOf, MessageLoop
<1>6. Taken' = Taken
  BY <1>4, <1>5 DEF Taken
<1>7. Taken' \in Nat /\ Taken' >= Taken /\ NumberedItems(LeftOf(stack'), Taken')
  BY <1>4, <1>6, NothingLeft DEF SeqInv, InOrder
<1> QED BY <1>1, <1>2, <1>4, <1>5, <1>6, <1>7, QuietOrder DEF SeqInv, Still

LEMMA ApplicationSeq ==
  ASSUME SeqInv, Application
  PROVE  SeqInv'
  BY UnchangedSeq DEF Application, Register, Start, Close, Send, FinishSend, transportVars

LEMMA InitSeq == Init => SeqInv
<1> SUFFICES ASSUME Init PROVE SeqInv
  OBVIOUS
<1>1. stack = <<>> /\ arrived = 0 /\ completed = FALSE
  BY DEF Init, ClientInit
<1>2. ClientTypeOK
  BY InitType DEF TypeOK
<1>3. LeftOf(stack) = <<>> /\ Taken = 0 /\ ~MessageLoop /\ Len(stack) = 0
  BY <1>1, <1>2, AllTaken
<1>4. Shape
  BY <1>3 DEF Shape
<1>5. \A i \in Callbacks("message") : Heard(i) = <<>>
  BY DEF Init, ClientInit, Callbacks, Kinds, Heard
<1>6. InOrder
  BY <1>3, <1>5, NothingLeft, EmptySeq DEF InOrder
<1> QED BY <1>4, <1>6 DEF SeqInv

LEMMA NextSeq == ~Reentrant /\ TypeOK /\ SeqInv /\ [Next]_vars => SeqInv'
<1> SUFFICES ASSUME ~Reentrant, TypeOK, SeqInv, [Next]_vars PROVE SeqInv'
  OBVIOUS
<1>1. ClientTypeOK /\ arrived \in Nat
  BY TransportAssumption DEF TypeOK
<1>2. CASE Application
  BY <1>2, ApplicationSeq
<1>3. ASSUME NEW h \in HeaderStatuses, NEW s \in HttpStatuses, TransportHeaders(h, s)
      PROVE  SeqInv'
  BY <1>1, <1>3, TransportAssumption, HeadersSeq DEF TransportHeaders
<1>4. ASSUME NEW run \in MessageRuns, NEW trailers \in Trailers, TransportChunk(run, trailers)
      PROVE  SeqInv'
  <2> DEFINE data == [i \in DOMAIN run |-> [type |-> run[i], val |-> arrived + i]] \o trailers
  <2>1. data \in Seq(Item)
    BY <1>1, ChunkIsItems
  <2>2. MessagesIn(data) = Len(run) /\ NumberedItems(data, arrived)
    BY <1>1, ChunkIsNumbered
  <2>3. OnTransportChunk(data) /\ arrived' = arrived + Len(run)
    BY <1>4 DEF TransportChunk
  <2> HIDE DEF data
  <2> QED BY <1>1, <2>1, <2>2, <2>3, ChunkSeq
<1>5. CASE TransportGarbage
  BY <1>1, <1>5, CompleteSeq DEF TransportGarbage
<1>6. CASE TransportEnd
  BY <1>1, <1>6, CompleteSeq DEF TransportEnd
<1>7. CASE Handler
  BY <1>1, <1>7, ProcessItemSeq, InvokeSeq, LoopEndsSeq, FailSeq
     DEF Handler, HandlerStep, transportVars
<1>8. CASE Return
  BY <1>1, <1>8, ReturnsSeq DEF Return, transportVars
<1>9. CASE UNCHANGED vars
  BY <1>9, UnchangedSeq DEF vars, clientVars, transportVars
<1> QED BY <1>2, <1>3, <1>4, <1>5, <1>6, <1>7, <1>8, <1>9 DEF Next

CallInv == TypeOK /\ EndInv /\ SeqInv

LEMMA CallInvHolds == ASSUME ~Reentrant PROVE Spec => []CallInv
<1>1. Init => CallInv
  BY InitType, InitEnd, InitSeq DEF CallInv
<1>2. CallInv /\ [Next]_vars => CallInv'
  BY NextType, NextEnd, NextSeq DEF CallInv
<1> QED BY <1>1, <1>2, PTL DEF Spec

\* A loop calls its next callback, or the callback returns.
LEMMA LoopGoesOn ==
  ASSUME CallInv, InvokeCallback \/ CallbackReturns
  PROVE  /\ stack # <<>> /\ Top = stack[Len(stack)] /\ Top.do \in Kinds
         /\ Len(stack) \in Nat \ {0} /\ Len(stack') = Len(stack)
         /\ LeftOf(stack') = LeftOf(stack)
         /\ stack'[Len(stack)].do = Top.do /\ stack'[Len(stack)].val = Top.val
         /\ \A p \in 1..(Len(stack) - 1) : stack'[p] = stack[p]
         /\ UNCHANGED <<flags, completed, response, callbacks>>
<1>1. ClientTypeOK /\ Shape
  BY DEF CallInv, TypeOK, SeqInv
<1>2. /\ stack # <<>> /\ Top \in LoopFrame /\ Top.do \in Kinds /\ FrameOK(Top)
      /\ UNCHANGED <<flags, completed, response, callbacks>>
  BY <1>1, LastFrame DEF InvokeCallback, CallbackReturns, ClientRuns, Busy, FrameOK
<1>3. PICK f \in Frame : f.do = Top.do /\ f.val = Top.val /\ stack' = Append(Front(stack), f)
  <2>1. CASE InvokeCallback
    <3> DEFINE top == [Top EXCEPT !.next = Top.next + 1, !.busy = TRUE]
    <3>1. top \in Frame /\ top.do = Top.do /\ top.val = Top.val
      BY <1>2, NextOK DEF LoopFrame, FrameOK
    <3>2. stack' = Append(Front(stack), top)
      BY <2>1 DEF InvokeCallback
    <3> QED BY <3>1, <3>2
  <2>2. CASE CallbackReturns
    <3> DEFINE top == [Top EXCEPT !.busy = FALSE]
    <3>1. top \in Frame /\ top.do = Top.do /\ top.val = Top.val
      BY <1>2 DEF Frame, LoopFrame
    <3>2. stack' = Append(Front(stack), top)
      BY <2>2 DEF CallbackReturns
    <3> QED BY <3>1, <3>2
  <2> QED BY <2>1, <2>2
<1>4. /\ LeftOf(stack') = LeftOf(stack) /\ Top = stack[Len(stack)]
      /\ Len(stack) \in Nat \ {0} /\ Len(stack') = Len(stack) /\ stack'[Len(stack)] = f
      /\ \A p \in 1..(Len(stack) - 1) : stack'[p] = stack[p]
  BY <1>1, <1>2, <1>3, SameLoops
<1> QED BY <1>2, <1>3, <1>4

-----------------------------------------------------------------------------
(* Nothing after the end *)

LEMMA OnlyLoopsTell ==
  ASSUME [Next]_vars
  PROVE  UNCHANGED heard \/ (InvokeCallback /\ UNCHANGED <<transportVars, early>>)
<1>1. Application => UNCHANGED heard
  BY DEF Application, Register, Start, Close, Send, FinishSend
<1>2. ASSUME NEW h, NEW s, TransportHeaders(h, s) PROVE UNCHANGED heard
  BY <1>2 DEF TransportHeaders, OnTransportHeaders, clientVars
<1>3. ASSUME NEW run, NEW trailers, TransportChunk(run, trailers) PROVE UNCHANGED heard
  BY <1>3 DEF TransportChunk, OnTransportChunk, clientVars
<1>4. TransportGarbage \/ TransportEnd => UNCHANGED heard
  BY DEF TransportGarbage, TransportEnd, OnUnparsableChunk, OnTransportEnd, clientVars
<1>5. ProcessItem \/ LoopEnds \/ FailAfterHeaders => UNCHANGED heard
  BY DEF ProcessItem, LoopEnds, FailAfterHeaders
<1>6. Return => UNCHANGED heard
  BY DEF Return, CallbackReturns
<1>7. UNCHANGED vars => UNCHANGED heard
  BY DEF vars, clientVars
<1> QED BY <1>1, <1>2, <1>3, <1>4, <1>5, <1>6, <1>7 DEF Next, Handler, HandlerStep

LEMMA RunningLoop ==
  ASSUME CallInv, InvokeCallback
  PROVE  /\ Top.do \in Kinds
         /\ Top.do \in {"headers", "message"} => ~completed
         /\ Top.do = "message" => MessageLoop /\ Top = stack[2] /\ Top.next \in Callbacks("message")
         /\ \A k \in Kinds \ {Top.do} : heard'[k] = heard[k]
<1>1. ClientTypeOK
  BY DEF CallInv, TypeOK
<1>2. /\ stack # <<>> /\ Top \in LoopFrame /\ Top.do \in Kinds
      /\ Top.last <= MaxCallbacks[Top.do] /\ Top.next <= Top.last
  BY <1>1, LastFrame DEF InvokeCallback, ClientRuns
<1>3. Top = stack[Len(stack)] /\ Len(stack) \in 1..2
  BY <1>1, <1>2, TopFrame DEF CallInv, SeqInv, Shape
<1>4. Top.do \in {"headers", "message"} => ~completed
  BY <1>3 DEF CallInv, SeqInv, Shape
<1>5. ASSUME Top.do = "message"
      PROVE  MessageLoop /\ Top = stack[2] /\ Top.next \in Callbacks("message")
  <2>1. Len(stack) = 2
    BY <1>3, <1>5 DEF CallInv, SeqInv, Shape
  <2> QED BY <1>2, <1>3, <1>5, <2>1, ClientAssumption
          DEF MessageLoop, Callbacks, LoopFrame
<1>6. \A k \in Kinds \ {Top.do} : heard'[k] = heard[k]
  BY <1>1 DEF InvokeCallback, ClientTypeOK
<1> QED BY <1>2, <1>4, <1>5, <1>6

LEMMA ToldIsCompleted ==
  ASSUME EndInv, NEW i \in Callbacks("end"), Told(i) PROVE completed
  BY DEF EndInv, EndLoopOnce, Told

\* Once an end callback has been called no loop over headers or message
\* callbacks is unfinished and none starts: rawOnHeaders and rawOnMessage look
\* at completed, and a loop that had started before would be under the end
\* loop, where only a re-entrant transport can put it.
THEOREM NothingAfterEndHolds == ASSUME ~Reentrant PROVE Spec => NothingAfterEnd
<1>1. ASSUME CallInv, [Next]_vars, NEW i \in Callbacks("end"), Told(i)
      PROVE  heard'["headers"] = heard["headers"] /\ heard'["message"] = heard["message"]
  <2>1. CASE UNCHANGED heard
    BY <2>1
  <2>2. CASE InvokeCallback
    <3>1. Top.do \in Kinds \ {"headers", "message"}
      BY <1>1, <2>2, RunningLoop, ToldIsCompleted DEF CallInv
    <3> QED BY <1>1, <2>2, <3>1, RunningLoop DEF Kinds
  <2> QED BY <1>1, <2>1, <2>2, OnlyLoopsTell
<1>2. CallInv /\ [Next]_vars =>
        [ (\E i \in Callbacks("end") : Told(i)) =>
            heard'["headers"] = heard["headers"] /\ heard'["message"] = heard["message"] ]_vars
  BY <1>1
<1> QED BY <1>2, CallInvHolds, PTL DEF Spec, NothingAfterEnd

-----------------------------------------------------------------------------
(* The call implements CallLifecycle.  Phase and Code are what the          *)
(* refinement puts for its variables phase and code.                        *)

Phase == IF closed THEN "closed" ELSE IF ToldListeners # {} THEN "ended" ELSE "open"

Code == IF ToldListeners = {} THEN Undefined
        ELSE heard["end"][CHOOSE i \in ToldListeners : TRUE][1]

LEMMA InitLifecycle == Init => Lifecycle!Init
<1> SUFFICES ASSUME Init PROVE Lifecycle!Init
  OBVIOUS
<1>1. ToldListeners = {}
  BY DEF Init, ClientInit, ToldListeners, Told, Callbacks, Kinds
<1>2. heard["message"] = [l \in Callbacks("message") |-> <<>>]
  BY DEF Init, ClientInit, Callbacks, Kinds
<1>3. closed = FALSE
  BY DEF Init, ClientInit
<1> QED BY <1>1, <1>2, <1>3 DEF Lifecycle!Init

\* The application closes the call.
LEMMA CloseLifecycle == ASSUME Close PROVE Lifecycle!Close
<1>1. ToldListeners' = ToldListeners /\ heard' = heard /\ ~closed /\ closed' = TRUE
  BY DEF Close, ToldListeners, Told
<1> QED BY <1>1 DEF Lifecycle!Close

LEMMA SameLifecycle ==
  ASSUME heard'["message"] = heard["message"], heard'["end"] = heard["end"], closed' = closed
  PROVE  UNCHANGED Lifecycle!vars
<1>1. ToldListeners' = ToldListeners
  BY DEF ToldListeners, Told
<1> QED BY <1>1 DEF Lifecycle!vars

\* A message callback hears a message.
LEMMA DeliverLifecycle ==
  ASSUME CallInv, InvokeCallback, Top.do = "message"
  PROVE  \E l \in Callbacks("message"), m \in 1..MaxMessages : Lifecycle!Deliver(l, m)
<1> DEFINE l == Top.next
<1>1. MessageLoop /\ Top = stack[2] /\ l \in Callbacks("message") /\ ~completed
  BY RunningLoop
<1>2. Top.val = Taken /\ Taken \in 1..MaxMessages
  <2>1. Top.val = Taken /\ Taken \in Nat /\ Taken > 0
    BY <1>1 DEF CallInv, SeqInv, InOrder
  <2>2. arrived \in 0..MaxMessages /\ MaxMessages \in Nat
    BY TransportAssumption DEF CallInv, TypeOK
  <2>3. MessagesIn(LeftOf(stack)) \in Nat
    <3>1. LeftOf(stack) \in Seq(Item)
      <4>1. CASE Len(stack) > 0 /\ stack[1].do = "chunk"
        <5>1. stack[1] \in Frame
          BY <4>1, ElementOfSeq, Empty DEF CallInv, TypeOK, ClientTypeOK
        <5>2. stack[1] \in ChunkFrame
          BY <4>1, <5>1 DEF Frame, LoopFrame, ChunkFrame, FailFrame, Kinds
        <5> QED BY <4>1, <5>2 DEF LeftOf, ChunkFrame
      <4>2. CASE ~(Len(stack) > 0 /\ stack[1].do = "chunk")
        BY <4>2, EmptySeq DEF LeftOf
      <4> QED BY <4>1, <4>2
    <3> QED BY <3>1, MessagesLeft
  <2> QED BY <2>1, <2>2, <2>3 DEF Taken
<1>3. Lifecycle!Follows(Taken, heard["message"][l])
  <2>1. Upto(l) = Taken - 1
    BY <1>1, <1>2, ClientAssumption DEF Upto, Callbacks
  <2>2. Heard(l) \in Seq(Nat) /\ (Heard(l) # <<>> => Heard(l)[Len(Heard(l))] <= Taken - 1)
    BY <1>1, <2>1 DEF CallInv, SeqInv, InOrder
  <2>3. Heard(l) # <<>> => Heard(l)[Len(Heard(l))] \in Nat
    BY <2>2, EmptySeq, LenProperties, ElementOfSeq
  <2>4. Heard(l) = <<>> \/ Heard(l)[Len(Heard(l))] < Taken
    BY <1>2, <2>2, <2>3
  <2> QED BY <2>4 DEF Lifecycle!Follows, Heard
<1>4. heard'["message"] = [heard["message"] EXCEPT ![l] = Append(heard["message"][l], Taken)]
  BY <1>1, <1>2 DEF InvokeCallback, CallInv, TypeOK, ClientTypeOK, Kinds
<1>5. heard'["end"] = heard["end"]
  BY RunningLoop DEF Kinds
<1>6. ToldListeners = {} /\ ToldListeners' = {}
  BY <1>1, <1>5, ToldIsCompleted DEF ToldListeners, Told, CallInv
<1>7. ~closed /\ ~closed'
  BY DEF InvokeCallback, Skips, flags
<1>8. Lifecycle!Deliver(l, Taken)
  BY <1>3, <1>4, <1>6, <1>7 DEF Lifecycle!Deliver
<1> QED BY <1>1, <1>2, <1>8

\* An end callback hears the code.
LEMMA TellLifecycle ==
  ASSUME CallInv, InvokeCallback, Top.do = "end"
  PROVE  \E e \in Callbacks("end") : Lifecycle!Tell(e)
<1> DEFINE e == Top.next
           told == CHOOSE i \in ToldListeners : TRUE
<1>1. /\ e \in Callbacks("end") /\ Top.val \in Status
      /\ heard["end"][e] = <<>> /\ heard'["end"][e] = <<Top.val>>
      /\ \A i \in Callbacks("end") :
           /\ i # e => heard'["end"][i] = heard["end"][i]
           /\ heard["end"][i] = <<>> \/ heard["end"][i] = <<Top.val>>
  BY EndHeard DEF CallInv, TypeOK
<1>2. e \notin ToldListeners /\ ToldListeners' = ToldListeners \cup {e}
  <2>1. <<Top.val>> # <<>>
    OBVIOUS
  <2>2. \A i \in Callbacks("end") : heard'["end"][i] # <<>> <=> (heard["end"][i] # <<>> \/ i = e)
    BY <1>1, <2>1, Zenon
  <2> QED BY <1>1, <2>2 DEF ToldListeners, Told, Callbacks
<1>3. Code \in {Undefined, Top.val}
  <2>1. CASE ToldListeners = {}
    BY <2>1 DEF Code
  <2>2. CASE ToldListeners # {}
    <3>1. told \in ToldListeners
      BY <2>2
    <3>2. heard["end"][told] = <<Top.val>>
      BY <1>1, <3>1 DEF ToldListeners, Told
    <3> QED BY <2>2, <3>2 DEF Code
  <2> QED BY <2>1, <2>2
<1>4. Code' = Top.val
  <2>1. ToldListeners' # {}
    BY <1>2
  <2>2. told' \in ToldListeners'
    BY <2>1
  <2>3. heard'["end"][told'] = <<Top.val>>
    BY <1>1, <2>2 DEF ToldListeners, Told
  <2> QED BY <2>1, <2>3 DEF Code
<1>5. ~closed /\ ~closed'
  BY DEF InvokeCallback, Skips, flags
<1>6. Phase \in {"open", "ended"} /\ Phase' = "ended"
  BY <1>2, <1>5 DEF Phase
<1>7. heard'["message"] = heard["message"]
  BY RunningLoop DEF Kinds
<1>8. Lifecycle!Tell(e)
  BY <1>1, <1>2, <1>3, <1>4, <1>6, <1>7 DEF Lifecycle!Tell, Phase, Code
<1> QED BY <1>1, <1>8

LEMMA NextLifecycle ==
  ASSUME CallInv, [Next]_vars
  PROVE  [Lifecycle!Next]_(Lifecycle!vars)
<1>1. CASE InvokeCallback
  <2>1. UNCHANGED closed
    BY <1>1 DEF InvokeCallback, flags
  <2>2. CASE Top.do = "headers"
    BY <1>1, <2>1, <2>2, RunningLoop, SameLifecycle DEF Kinds
  <2> QED BY <1>1, <2>2, RunningLoop, DeliverLifecycle, TellLifecycle DEF Lifecycle!Next, Kinds
<1>2. CASE Close
  BY <1>2, CloseLifecycle DEF Lifecycle!Next
<1>3. CASE UNCHANGED <<heard, closed>>
  BY <1>3, SameLifecycle
<1>4. InvokeCallback \/ Close \/ UNCHANGED <<heard, closed>>
  <2>1. Application => Close \/ UNCHANGED <<heard, closed>>
    BY DEF Application, Register, Start, Send, FinishSend, flags
  <2>2. ASSUME NEW h, NEW s, TransportHeaders(h, s) PROVE UNCHANGED <<heard, closed>>
    BY <2>2 DEF TransportHeaders, OnTransportHeaders, clientVars, flags
  <2>3. ASSUME NEW run, NEW trailers, TransportChunk(run, trailers)
        PROVE  UNCHANGED <<heard, closed>>
    BY <2>3 DEF TransportChunk, OnTransportChunk, clientVars, flags
  <2>4. TransportGarbage \/ TransportEnd => UNCHANGED <<heard, closed>>
    BY DEF TransportGarbage, TransportEnd, OnUnparsableChunk, OnTransportEnd, clientVars, flags
  <2>5. ProcessItem \/ LoopEnds \/ FailAfterHeaders \/ Return => UNCHANGED <<heard, closed>>
    BY DEF ProcessItem, LoopEnds, FailAfterHeaders, Return, CallbackReturns, flags
  <2>6. UNCHANGED vars => UNCHANGED <<heard, closed>>
    BY DEF vars, clientVars, flags
  <2> QED BY <2>1, <2>2, <2>3, <2>4, <2>5, <2>6 DEF Next, Handler, HandlerStep
<1> QED BY <1>1, <1>2, <1>3, <1>4

\* Over any transport that does not nest its upcalls, each behaviour of the call
\* is one of CallLifecycle: the message callbacks hear messages in order, the end
\* callbacks one code, each once and after the messages, and after close nobody
\* hears anything.
THEOREM KeepsLifecycleHolds == ASSUME ~Reentrant PROVE Spec => KeepsLifecycle
<1>1. Init => Lifecycle!Init
  BY InitLifecycle
<1>2. CallInv /\ [Next]_vars => [Lifecycle!Next]_(Lifecycle!vars)
  BY NextLifecycle
<1> QED BY <1>1, <1>2, CallInvHolds, PTL DEF Spec, KeepsLifecycle, Lifecycle!Spec

=============================================================================
