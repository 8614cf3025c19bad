--------------------------- MODULE UnaryCall_proofs ---------------------------
(***************************************************************************)
(* Proofs about unary over each HTTP transport and over the fake transport: *)
(* that every one of them is a transport in the sense of AnyTransportCall,  *)
(* with it what is proved there of any transport, and that what unary has   *)
(* been told of the headers is what the headers said.                       *)
(***************************************************************************)
EXTENDS UnaryCall, SequenceTheorems, FiniteSetTheorems, TLAPS

\* The theorems about a call, over the transport that unary has chosen.
Call == INSTANCE AnyTransportCall_proofs WITH
  HeadersFirst <- FALSE,
  MaxHeaders <- 2,
  MaxChunks <- MaxBody + 1,
  MaxMessages <- MaxBody,
  HeaderStatuses <- SaidInHeaders,
  TrailerStatuses <- SaidInTrailers,
  HttpStatuses <- HttpCodes,
  BadMessages <- SomeBad,
  Unparsable <- FALSE,
  Sends <- TRUE,
  headersSeen <- seen.headers,
  chunksSeen <- seen.chunks,
  transportEnded <- seen.ended,
  arrived <- MessagesHanded,
  lastStatus <- StatusHanded,
  early <- callbacks

-----------------------------------------------------------------------------
(* The inductive invariant *)

\* The variables of the transport have their types.
Upcall ==
  [do : {"headers"}, status : SaidInHeaders, http : HttpCodes]
    \cup [do : {"chunk"}, upto : Nat] \cup [do : {"end"}]

UpTypes ==
  /\ kind \in TransportKinds /\ script \in Scripts /\ body \in Bodies
  /\ IsBody(received) /\ passed \in 0..Len(received)
  /\ seen \in [headers : 0..2, last : Status \cup {Undefined}, chunks : 0 .. MaxBody + 1,
               ended : BOOLEAN]
  /\ answer \in Responses \cup {NoResponse}
  /\ wire \in {"idle", "opened", "sent", "open", "complete", "broken", "aborted"}
  /\ told \in {"nothing", "headers", "error", "end"}
  /\ await \in {"none", "response", "pump", "read", "catch", "caught"}
  /\ upcalls \in Seq(Upcall)
  /\ triggered \in 0..3
  /\ seen.last \in SaidInHeaders \cup {Undefined}

\* What has arrived is the beginning of what the server sends; the fake transport
\* has no server.
Arrives ==
  /\ kind = "fake" => wire = "idle"
  /\ kind # "fake" =>
       /\ Len(received) <= Len(body)
       /\ \A i \in 1..Len(received) : received[i] = body[i]
       /\ wire \in {"sent", "open"} => sentFirstMessage
       /\ ~sentFirstMessage \/ wire = "sent" => Len(received) = 0
       /\ wire = "open" => Len(received) < Len(body)

\* unary registers its callbacks in order, all of them before start, and closes
\* only after it.
Attached ==
  /\ callbacks \in [Kinds -> {0, 1}]
  /\ callbacks["message"] = 1 => callbacks["headers"] = 1
  /\ callbacks["end"] = 1 => callbacks["message"] = 1
  /\ started => callbacks["end"] = 1
  /\ closed => started

Nothing == seen.headers = 0 /\ seen.chunks = 0 /\ ~seen.ended /\ passed = 0

\* Each chunk but those of React Native moves on.
ChunksMove ==
  /\ seen.chunks = 0 => passed = 0
  /\ kind # "rn" => seen.chunks <= passed

XhrAndNode ==
  kind \in {"xhr", "node"} =>
    /\ told = "nothing" => Nothing
    /\ told = "headers" => ~seen.ended

FetchWaits ==
  kind = "fetch" =>
    /\ ~sentFirstMessage => await = "none"
    /\ ~sentFirstMessage \/ await = "response" => Nothing
    /\ await \in {"pump", "read", "catch"} => ~seen.ended

\* React Native detaches the headers first and one chunk; a chunk behind an end
\* is empty.
Detached ==
  kind = "rn" =>
    /\ \A p \in 1..Len(upcalls) :
         /\ upcalls[p].do = "headers" => p = 1 /\ Nothing
         /\ upcalls[p].do = "chunk" =>
              /\ seen.chunks = 0 /\ upcalls[p].upto <= Len(received)
              /\ seen.ended => upcalls[p].upto = 0
         /\ \A q \in 1..(p - 1) : upcalls[p].do = "chunk" =>
              /\ upcalls[q].do # "chunk"
              /\ upcalls[q].do = "end" => upcalls[p].upto = 0
    /\ ~closed => wire # "aborted"
    /\ wire # "aborted" =>
         /\ told = "nothing" => upcalls = <<>> /\ Nothing
         /\ told = "headers" =>
              /\ ~seen.ended /\ seen.chunks = 0
              /\ \A p \in 1..Len(upcalls) : upcalls[p].do = "headers"
         /\ told = "error" =>
              /\ seen.chunks = 0
              /\ \A p \in 1..Len(upcalls) : upcalls[p].do # "chunk"

\* The upcalls of a script: its headers, its chunks one by one, and the end.
ScriptHeaders == IF HeadersSent /\ ~MessagesSent THEN 2 ELSE 1
ScriptChunks == IF MessagesSent THEN script.messages + 1 ELSE 0
ScriptUpcalls == ScriptHeaders + ScriptChunks + 1

ScriptUpcall(i) ==
  IF i = 1 THEN HeadersCall(NoStatus, IF HeadersSent THEN 200 ELSE script.preHeadersErrorCode)
  ELSE IF i <= ScriptHeaders THEN HeadersCall(script.preMessagesError, 200)
  ELSE IF i <= ScriptHeaders + ScriptChunks THEN ChunkCall(i - ScriptHeaders)
  ELSE EndCall

Made == seen.headers + seen.chunks + IF seen.ended THEN 1 ELSE 0

\* How many of them have been triggered.
Triggered ==
  IF script.autoTrigger THEN (IF finishedSending THEN ScriptUpcalls ELSE 0)
  ELSE CASE triggered = 0 -> 0
         [] triggered = 1 -> IF HeadersSent THEN 1 ELSE 2
         [] triggered = 2 -> IF MessagesSent THEN script.messages + 1 ELSE 3
         [] OTHER -> ScriptUpcalls

Scripted ==
  kind = "fake" =>
    /\ received = ScriptedBody
    /\ seen.headers <= ScriptHeaders /\ seen.chunks <= ScriptChunks
    /\ seen.chunks > 0 => seen.headers = ScriptHeaders
    /\ seen.ended => seen.headers = ScriptHeaders /\ seen.chunks = ScriptChunks
    /\ passed = seen.chunks
    /\ Made + Len(upcalls) = Triggered
    /\ \A p \in 1..Len(upcalls) : upcalls[p] = ScriptUpcall(Made + p)
    /\ ~finishedSending => triggered = 0
    /\ triggered = 2 => HeadersSent
    /\ triggered = 3 => MessagesSent

TransportInv ==
  /\ UpTypes /\ Arrives /\ Attached /\ ChunksMove
  /\ XhrAndNode /\ FetchWaits /\ Detached /\ Scripted
  /\ returned => finishedSending

-----------------------------------------------------------------------------
(* Constants *)

LEMMA SaidIsStatus ==
  /\ SaidInHeaders \subseteq Status /\ SaidInTrailers \subseteq Status /\ HttpCodes \subseteq Nat
  /\ NoStatus \in SaidInHeaders /\ 200 \in HttpCodes
  /\ \A r \in Responses : r.status \in SaidInHeaders /\ r.http \in HttpCodes
  /\ \A s \in Scripts : /\ s.preMessagesError # Null => s.preMessagesError \in SaidInHeaders
                        /\ s.preHeadersErrorCode # Null => s.preHeadersErrorCode \in HttpCodes
<1>1. SaidInHeaders \subseteq Status
  BY UnaryAssumption DEF SaidInHeaders, IsScript, Status
<1>2. SaidInTrailers \subseteq Status
  <2>1. \A b \in Bodies : b # <<>> /\ b[Len(b)].type = "trailers" => b[Len(b)].val \in Status
    <3> SUFFICES ASSUME NEW b \in Bodies, b # <<>>, b[Len(b)].type = "trailers"
                 PROVE  b[Len(b)].val \in Status
      OBVIOUS
    <3>1. b \in Seq(Item)
      BY UnaryAssumption DEF IsBody
    <3>2. Len(b) \in 1..Len(b)
      BY <3>1, EmptySeq, LenProperties
    <3>3. b[Len(b)] \in Item
      BY <3>1, <3>2, ElementOfSeq
    <3> QED BY <3>3 DEF Item
  <2> QED BY <2>1, UnaryAssumption DEF SaidInTrailers, IsScript, Status, OK
<1>3. HttpCodes \subseteq Nat
  BY UnaryAssumption DEF HttpCodes, IsScript
<1> QED BY <1>1, <1>2, <1>3 DEF SaidInHeaders, HttpCodes

\* What AnyTransportCall assumes of its constants.
LEMMA TransportConstants ==
  /\ FALSE \in BOOLEAN
  /\ 2 \in Nat /\ MaxBody + 1 \in Nat /\ MaxBody \in Nat
  /\ SaidInHeaders \cup SaidInTrailers \subseteq Status
  /\ HttpCodes \subseteq Nat
  /\ SomeBad \in BOOLEAN /\ FALSE \in BOOLEAN /\ TRUE \in BOOLEAN
  BY SaidIsStatus, UnaryAssumption DEF SomeBad

-----------------------------------------------------------------------------
(* The call object of the two specifications is the same. *)

LEMMA SameInit == ClientInit <=> Call!ClientInit
  BY Zenon DEF ClientInit, Kinds,
               Call!ClientInit, Call!Kinds

LEMMA SameRegister == ASSUME NEW k PROVE Register(k) <=> Call!Register(k)
  BY Zenon DEF Register, ApplicationRuns, Busy, Top, Last, Kinds, flags,
               response,
               Call!Register, Call!ApplicationRuns, Call!Busy, Call!Top,
               Call!Last, Call!Kinds, Call!flags, Call!response

LEMMA SameStart == Start <=> Call!Start
  BY Zenon DEF Start, ApplicationRuns, Busy, Top, Last, Kinds, response,
               Call!Start, Call!ApplicationRuns, Call!Busy, Call!Top,
               Call!Last, Call!Kinds, Call!response

LEMMA SameSend == Send <=> Call!Send
  BY Zenon DEF Send, ApplicationRuns, Busy, Top, Last, Kinds, response,
               Call!Send, Call!ApplicationRuns, Call!Busy, Call!Top,
               Call!Last, Call!Kinds, Call!response

LEMMA SameFinishSend == FinishSend <=> Call!FinishSend
  BY Zenon DEF FinishSend, ApplicationRuns, Busy, Top, Last, Kinds, response,
               Call!FinishSend, Call!ApplicationRuns, Call!Busy, Call!Top,
               Call!Last, Call!Kinds, Call!response

LEMMA SameClose == Close <=> Call!Close
  BY Zenon DEF Close, ApplicationRuns, Busy, Top, Last, Kinds, response,
               Call!Close, Call!ApplicationRuns, Call!Busy, Call!Top,
               Call!Last, Call!Kinds, Call!response

LEMMA SameHeaders == ASSUME NEW h, NEW s PROVE OnTransportHeaders(h, s) <=> Call!OnTransportHeaders(h, s)
  BY Zenon DEF OnTransportHeaders, TransportRuns, Busy, Top, Last, Kinds,
               clientVars, flags, response, HeaderCode, HttpStatusToCode,
               RawOnHeaders, Loop, OK,
               Call!OnTransportHeaders, Call!TransportRuns, Call!Busy,
               Call!Top, Call!Last, Call!Kinds, Call!clientVars, Call!flags,
               Call!response, Call!HeaderCode, Call!HttpStatusToCode,
               Call!RawOnHeaders, Call!Loop, Call!OK

LEMMA SameChunk == ASSUME NEW data PROVE OnTransportChunk(data) <=> Call!OnTransportChunk(data)
  BY Zenon DEF OnTransportChunk, TransportRuns, Busy, Top, Last, Kinds,
               clientVars, flags, response,
               Call!OnTransportChunk, Call!TransportRuns, Call!Busy, Call!Top,
               Call!Last, Call!Kinds, Call!clientVars, Call!flags,
               Call!response

LEMMA SameEnd == OnTransportEnd <=> Call!OnTransportEnd
  BY Zenon DEF OnTransportEnd, TransportRuns, Busy, Top, Last, Kinds,
               clientVars, flags, response, EndCode, Internal, Unknown,
               Complete, Loop,
               Call!OnTransportEnd, Call!TransportRuns, Call!Busy, Call!Top,
               Call!Last, Call!Kinds, Call!clientVars, Call!flags,
               Call!response, Call!EndCode, Call!Internal, Call!Unknown,
               Call!Complete, Call!Loop

LEMMA SameProcessItem == ProcessItem <=> Call!ProcessItem
  BY Zenon DEF ProcessItem, ClientRuns, Busy, Top, Last, Kinds, Pop, Front,
               RawOnMessage, RawOnHeaders, Loop, flags, response,
               Call!ProcessItem, Call!ClientRuns, Call!Busy, Call!Top,
               Call!Last, Call!Kinds, Call!Pop, Call!Front, Call!RawOnMessage,
               Call!RawOnHeaders, Call!Loop, Call!flags, Call!response

LEMMA SameInvoke == InvokeCallback <=> Call!InvokeCallback
  BY Zenon DEF InvokeCallback, ClientRuns, Busy, Top, Last, Kinds, Front,
               Skips, flags, response,
               Call!InvokeCallback, Call!ClientRuns, Call!Busy, Call!Top,
               Call!Last, Call!Kinds, Call!Front, Call!Skips, Call!flags,
               Call!response

LEMMA SameReturns == CallbackReturns <=> Call!CallbackReturns
  BY Zenon DEF CallbackReturns, Busy, Top, Last, Kinds, Front, flags,
               response,
               Call!CallbackReturns, Call!Busy, Call!Top, Call!Last,
               Call!Kinds, Call!Front, Call!flags, Call!response

LEMMA SameLoopEnds == LoopEnds <=> Call!LoopEnds
  BY Zenon DEF LoopEnds, ClientRuns, Busy, Top, Last, Kinds, Pop, Front,
               Skips, flags, response,
               Call!LoopEnds, Call!ClientRuns, Call!Busy, Call!Top, Call!Last,
               Call!Kinds, Call!Pop, Call!Front, Call!Skips, Call!flags,
               Call!response

LEMMA SameFail == FailAfterHeaders <=> Call!FailAfterHeaders
  BY Zenon DEF FailAfterHeaders, ClientRuns, Busy, Top, Last, Kinds, Front,
               Complete, Loop, flags, response,
               Call!FailAfterHeaders, Call!ClientRuns, Call!Busy, Call!Top,
               Call!Last, Call!Kinds, Call!Front, Call!Complete, Call!Loop,
               Call!flags, Call!response

LEMMA SameHandler ==
  ProcessItem \/ InvokeCallback \/ LoopEnds \/ FailAfterHeaders <=> Call!HandlerStep
  BY SameProcessItem, SameInvoke, SameLoopEnds, SameFail DEF Call!HandlerStep

-----------------------------------------------------------------------------
(* The queue of upcalls *)

LEMMA QueuePush ==
  ASSUME NEW S, NEW s \in Seq(S), NEW c \in S
  PROVE  /\ Append(s, c) \in Seq(S) /\ Len(Append(s, c)) = Len(s) + 1
         /\ \A p \in 1..Len(s) : Append(s, c)[p] = s[p]
         /\ Append(s, c)[Len(s) + 1] = c
  BY AppendProperties

\* u is s followed by t.
Joined(S, s, t, u) ==
  /\ u \in Seq(S) /\ Len(u) = Len(s) + Len(t)
  /\ \A p \in 1..Len(s) : u[p] = s[p]
  /\ \A p \in 1..Len(t) : u[Len(s) + p] = t[p]

LEMMA QueueJoin ==
  ASSUME NEW S, NEW s \in Seq(S), NEW t \in Seq(S)
  PROVE  Joined(S, s, t, s \o t)
<1>1. /\ s \o t \in Seq(S) /\ Len(s \o t) = Len(s) + Len(t)
      /\ \A p \in 1..(Len(s) + Len(t)) : (s \o t)[p] = IF p <= Len(s) THEN s[p] ELSE t[p - Len(s)]
  BY ConcatProperties, Zenon
<1> QED BY <1>1, LenProperties DEF Joined

LEMMA QueuePushTwo ==
  ASSUME NEW S, NEW s \in Seq(S), NEW c \in S, NEW d \in S
  PROVE  /\ s \o <<c, d>> \in Seq(S) /\ Len(s \o <<c, d>>) = Len(s) + 2
         /\ \A p \in 1..Len(s) : (s \o <<c, d>>)[p] = s[p]
         /\ (s \o <<c, d>>)[Len(s) + 1] = c /\ (s \o <<c, d>>)[Len(s) + 2] = d
<1> DEFINE t == <<c, d>>
<1>1. t \in Seq(S) /\ Len(t) = 2 /\ t[1] = c /\ t[2] = d
  OBVIOUS
<1> HIDE DEF t
<1>2. Joined(S, s, t, s \o t)
  BY <1>1, QueueJoin
<1>3. (s \o t)[Len(s) + 1] = c /\ (s \o t)[Len(s) + 2] = d
  BY <1>1, <1>2 DEF Joined
<1> QED BY <1>1, <1>2, <1>3 DEF t, Joined

LEMMA QueuePop ==
  ASSUME NEW S, NEW s \in Seq(S), s # <<>>
  PROVE  /\ Head(s) \in S /\ Head(s) = s[1] /\ Len(s) \in Nat \ {0}
         /\ Tail(s) \in Seq(S) /\ Len(Tail(s)) = Len(s) - 1
         /\ \A p \in 1..Len(Tail(s)) : Tail(s)[p] = s[p + 1]
<1>1. Len(s) \in Nat \ {0}
  BY EmptySeq, LenProperties
<1>2. Head(s) = s[1] /\ Head(s) \in S
  BY <1>1, HeadTailProperties, ElementOfSeq
<1>3. Tail(s) \in Seq(S) /\ Len(Tail(s)) = Len(s) - 1
  BY HeadTailProperties
<1>4. \A p \in 1..Len(Tail(s)) : Tail(s)[p] = s[p + 1]
  BY HeadTailProperties
<1> QED BY <1>1, <1>2, <1>3, <1>4

LEMMA EmptyQueue ==
  ASSUME NEW S, NEW s \in Seq(S)
  PROVE  (s = <<>> <=> Len(s) = 0) /\ Len(s) \in Nat
  BY EmptySeq, LenProperties

-----------------------------------------------------------------------------
(* What an upcall does to the transport's record of it *)

LEMMA UpHeadersEffect ==
  ASSUME UpTypes, NEW h, NEW s, UpHeaders(h, s)
  PROVE  /\ seen' = [headers |-> seen.headers + 1, last |-> IF s = 0 THEN seen.last ELSE h,
                     chunks |-> seen.chunks, ended |-> seen.ended]
         /\ UNCHANGED <<received, passed, flags, callbacks>>
<1>1. UNCHANGED <<flags, callbacks>>
  BY DEF UpHeaders, OnTransportHeaders, clientVars
<1> QED BY <1>1 DEF UpTypes, UpHeaders

LEMMA UpChunkEffect ==
  ASSUME UpTypes, NEW n, UpChunk(n)
  PROVE  /\ seen' = [headers |-> seen.headers, last |-> seen.last,
                     chunks |-> seen.chunks + 1, ended |-> seen.ended]
         /\ passed' = n
         /\ UNCHANGED <<received, flags, callbacks>>
<1>1. UNCHANGED <<flags, callbacks>>
  BY DEF UpChunk, OnTransportChunk, clientVars
<1> QED BY <1>1 DEF UpTypes, UpChunk

LEMMA UpEndEffect ==
  ASSUME UpTypes, UpEnd
  PROVE  /\ seen' = [headers |-> seen.headers, last |-> seen.last,
                     chunks |-> seen.chunks, ended |-> TRUE]
         /\ UNCHANGED <<received, passed, flags, callbacks>>
<1>1. UNCHANGED <<flags, callbacks>>
  BY DEF UpEnd, OnTransportEnd, clientVars
<1> QED BY <1>1 DEF UpTypes, UpEnd

-----------------------------------------------------------------------------
(* The invariant: what leaves the transport alone *)

LEMMA SamePlan ==
  ASSUME UNCHANGED script
  PROVE  /\ ScriptHeaders' = ScriptHeaders /\ ScriptChunks' = ScriptChunks
         /\ ScriptUpcalls' = ScriptUpcalls
         /\ (HeadersSent' <=> HeadersSent) /\ (MessagesSent' <=> MessagesSent)
         /\ ScriptedBody' = ScriptedBody
         /\ \A i : ScriptUpcall(i)' = ScriptUpcall(i)
  BY DEF ScriptHeaders, ScriptChunks, ScriptUpcalls, HeadersSent, MessagesSent, ScriptedBody,
         ScriptUpcall

LEMMA SameScript ==
  ASSUME Scripted, UNCHANGED <<upcalls, seen, received, passed, kind, fakeVars, finishedSending>>
  PROVE  Scripted'
<1>1. Made' = Made
  BY DEF Made
<1>2. Triggered' = Triggered
  BY DEF Triggered, fakeVars, ScriptUpcalls, ScriptHeaders, ScriptChunks, HeadersSent, MessagesSent
<1> QED BY <1>1, <1>2, SamePlan DEF Scripted, fakeVars

LEMMA InvQuiet ==
  ASSUME TransportInv, UNCHANGED <<upcallVars, httpVars, fakeVars, flags, callbacks, returned>>
  PROVE  TransportInv'
<1> USE DEF upcallVars, httpVars, fakeVars, fetchVars, wireVars, flags
<1>1. UpTypes'
  BY DEF TransportInv, UpTypes, IsBody
<1>2. Arrives' /\ Attached' /\ ChunksMove'
  BY DEF TransportInv, Arrives, Attached, ChunksMove
<1>3. XhrAndNode' /\ FetchWaits' /\ Detached'
  BY DEF TransportInv, XhrAndNode, FetchWaits, Detached, Nothing
<1>4. Scripted'
  BY SameScript DEF TransportInv
<1> QED BY <1>1, <1>2, <1>3, <1>4 DEF TransportInv

LEMMA InvHandler ==
  ASSUME TransportInv, Handler, UNCHANGED <<upcallVars, httpVars, fakeVars, returned>>
  PROVE  TransportInv'
<1>1. UNCHANGED <<flags, callbacks>>
  BY DEF Handler, UnaryCallback, InvokeCallback, ProcessItem, LoopEnds, FailAfterHeaders,
         CallbackReturns
<1> QED BY <1>1, InvQuiet

-----------------------------------------------------------------------------
(* The invariant: the application *)

\* The parts of the invariant that look at the transport alone.
LEMMA SameTransport ==
  ASSUME TransportInv, UNCHANGED <<upcallVars, httpVars, fakeVars, sentFirstMessage>>
  PROVE  UpTypes' /\ Arrives' /\ ChunksMove' /\ XhrAndNode'
<1> USE DEF upcallVars, httpVars, fakeVars, fetchVars, wireVars
<1>1. UpTypes'
  BY DEF TransportInv, UpTypes, IsBody
<1> QED BY <1>1 DEF TransportInv, Arrives, ChunksMove, XhrAndNode, Nothing

LEMMA InvAttach == ASSUME TransportInv, AttachCallback PROVE TransportInv'
<1> USE DEF AttachCallback, Register, flags
<1>1. UpTypes' /\ Arrives' /\ ChunksMove' /\ XhrAndNode'
  BY SameTransport
<1>2. Scripted'
  BY SameScript DEF TransportInv, upcallVars, httpVars
<1>3. FetchWaits' /\ Detached'
  BY DEF TransportInv, FetchWaits, Detached, Nothing, upcallVars, httpVars, fetchVars, wireVars
<1>4. Attached'
  BY UnaryAssumption DEF TransportInv, Attached, Kinds
<1> QED BY <1>1, <1>2, <1>3, <1>4 DEF TransportInv

LEMMA InvConnect == ASSUME TransportInv, Connect PROVE TransportInv'
<1>1. /\ UNCHANGED <<kind, body, answer, told, fetchVars, upcallVars, fakeVars, returned>>
      /\ wire' \in {wire, "opened"} /\ (kind = "fake" => wire' = wire)
      /\ UNCHANGED <<callbacks, sentFirstMessage, finishedSending, closed>>
      /\ callbacks["end"] = 1 /\ started' = TRUE /\ started = FALSE
  BY DEF Connect, Start, HttpStart, XhrStart, ArrayBufferXhrStart, NodeStart, FetchStart, httpVars,
         wireVars, flags, TransportInv, Attached
<1>2. UpTypes'
  BY <1>1 DEF TransportInv, UpTypes, IsBody, upcallVars, fakeVars, fetchVars
<1>3. Arrives' /\ ChunksMove' /\ XhrAndNode'
  BY <1>1 DEF TransportInv, Arrives, ChunksMove, XhrAndNode, Nothing, upcallVars
<1>4. FetchWaits'
  BY <1>1 DEF TransportInv, FetchWaits, Nothing, upcallVars, fetchVars
<1>5. Detached'
  BY <1>1 DEF TransportInv, Detached, Attached, Nothing, upcallVars
<1>6. Scripted'
  BY <1>1, SameScript DEF TransportInv, upcallVars
<1>7. Attached' /\ (returned' => finishedSending')
  BY <1>1 DEF TransportInv, Attached
<1> QED BY <1>2, <1>3, <1>4, <1>5, <1>6, <1>7 DEF TransportInv

LEMMA InvSend == ASSUME TransportInv, SendMessage PROVE TransportInv'
<1>1. /\ UNCHANGED <<kind, body, answer, told, upcallVars, fakeVars, returned>>
      /\ wire' \in {wire, "sent"} /\ (kind = "fake" => wire' = wire)
      /\ await' \in {await, "response"}
      /\ kind = "fetch" => await' = "response"
      /\ UNCHANGED <<callbacks, started, finishedSending, closed>>
      /\ sentFirstMessage' = TRUE /\ ~sentFirstMessage /\ ~closed
  BY UnaryAssumption
     DEF SendMessage, Send, HttpSend, XhrSend, ArrayBufferXhrSend, NodeSend, FetchSend, httpVars,
         wireVars, fetchVars, flags
<1>2. UpTypes'
  BY <1>1 DEF TransportInv, UpTypes, IsBody, upcallVars, fakeVars
<1>3. Arrives' /\ ChunksMove' /\ XhrAndNode'
  BY <1>1 DEF TransportInv, Arrives, ChunksMove, XhrAndNode, Nothing, upcallVars
<1>4. FetchWaits'
  BY <1>1 DEF TransportInv, FetchWaits, Nothing, upcallVars
<1>5. Detached'
  BY <1>1 DEF TransportInv, Detached, Nothing, upcallVars
<1>6. Scripted'
  BY <1>1, SameScript DEF TransportInv, upcallVars
<1>7. Attached' /\ (returned' => finishedSending')
  BY <1>1 DEF TransportInv, Attached
<1> QED BY <1>2, <1>3, <1>4, <1>5, <1>6, <1>7 DEF TransportInv

LEMMA InvReturns == ASSUME TransportInv, Returns PROVE TransportInv'
<1>1. /\ UNCHANGED <<upcallVars, httpVars, fakeVars, flags, callbacks>>
      /\ finishedSending
  BY DEF Returns, clientVars
<1>2. UpTypes' /\ Arrives' /\ ChunksMove' /\ XhrAndNode'
  BY <1>1, SameTransport DEF flags
<1>3. FetchWaits' /\ Detached' /\ Attached'
  BY <1>1 DEF TransportInv, FetchWaits, Detached, Attached, Nothing, upcallVars, httpVars,
              fetchVars, wireVars, flags
<1>4. Scripted'
  BY <1>1, SameScript DEF TransportInv, upcallVars, httpVars, flags
<1> QED BY <1>1, <1>2, <1>3, <1>4 DEF TransportInv, flags

\* The upcalls of a script, as one sequence.
LEMMA WholeScript ==
  ASSUME script \in Scripts
  PROVE  /\ SendAll \in Seq(Upcall) /\ Len(SendAll) = ScriptUpcalls
         /\ \A p \in 1..Len(SendAll) : SendAll[p] = ScriptUpcall(p)
<1> USE DEF ScriptUpcalls, ScriptHeaders, ScriptChunks, ScriptUpcall
<1>1. /\ script.messages \in Nat
      /\ HeadersSent => script.preHeadersErrorCode = Null
      /\ ~HeadersSent => script.preHeadersErrorCode \in HttpCodes
      /\ script.preMessagesError # Null => script.preMessagesError \in SaidInHeaders
      /\ NoStatus \in SaidInHeaders /\ 200 \in HttpCodes
  BY SaidIsStatus, UnaryAssumption DEF HeadersSent, IsScript
<1> DEFINE h(s, c) == HeadersCall(s, c)
<1>2. /\ EndCall \in Upcall /\ \A n \in Nat : ChunkCall(n) \in Upcall
      /\ \A s \in SaidInHeaders, c \in HttpCodes : h(s, c) \in Upcall
  BY DEF EndCall, ChunkCall, HeadersCall, Upcall
<1> HIDE DEF h
<1>3. CASE ~HeadersSent
  <2>1. SendAll = <<h(NoStatus, script.preHeadersErrorCode), EndCall>>
    <3>1. SendAll = (<<h(NoStatus, script.preHeadersErrorCode), EndCall>> \o <<>>) \o <<>>
      BY <1>3 DEF SendAll, SendHeaders, HeadersSent, MessagesSent, h
    <3>2. <<h(NoStatus, script.preHeadersErrorCode), EndCall>> \in Seq(Upcall)
      BY <1>1, <1>2, <1>3
    <3> QED BY <3>1, <3>2, ConcatEmptySeq
  <2> QED BY <1>1, <1>2, <1>3, <2>1 DEF HeadersSent, MessagesSent, h
<1>4. CASE HeadersSent /\ ~MessagesSent
  <2> DEFINE a == <<h(NoStatus, 200)>>
             b == <<h(script.preMessagesError, 200), EndCall>>
  <2>1. SendAll = (a \o b) \o <<>>
    BY <1>4 DEF SendAll, SendHeaders, SendMessages, HeadersSent, MessagesSent, h
  <2>2. a \in Seq(Upcall) /\ Len(a) = 1 /\ a[1] = h(NoStatus, 200)
    BY <1>1, <1>2
  <2>3. b \in Seq(Upcall) /\ Len(b) = 2 /\ b[1] = h(script.preMessagesError, 200) /\ b[2] = EndCall
    BY <1>1, <1>2, <1>4 DEF MessagesSent
  <2> HIDE DEF a, b
  <2>4. /\ a \o b \in Seq(Upcall) /\ Len(a \o b) = 3 /\ (a \o b)[1] = a[1]
        /\ (a \o b)[2] = b[1] /\ (a \o b)[3] = b[2]
    <3>1. Joined(Upcall, a, b, a \o b)
      BY <2>2, <2>3, QueueJoin
    <3> QED BY <2>2, <2>3, <3>1 DEF Joined
  <2>5. SendAll = a \o b
    BY <2>1, <2>4, ConcatEmptySeq
  <2>6. ScriptHeaders = 2 /\ ScriptChunks = 0
    BY <1>4
  <2>7. \A p \in 1..3 : SendAll[p] = ScriptUpcall(p)
    BY <1>4, <2>2, <2>3, <2>4, <2>5, <2>6 DEF h
  <2> QED BY <2>4, <2>5, <2>6, <2>7
<1>5. CASE MessagesSent
  <2> DEFINE a == <<h(NoStatus, 200)>>
             b == [n \in 1..script.messages |-> ChunkCall(n)]
             c == <<ChunkCall(script.messages + 1), EndCall>>
  <2>1. SendAll = (a \o b) \o c
    BY <1>5 DEF SendAll, SendHeaders, SendMessages, SendTrailers, HeadersSent, MessagesSent, h
  <2>2. a \in Seq(Upcall) /\ Len(a) = 1 /\ a[1] = h(NoStatus, 200)
    BY <1>1, <1>2
  <2>3. b \in Seq(Upcall) /\ Len(b) = script.messages
        /\ \A n \in 1..script.messages : b[n] = ChunkCall(n)
    BY <1>1, <1>2
  <2>4. c \in Seq(Upcall) /\ Len(c) = 2 /\ c[1] = ChunkCall(script.messages + 1) /\ c[2] = EndCall
    BY <1>1, <1>2
  <2> HIDE DEF a, b, c
  <2>5. PICK ab : ab = a \o b /\ Joined(Upcall, a, b, ab)
    BY <2>2, <2>3, QueueJoin
  <2>6. PICK abc : abc = ab \o c /\ Joined(Upcall, ab, c, abc)
    <3>1. ab \in Seq(Upcall)
      BY <2>5 DEF Joined
    <3> QED BY <2>4, <3>1, QueueJoin
  <2>7. /\ Len(ab) = script.messages + 1 /\ ab[1] = h(NoStatus, 200)
        /\ \A p \in 1..script.messages : ab[1 + p] = ChunkCall(p)
    BY <1>1, <2>2, <2>3, <2>5 DEF Joined
  <2>8. /\ SendAll \in Seq(Upcall) /\ Len(SendAll) = script.messages + 3
        /\ \A p \in 1..(script.messages + 1) : SendAll[p] = ab[p]
        /\ SendAll[script.messages + 2] = ChunkCall(script.messages + 1)
        /\ SendAll[script.messages + 3] = EndCall
    <3>1. SendAll = abc
      BY <2>1, <2>5, <2>6
    <3>2. /\ abc \in Seq(Upcall) /\ Len(abc) = script.messages + 3
          /\ \A p \in 1..(script.messages + 1) : abc[p] = ab[p]
      BY <1>1, <2>4, <2>6, <2>7 DEF Joined
    <3>3. /\ abc[script.messages + 2] = ChunkCall(script.messages + 1)
          /\ abc[script.messages + 3] = EndCall
      <4>1. abc[Len(ab) + 1] = c[1] /\ abc[Len(ab) + 2] = c[2]
        BY <2>4, <2>6 DEF Joined
      <4>2. Len(ab) + 1 = script.messages + 2 /\ Len(ab) + 2 = script.messages + 3
        BY <1>1, <2>7
      <4> QED BY <2>4, <4>1, <4>2
    <3> QED BY <3>1, <3>2, <3>3
  <2>9. \A p \in 2..(script.messages + 1) : ab[p] = ChunkCall(p - 1)
    <3> TAKE p \in 2..(script.messages + 1)
    <3>1. p - 1 \in 1..script.messages /\ 1 + (p - 1) = p
      BY <1>1
    <3> QED BY <2>7, <3>1
  <2>10. ScriptHeaders = 1 /\ ScriptChunks = script.messages + 1 /\ HeadersSent
    BY <1>5 DEF MessagesSent
  <2>11. \A p \in 1..(script.messages + 3) : SendAll[p] = ScriptUpcall(p)
    <3> TAKE p \in 1..(script.messages + 3)
    <3>1. CASE p = 1
      BY <1>1, <2>7, <2>8, <2>10, <3>1 DEF h
    <3>2. CASE p \in 2..(script.messages + 1)
      BY <1>1, <2>8, <2>9, <2>10, <3>2
    <3>3. CASE p = script.messages + 2
      BY <1>1, <2>8, <2>10, <3>3
    <3>4. CASE p = script.messages + 3
      BY <1>1, <2>8, <2>10, <3>4
    <3> QED BY <1>1, <3>1, <3>2, <3>3, <3>4
  <2> QED BY <1>1, <2>8, <2>10, <2>11
<1> QED BY <1>3, <1>4, <1>5

LEMMA InvFinish == ASSUME TransportInv, SendFinish PROVE TransportInv'
<1>1. /\ UNCHANGED <<httpVars, fakeVars, received, passed, seen, returned>>
      /\ UNCHANGED <<callbacks, started, sentFirstMessage, closed>>
      /\ sentFirstMessage /\ finishedSending' = TRUE /\ finishedSending = FALSE
      /\ IF kind = "fake" THEN FakeFinishSend ELSE UNCHANGED upcalls
  BY DEF SendFinish, FinishSend, FakeFinishSend, upcallVars, TransportInv
<1>2. kind = "fake" => /\ Made = 0 /\ Len(upcalls) = 0 /\ ~seen.ended
                       /\ upcalls' = IF script.autoTrigger THEN SendAll ELSE <<>>
  <2>1. Made \in Nat /\ (Made = 0 => ~seen.ended)
    BY DEF TransportInv, UpTypes, Made
  <2>2. kind = "fake" => Made + Len(upcalls) = 0
    BY <1>1 DEF TransportInv, Scripted, Triggered
  <2> QED BY <1>1, <2>1, <2>2, EmptyQueue DEF FakeFinishSend, TransportInv, UpTypes
<1>3. upcalls' \in Seq(Upcall)
  BY <1>1, <1>2, WholeScript DEF TransportInv, UpTypes
<1>4. UpTypes'
  BY <1>1, <1>3 DEF TransportInv, UpTypes, IsBody, httpVars, wireVars, fetchVars, fakeVars
<1>5. Arrives' /\ ChunksMove' /\ XhrAndNode' /\ Attached'
  BY <1>1 DEF TransportInv, Arrives, ChunksMove, XhrAndNode, Attached, Nothing, httpVars, wireVars
<1>6. FetchWaits' /\ Detached'
  BY <1>1 DEF TransportInv, FetchWaits, Detached, Nothing, httpVars, fetchVars, wireVars
<1>7. Scripted'
  <2> SUFFICES ASSUME kind = "fake" PROVE Scripted'
    BY <1>1 DEF Scripted, httpVars
  <2>1. Made' = 0
    BY <1>1, <1>2 DEF Made
  <2>2. Len(upcalls') = Triggered' /\ \A p \in 1..Len(upcalls') : upcalls'[p] = ScriptUpcall(p)
    <3>1. CASE script.autoTrigger
      BY <1>1, <1>2, <3>1, WholeScript, SamePlan DEF TransportInv, UpTypes, Triggered, fakeVars
    <3>2. CASE ~script.autoTrigger
      BY <1>1, <1>2, <3>2 DEF TransportInv, Scripted, Triggered, fakeVars
    <3> QED BY <3>1, <3>2
  <2>3. /\ received' = ScriptedBody' /\ seen'.headers <= ScriptHeaders'
        /\ seen'.chunks <= ScriptChunks' /\ passed' = seen'.chunks
        /\ (seen'.chunks > 0 => seen'.headers = ScriptHeaders')
        /\ (seen'.ended => seen'.headers = ScriptHeaders' /\ seen'.chunks = ScriptChunks')
        /\ (triggered' = 2 => HeadersSent') /\ (triggered' = 3 => MessagesSent')
    BY <1>1, SamePlan DEF TransportInv, Scripted, fakeVars
  <2> QED BY <1>1, <2>1, <2>2, <2>3, SamePlan DEF Scripted, fakeVars
<1> QED BY <1>1, <1>4, <1>5, <1>6, <1>7 DEF TransportInv

-----------------------------------------------------------------------------
(* The invariant: close, the server and the network *)

LEMMA InvCancel == ASSUME TransportInv, Cancel PROVE TransportInv'
<1>1. /\ UNCHANGED <<kind, body, answer, told, await, controller, reader, received, passed, seen,
                     fakeVars, returned>>
      /\ UNCHANGED <<callbacks, started, sentFirstMessage, finishedSending>>
      /\ wire' \in {wire, "aborted"} /\ (kind = "fake" => wire' = wire)
      /\ started /\ ~closed /\ closed' = TRUE
      /\ kind = "rn" => /\ wire' = "aborted"
                        /\ upcalls' = IF told # "end" THEN upcalls \o <<ChunkCall(0), EndCall>>
                                      ELSE upcalls
      /\ kind # "rn" => upcalls' = upcalls
  BY DEF Cancel, Close, HttpCancel, XhrCancel, NodeCancel, ArrayBufferXhrCancel, FetchCancel,
         upcallVars, httpVars, wireVars, fetchVars, flags
<1>2. upcalls \in Seq(Upcall) /\ ChunkCall(0) \in Upcall /\ EndCall \in Upcall
  BY DEF TransportInv, UpTypes, Upcall, ChunkCall, EndCall
<1>3. /\ upcalls' \in Seq(Upcall)
      /\ upcalls' = upcalls \/ (kind = "rn" /\ told # "end" /\ Len(upcalls') = Len(upcalls) + 2
                                /\ (\A p \in 1..Len(upcalls) : upcalls'[p] = upcalls[p])
                                /\ upcalls'[Len(upcalls) + 1] = ChunkCall(0)
                                /\ upcalls'[Len(upcalls) + 2] = EndCall)
  <2>1. CASE kind = "rn" /\ told # "end"
    <3>1. upcalls' = upcalls \o <<ChunkCall(0), EndCall>>
      BY <1>1, <2>1
    <3> QED BY <1>2, <2>1, <3>1, QueuePushTwo
  <2> QED BY <1>1, <1>2, <2>1
<1>4. UpTypes'
  BY <1>1, <1>3 DEF TransportInv, UpTypes, IsBody, fakeVars
<1>5. Arrives' /\ ChunksMove' /\ XhrAndNode' /\ Attached' /\ (returned' => finishedSending')
  BY <1>1 DEF TransportInv, Arrives, ChunksMove, XhrAndNode, Attached, Nothing
<1>6. FetchWaits'
  BY <1>1 DEF TransportInv, FetchWaits, Nothing
<1>7. Scripted'
  BY <1>1, SameScript DEF TransportInv, Scripted
<1>8. Detached'
  <2> SUFFICES ASSUME kind = "rn" PROVE Detached'
    BY <1>1 DEF Detached
  <2>1. wire' = "aborted" /\ closed' = TRUE
    BY <1>1
  <2>2. CASE upcalls' = upcalls
    BY <1>1, <2>1, <2>2 DEF TransportInv, Detached, Nothing
  <2>3. CASE upcalls' # upcalls
    <3>1. /\ seen.chunks = 0 /\ told # "end" /\ wire # "aborted" /\ passed = 0
          /\ \A p \in 1..Len(upcalls) : upcalls[p].do # "chunk"
      BY <1>1, <1>3, <2>3, EmptyQueue DEF TransportInv, UpTypes, Detached, ChunksMove, Nothing
    <3>2. \A p \in 1..Len(upcalls) : upcalls[p].do = "headers" => p = 1 /\ Nothing
      BY DEF TransportInv, Detached
    <3>3. Len(upcalls) \in Nat /\ Len(received') \in Nat
      BY <1>2, EmptyQueue DEF TransportInv, UpTypes, IsBody
    <3>4. /\ Len(upcalls') = Len(upcalls) + 2
          /\ \A p \in 1..Len(upcalls) : upcalls'[p].do # "chunk"
          /\ \A p \in 1..Len(upcalls') : upcalls'[p].do = "headers" => p = 1 /\ Nothing
          /\ \A p \in 1..Len(upcalls') : upcalls'[p].do = "chunk" =>
               p = Len(upcalls) + 1 /\ upcalls'[p].upto = 0
      <4>1. /\ Len(upcalls') = Len(upcalls) + 2
            /\ \A p \in 1..Len(upcalls) : upcalls'[p] = upcalls[p]
            /\ upcalls'[Len(upcalls) + 1] = ChunkCall(0)
            /\ upcalls'[Len(upcalls) + 2] = EndCall
        BY <1>3, <2>3
      <4>2. \A p \in 1..(Len(upcalls) + 2) :
              p \in 1..Len(upcalls) \/ p = Len(upcalls) + 1 \/ p = Len(upcalls) + 2
        BY <3>3
      <4>3. /\ ChunkCall(0).do = "chunk" /\ ChunkCall(0).upto = 0 /\ EndCall.do = "end"
        BY DEF ChunkCall, EndCall
      <4> QED BY <3>1, <3>2, <4>1, <4>2, <4>3
    <3>5. Nothing' = Nothing /\ seen' = seen /\ received' = received
      BY <1>1 DEF Nothing
    <3>6. \A p \in 1..Len(upcalls') : \A q \in 1..(p - 1) : upcalls'[p].do = "chunk" =>
            upcalls'[q].do # "chunk" /\ upcalls'[p].upto = 0
      BY <3>3, <3>4
    <3> QED BY <2>1, <3>1, <3>3, <3>4, <3>5, <3>6 DEF Detached
  <2> QED BY <2>2, <2>3
<1> QED BY <1>4, <1>5, <1>6, <1>7, <1>8 DEF TransportInv

\* The network changes wire and answer; what was received gets longer.
LEMMA InvNetwork ==
  ASSUME TransportInv, Network, UNCHANGED <<fakeVars, returned>>
  PROVE  TransportInv'
<1>1. /\ UNCHANGED <<kind, body, told, fetchVars, passed, upcalls, seen, flags, callbacks, fakeVars,
                     returned>>
      /\ answer' \in Responses \cup {NoResponse}
      /\ wire \in {"sent", "open"} /\ wire' \in {"open", "complete", "broken"}
  BY DEF Network, ResponseStarts, BodyArrives, ConnectionBreaks, upcallVars, clientVars,
         TransportInv, UpTypes
<1>2. kind # "fake"
  BY <1>1 DEF TransportInv, Arrives
<1>3. IsBody(body) /\ Len(body) \in Nat /\ Len(received) \in Nat
  BY UnaryAssumption, LenProperties DEF TransportInv, UpTypes, IsBody
<1>4. /\ IsBody(received') /\ Len(received') \in Nat /\ Len(received) <= Len(received')
      /\ Len(received') <= Len(body)
      /\ \A i \in 1..Len(received') : received'[i] = body[i]
      /\ wire' = "open" => Len(received') < Len(body)
  <2>1. CASE received' = received /\ (wire' = "open" => wire = "sent" /\ body # <<>>)
    <3>1. body # <<>> => Len(body) > 0
      BY <1>3, EmptySeq DEF IsBody
    <3>2. wire' = "open" => Len(received) = 0
      BY <1>2, <2>1 DEF TransportInv, Arrives
    <3> QED BY <1>2, <1>3, <2>1, <3>1, <3>2 DEF TransportInv, UpTypes, Arrives
  <2>2. CASE BodyArrives
    <3>1. Len(received) + 1 \in 1..Len(body)
      BY <1>2, <1>3, <2>2 DEF BodyArrives, TransportInv, Arrives
    <3>2. /\ received' \in Seq(Item) /\ Len(received') = Len(received) + 1
          /\ \A i \in 1..(Len(received) + 1) : received'[i] = body[i]
      <4>1. body \in Seq(Item) /\ received' = SubSeq(body, 1, Len(received) + 1)
        BY <1>3, <2>2 DEF BodyArrives, IsBody
      <4> QED BY <1>3, <3>1, <4>1, SubSeqProperties
    <3>3. Len(received') = Len(body) => received' = body
      <4>1. body \in Seq(Item) /\ received' \in Seq(Item)
        BY <1>3, <3>2 DEF IsBody
      <4>2. ASSUME Len(received') = Len(body) PROVE \A i \in 1..Len(received') : received'[i] = body[i]
        BY <3>2, <4>2
      <4> QED BY <4>1, <4>2, SeqEqual, Zenon
    <3>4. IsBody(received')
      <4>1. /\ Len(body) \in Nat /\ Len(body) <= MaxBody /\ Len(received') <= Len(body)
            /\ Len(received') \in Nat /\ Len(received') = Len(received) + 1 /\ MaxBody \in Nat
        BY <1>3, <3>1, <3>2, UnaryAssumption DEF IsBody
      <4>2. \A i \in 1..Len(received') :
              IF received'[i].type = "trailers" THEN i = Len(received') ELSE received'[i].val = i
        <5> TAKE i \in 1..Len(received')
        <5>1. i \in 1..Len(body) /\ received'[i] = body[i]
          BY <3>2, <4>1
        <5>2. IF body[i].type = "trailers" THEN i = Len(body) ELSE body[i].val = i
          BY <1>3, <5>1 DEF IsBody
        <5> QED BY <4>1, <5>1, <5>2
      <4> QED BY <3>2, <4>1, <4>2 DEF IsBody
    <3>5. wire' = "open" => received' # body
      BY <2>2 DEF BodyArrives
    <3> QED BY <1>3, <3>1, <3>2, <3>3, <3>4, <3>5
  <2>3. \/ received' = received /\ (wire' = "open" => wire = "sent" /\ body # <<>>)
        \/ BodyArrives
    BY DEF Network, ResponseStarts, ConnectionBreaks, upcallVars
  <2> QED BY <2>1, <2>2, <2>3
<1>5. UpTypes'
  BY <1>1, <1>3, <1>4 DEF TransportInv, UpTypes, fakeVars, fetchVars
<1>6. Arrives'
  <2>1. wire' # "sent" /\ sentFirstMessage'
    BY <1>1, <1>2 DEF TransportInv, Arrives, flags
  <2> QED BY <1>1, <1>2, <1>4, <2>1 DEF Arrives
<1>7. ChunksMove' /\ XhrAndNode' /\ FetchWaits' /\ Attached' /\ Scripted'
  BY <1>1, <1>2 DEF TransportInv, ChunksMove, XhrAndNode, FetchWaits, Attached, Scripted, Nothing,
                    flags, fetchVars
<1>8. Detached'
  BY <1>1, <1>3, <1>4 DEF TransportInv, UpTypes, Detached, Upcall, Nothing, flags
<1> QED BY <1>1, <1>5, <1>6, <1>7, <1>8 DEF TransportInv, flags

-----------------------------------------------------------------------------
(* The invariant: the upcalls of the transports *)

\* The upcalls a transport makes: headers before chunks, nothing after the end
\* but another end or an empty chunk.  Only React Native has empty chunks.
AllowedHeaders(h, s) ==
  /\ h \in SaidInHeaders /\ s \in HttpCodes
  /\ seen.headers < 2 /\ seen.chunks = 0 /\ ~seen.ended
  /\ UpHeaders(h, s)

AllowedChunk(n) ==
  /\ n \in passed .. Len(received)
  /\ IF kind = "rn" THEN seen.chunks = 0 ELSE n > passed
  /\ seen.ended => n = passed
  /\ UpChunk(n)

AllowedUpcall ==
  \/ \E h, s : AllowedHeaders(h, s)
  \/ \E n : AllowedChunk(n)
  \/ UpEnd

\* A chunk is within the bound on chunks.
LEMMA ChunkInBound ==
  ASSUME TransportInv, NEW n, AllowedChunk(n)
  PROVE  seen.chunks < MaxBody + 1 /\ n \in Nat /\ passed \in Nat /\ n <= Len(received)
<1>1. Len(received) \in Nat /\ Len(received) <= MaxBody /\ MaxBody \in Nat
  BY UnaryAssumption, LenProperties DEF TransportInv, UpTypes, IsBody
<1> QED BY <1>1 DEF TransportInv, UpTypes, ChunksMove, AllowedChunk

\* An upcall keeps the parts of the invariant that do not name a transport.
LEMMA AfterUpcall ==
  ASSUME TransportInv, AllowedUpcall,
         UNCHANGED <<kind, body, wire, answer, fakeVars, returned>>,
         told' \in {"nothing", "headers", "error", "end"},
         await' \in {"none", "response", "pump", "read", "catch", "caught"},
         upcalls' \in Seq(Upcall)
  PROVE  /\ UpTypes' /\ Arrives' /\ Attached' /\ ChunksMove' /\ (returned' => finishedSending')
         /\ UNCHANGED <<received, flags, callbacks>>
<1>1. /\ UNCHANGED <<received, flags, callbacks>>
      /\ \/ /\ seen.headers < 2 /\ UNCHANGED passed
            /\ \E l \in SaidInHeaders \cup {Undefined} :
                 seen' = [headers |-> seen.headers + 1, last |-> l,
                          chunks |-> seen.chunks, ended |-> seen.ended]
         \/ /\ seen.chunks < MaxBody + 1 /\ passed' \in passed..Len(received)
            /\ passed \in Nat /\ (kind # "rn" => passed' > passed)
            /\ seen' = [headers |-> seen.headers, last |-> seen.last,
                        chunks |-> seen.chunks + 1, ended |-> seen.ended]
         \/ /\ UNCHANGED passed
            /\ seen' = [headers |-> seen.headers, last |-> seen.last,
                        chunks |-> seen.chunks, ended |-> TRUE]
  <2>1. ASSUME NEW h, NEW s, AllowedHeaders(h, s)
        PROVE  /\ UNCHANGED <<received, flags, callbacks, passed>> /\ seen.headers < 2
               /\ \E l \in SaidInHeaders \cup {Undefined} :
                    seen' = [headers |-> seen.headers + 1, last |-> l,
                             chunks |-> seen.chunks, ended |-> seen.ended]
    <3>1. UpTypes /\ UpHeaders(h, s) /\ seen.headers < 2 /\ h \in SaidInHeaders
      BY <2>1 DEF AllowedHeaders, TransportInv
    <3>2. (IF s = 0 THEN seen.last ELSE h) \in SaidInHeaders \cup {Undefined}
      BY <3>1 DEF UpTypes
    <3> QED BY <3>1, <3>2, UpHeadersEffect
  <2>2. ASSUME NEW n, AllowedChunk(n)
        PROVE  /\ UNCHANGED <<received, flags, callbacks>>
               /\ seen.chunks < MaxBody + 1 /\ passed' \in passed..Len(received)
               /\ passed \in Nat /\ (kind # "rn" => passed' > passed)
               /\ seen' = [headers |-> seen.headers, last |-> seen.last,
                           chunks |-> seen.chunks + 1, ended |-> seen.ended]
    BY <2>2, ChunkInBound, UpChunkEffect DEF AllowedChunk, TransportInv
  <2>3. ASSUME UpEnd
        PROVE  /\ UNCHANGED <<received, flags, callbacks, passed>>
               /\ seen' = [headers |-> seen.headers, last |-> seen.last,
                           chunks |-> seen.chunks, ended |-> TRUE]
    BY <2>3, UpEndEffect DEF TransportInv
  <2> QED BY <2>1, <2>2, <2>3 DEF AllowedUpcall
<1>2. UpTypes
  BY DEF TransportInv
<1>3. seen' \in [headers : 0..2, last : Status \cup {Undefined}, chunks : 0 .. MaxBody + 1,
                 ended : BOOLEAN] /\ seen'.last \in SaidInHeaders \cup {Undefined}
  <2>1. /\ seen.headers \in 0..2 /\ seen.chunks \in 0 .. MaxBody + 1 /\ seen.ended \in BOOLEAN
        /\ seen.last \in SaidInHeaders \cup {Undefined} /\ MaxBody \in Nat
        /\ SaidInHeaders \subseteq Status
    BY <1>2, SaidIsStatus, UnaryAssumption DEF UpTypes
  <2>2. PICK h, l, c, e : seen' = [headers |-> h, last |-> l, chunks |-> c, ended |-> e]
                          /\ h \in 0..2 /\ l \in SaidInHeaders \cup {Undefined}
                          /\ c \in 0 .. MaxBody + 1 /\ e \in BOOLEAN
    <3>1. /\ seen.headers < 2 => seen.headers + 1 \in 0..2
          /\ seen.chunks < MaxBody + 1 => seen.chunks + 1 \in 0 .. MaxBody + 1
          /\ TRUE \in BOOLEAN
      BY <2>1
    <3> QED BY <1>1, <2>1, <3>1, Zenon
  <2>3. l \in Status \cup {Undefined}
    BY <2>1, <2>2
  <2> QED BY <2>2, <2>3
<1>4. passed' \in 0..Len(received)
  BY <1>1, <1>2 DEF UpTypes
<1>5. UpTypes'
  BY <1>1, <1>2, <1>3, <1>4 DEF UpTypes, fakeVars, IsBody
<1>6. Arrives' /\ Attached' /\ (returned' => finishedSending')
  BY <1>1 DEF TransportInv, Arrives, Attached, flags
<1>7. ChunksMove'
  <2>1. seen.chunks \in Nat /\ passed \in Int /\ (seen.chunks = 0 => passed = 0)
        /\ (kind # "rn" => seen.chunks <= passed)
    BY <1>2, UnaryAssumption DEF UpTypes, TransportInv, ChunksMove
  <2>2. CASE passed' = passed /\ seen'.chunks = seen.chunks
    BY <2>1, <2>2 DEF ChunksMove
  <2>3. CASE /\ passed' \in passed..Len(received) /\ (kind # "rn" => passed' > passed)
             /\ seen'.chunks = seen.chunks + 1
    <3>1. seen'.chunks # 0 /\ (kind # "rn" => seen'.chunks <= passed')
      BY <2>1, <2>3
    <3> QED BY <3>1 DEF ChunksMove
  <2> QED BY <1>1, <2>2, <2>3
<1> QED BY <1>1, <1>5, <1>6, <1>7

\* What an event of a transport does: one upcall that is allowed, or none.
Upcalls == AllowedUpcall \/ UNCHANGED <<received, passed, seen, clientVars>>

\* The parts of the invariant that concern the other transports.
LEMMA OtherTransports ==
  ASSUME UNCHANGED kind
  PROVE  /\ kind \notin {"xhr", "node"} => XhrAndNode'
         /\ kind # "fetch" => FetchWaits'
         /\ kind # "rn" => Detached'
         /\ kind # "fake" => Scripted'
  BY DEF XhrAndNode, FetchWaits, Detached, Scripted

LEMMA ResponseSaid ==
  ASSUME TransportInv, answer # NoResponse
  PROVE  answer.status \in SaidInHeaders /\ answer.http \in HttpCodes
  BY SaidIsStatus DEF TransportInv, UpTypes

\* The effect of an upcall on whether it is the first, and whether the end was told.
LEMMA UpcallSays ==
  ASSUME TransportInv, AllowedUpcall
  PROVE  \/ UpEnd
         \/ seen'.ended = seen.ended
<1>1. UpTypes
  BY DEF TransportInv
<1>2. ASSUME NEW h, NEW s, AllowedHeaders(h, s) PROVE seen'.ended = seen.ended
  BY <1>1, <1>2, UpHeadersEffect DEF AllowedHeaders
<1>3. ASSUME NEW n, AllowedChunk(n) PROVE seen'.ended = seen.ended
  BY <1>1, <1>3, UpChunkEffect DEF AllowedChunk
<1> QED BY <1>2, <1>3 DEF AllowedUpcall

LEMMA InvXhr ==
  ASSUME TransportInv, kind = "xhr", UNCHANGED <<fakeVars, returned>>,
         OnStateChange \/ OnProgressEvent \/ OnErrorEvent \/ OnLoadEvent
  PROVE  TransportInv' /\ AllowedUpcall
<1>1. /\ UNCHANGED <<kind, body, wire, answer, await, upcalls>>
      /\ \/ /\ AllowedUpcall /\ told' = "headers" /\ ~seen.ended /\ ~UpEnd
         \/ /\ UpEnd /\ told' \in {"error", "end"}
  <2>1. CASE OnStateChange
    <3>1. /\ UpHeaders(answer.status, answer.http) /\ told' = "headers" /\ told = "nothing"
          /\ answer # NoResponse /\ UNCHANGED <<kind, body, wire, answer, await, upcalls>>
      BY <2>1 DEF OnStateChange, XhrEvent, Make, HeadersCall, wireVars, fetchVars
    <3>2. Nothing
      BY <3>1 DEF TransportInv, XhrAndNode
    <3>3. AllowedHeaders(answer.status, answer.http)
      BY <3>1, <3>2, ResponseSaid DEF AllowedHeaders, Nothing
    <3>4. ~UpEnd
      BY <3>1, <3>2, UpHeadersEffect, UpEndEffect DEF TransportInv, UpTypes, Nothing
    <3> QED BY <3>1, <3>2, <3>3, <3>4 DEF AllowedUpcall, Nothing
  <2>2. CASE OnProgressEvent
    <3>1. /\ UpChunk(Len(received)) /\ told' = "headers" /\ told = "headers"
          /\ Len(received) > passed /\ UNCHANGED <<kind, body, wire, answer, await, upcalls>>
      BY <2>2 DEF OnProgressEvent, XhrEvent, Make, ChunkCall, wireVars, fetchVars
    <3>2. ~seen.ended
      BY <3>1 DEF TransportInv, XhrAndNode
    <3>3. AllowedChunk(Len(received))
      <4>1. Len(received) \in passed..Len(received)
        BY <3>1, LenProperties DEF TransportInv, UpTypes, IsBody
      <4> QED BY <3>1, <3>2, <4>1 DEF AllowedChunk
    <3>4. ~UpEnd
      BY <3>1, <3>2, UpChunkEffect, UpEndEffect DEF TransportInv, UpTypes
    <3> QED BY <3>1, <3>2, <3>3, <3>4 DEF AllowedUpcall
  <2>3. CASE OnErrorEvent \/ OnLoadEvent
    BY <2>3 DEF OnErrorEvent, OnLoadEvent, XhrEvent, Make, EndCall, wireVars, fetchVars
  <2> QED BY <2>1, <2>2, <2>3
<1>2. AllowedUpcall
  BY <1>1 DEF AllowedUpcall
<1>3. UpTypes' /\ Arrives' /\ Attached' /\ ChunksMove' /\ (returned' => finishedSending')
  <2>1. /\ told' \in {"nothing", "headers", "error", "end"}
        /\ await' \in {"none", "response", "pump", "read", "catch", "caught"}
        /\ upcalls' \in Seq(Upcall)
    BY <1>1 DEF TransportInv, UpTypes
  <2> QED BY <1>1, <1>2, <2>1, AfterUpcall
<1>4. XhrAndNode'
  BY <1>1, UpcallSays DEF XhrAndNode
<1>5. FetchWaits' /\ Detached' /\ Scripted'
  BY <1>1, OtherTransports
<1> QED BY <1>2, <1>3, <1>4, <1>5 DEF TransportInv

LEMMA InvNode ==
  ASSUME TransportInv, UNCHANGED <<fakeVars, returned>>,
         NodeResponse \/ NodeData \/ NodeEnd \/ NodeError
  PROVE  TransportInv' /\ AllowedUpcall
<1>1. /\ UNCHANGED <<kind, body, wire, answer, await, upcalls>> /\ kind = "node"
      /\ \/ /\ AllowedUpcall /\ told' = "headers" /\ ~seen.ended /\ ~UpEnd
         \/ /\ UpEnd /\ told' = "end"
  <2>1. CASE NodeResponse
    <3>1. /\ UpHeaders(answer.status, answer.http) /\ told' = "headers" /\ told = "nothing"
          /\ answer # NoResponse /\ UNCHANGED <<kind, body, wire, answer, await, upcalls>>
          /\ kind = "node"
      BY <2>1 DEF NodeResponse, wireVars, fetchVars
    <3>2. Nothing
      BY <3>1 DEF TransportInv, XhrAndNode
    <3>3. AllowedHeaders(answer.status, answer.http)
      BY <3>1, <3>2, ResponseSaid DEF AllowedHeaders, Nothing
    <3>4. ~UpEnd
      BY <3>1, <3>2, UpHeadersEffect, UpEndEffect DEF TransportInv, UpTypes, Nothing
    <3> QED BY <3>1, <3>2, <3>3, <3>4 DEF AllowedUpcall, Nothing
  <2>2. CASE NodeData
    <3>1. PICK n : n \in passed + 1 .. Len(received) /\ UpChunk(n)
      BY <2>2 DEF NodeData
    <3>2. /\ told' = "headers" /\ told = "headers" /\ kind = "node"
          /\ UNCHANGED <<kind, body, wire, answer, await, upcalls>>
      BY <2>2 DEF NodeData, httpVars, wireVars, fetchVars
    <3>3. ~seen.ended
      BY <3>2 DEF TransportInv, XhrAndNode
    <3>4. AllowedChunk(n)
      <4>1. n \in passed..Len(received) /\ n > passed
        BY <3>1, LenProperties DEF TransportInv, UpTypes, IsBody
      <4> QED BY <3>1, <3>2, <3>3, <4>1 DEF AllowedChunk
    <3>5. ~UpEnd
      BY <3>1, <3>3, UpChunkEffect, UpEndEffect DEF TransportInv, UpTypes
    <3> QED BY <3>2, <3>3, <3>4, <3>5 DEF AllowedUpcall
  <2>3. CASE NodeEnd \/ NodeError
    BY <2>3 DEF NodeEnd, NodeError, wireVars, fetchVars
  <2> QED BY <2>1, <2>2, <2>3
<1>2. AllowedUpcall
  BY <1>1 DEF AllowedUpcall
<1>3. UpTypes' /\ Arrives' /\ Attached' /\ ChunksMove' /\ (returned' => finishedSending')
  <2>1. /\ told' \in {"nothing", "headers", "error", "end"}
        /\ await' \in {"none", "response", "pump", "read", "catch", "caught"}
        /\ upcalls' \in Seq(Upcall)
    BY <1>1 DEF TransportInv, UpTypes
  <2> QED BY <1>1, <1>2, <2>1, AfterUpcall
<1>4. XhrAndNode'
  BY <1>1, UpcallSays DEF XhrAndNode
<1>5. FetchWaits' /\ Detached' /\ Scripted'
  BY <1>1, OtherTransports
<1> QED BY <1>2, <1>3, <1>4, <1>5 DEF TransportInv

LEMMA InvPump ==
  ASSUME TransportInv, UNCHANGED <<fakeVars, returned>>, Pump
  PROVE  TransportInv' /\ UNCHANGED <<received, passed, seen, clientVars>>
<1>1. /\ UNCHANGED <<kind, body, answer, told, upcallVars, clientVars>>
      /\ kind = "fetch" /\ await = "pump" /\ await' \in {"none", "read"}
      /\ wire' = wire \/ wire' = "aborted"
  BY DEF Pump, Resumes
<1>2. UpTypes'
  BY <1>1 DEF TransportInv, UpTypes, upcallVars, fakeVars, IsBody
<1>3. Arrives' /\ Attached' /\ ChunksMove' /\ (returned' => finishedSending')
  BY <1>1 DEF TransportInv, Arrives, Attached, ChunksMove, upcallVars, clientVars, flags
<1>4. FetchWaits'
  BY <1>1 DEF TransportInv, FetchWaits, Nothing, upcallVars, clientVars, flags
<1>5. XhrAndNode' /\ Detached' /\ Scripted'
  BY <1>1, OtherTransports
<1> QED BY <1>1, <1>2, <1>3, <1>4, <1>5 DEF TransportInv, upcallVars

LEMMA InvFetch ==
  ASSUME TransportInv, UNCHANGED <<fakeVars, returned>>,
         FetchResponse \/ ReadValue \/ ReadDone \/ Catch
  PROVE  TransportInv' /\ Upcalls
<1>1. /\ UNCHANGED <<kind, body, wire, answer, told, upcalls>>
      /\ kind = "fetch" /\ await \in {"response", "read", "catch"}
      /\ \/ /\ AllowedUpcall /\ await' \in {"pump", "catch", "none"} /\ ~seen.ended /\ ~UpEnd
         \/ /\ UpEnd /\ await' \in {"none", "caught"}
         \/ /\ UNCHANGED <<received, passed, seen, clientVars>> /\ await' \in {"none", "caught"}
  <2>1. CASE FetchResponse
    <3>1. /\ UpHeaders(answer.status, answer.http) /\ await' \in {"pump", "none"}
          /\ answer # NoResponse /\ UNCHANGED <<kind, body, wire, answer, told, upcalls>>
          /\ kind = "fetch" /\ await = "response"
      BY <2>1 DEF FetchResponse, Resumes, wireVars
    <3>2. Nothing
      BY <3>1 DEF TransportInv, FetchWaits
    <3>3. AllowedHeaders(answer.status, answer.http)
      BY <3>1, <3>2, ResponseSaid DEF AllowedHeaders, Nothing
    <3>4. ~UpEnd
      BY <3>1, <3>2, UpHeadersEffect, UpEndEffect DEF TransportInv, UpTypes, Nothing
    <3> QED BY <3>1, <3>2, <3>3, <3>4 DEF AllowedUpcall, Nothing
  <2>2. CASE ReadValue
    <3>1. PICK n : n \in passed + 1 .. Len(received) /\ UpChunk(n) /\ await' \in {"catch", "pump"}
      BY <2>2 DEF ReadValue
    <3>2. /\ kind = "fetch" /\ await = "read"
          /\ UNCHANGED <<kind, body, wire, answer, told, upcalls>>
      BY <2>2 DEF ReadValue, Resumes, wireVars
    <3>3. ~seen.ended
      BY <3>2 DEF TransportInv, FetchWaits
    <3>4. AllowedChunk(n)
      <4>1. n \in passed..Len(received) /\ n > passed
        BY <3>1, LenProperties DEF TransportInv, UpTypes, IsBody
      <4> QED BY <3>1, <3>2, <3>3, <4>1 DEF AllowedChunk
    <3>5. ~UpEnd
      BY <3>1, <3>3, UpChunkEffect, UpEndEffect DEF TransportInv, UpTypes
    <3> QED BY <3>1, <3>2, <3>3, <3>4, <3>5 DEF AllowedUpcall
  <2>3. CASE ReadDone
    BY <2>3 DEF ReadDone, Resumes, wireVars
  <2>4. CASE Catch
    BY <2>4 DEF Catch, Resumes, wireVars, upcallVars
  <2> QED BY <2>1, <2>2, <2>3, <2>4
<1>2. Upcalls
  BY <1>1 DEF AllowedUpcall, Upcalls
<1>3. await' \in {"none", "pump", "catch", "caught"} /\ await # "none"
  BY <1>1
<1>4. UpTypes' /\ Arrives' /\ Attached' /\ ChunksMove' /\ (returned' => finishedSending')
  <2>1. CASE AllowedUpcall
    <3>1. /\ told' \in {"nothing", "headers", "error", "end"}
          /\ await' \in {"none", "response", "pump", "read", "catch", "caught"}
          /\ upcalls' \in Seq(Upcall)
      BY <1>1, <1>3 DEF TransportInv, UpTypes
    <3> QED BY <1>1, <2>1, <3>1, AfterUpcall
  <2>2. CASE UNCHANGED <<received, passed, seen, clientVars>>
    <3>1. UpTypes'
      BY <1>1, <1>3, <2>2 DEF TransportInv, UpTypes, fakeVars, IsBody
    <3> QED BY <1>1, <2>2, <3>1 DEF TransportInv, Arrives, Attached, ChunksMove, clientVars, flags
  <2> QED BY <1>2, <2>1, <2>2 DEF Upcalls
<1>5. FetchWaits'
  <2>1. sentFirstMessage /\ sentFirstMessage' = sentFirstMessage
    <3>1. sentFirstMessage
      BY <1>1, <1>3 DEF TransportInv, FetchWaits
    <3>2. CASE AllowedUpcall
      <4>1. /\ told' \in {"nothing", "headers", "error", "end"}
            /\ await' \in {"none", "response", "pump", "read", "catch", "caught"}
            /\ upcalls' \in Seq(Upcall)
        BY <1>1, <1>3 DEF TransportInv, UpTypes
      <4> QED BY <1>1, <3>1, <3>2, <4>1, AfterUpcall DEF flags
    <3>3. CASE UNCHANGED <<received, passed, seen, clientVars>>
      BY <3>1, <3>3 DEF clientVars, flags
    <3> QED BY <1>2, <3>2, <3>3 DEF Upcalls
  <2>2. await' \in {"pump", "read", "catch"} => ~seen'.ended
    BY <1>1, UpcallSays
  <2> QED BY <1>3, <2>1, <2>2 DEF FetchWaits
<1>6. XhrAndNode' /\ Detached' /\ Scripted'
  BY <1>1, OtherTransports
<1> QED BY <1>2, <1>4, <1>5, <1>6 DEF TransportInv

\* React Native: what an event appends to the queue.
LEMMA InvDetach ==
  ASSUME TransportInv, kind = "rn", UNCHANGED <<fakeVars, returned>>,
         OnStateChange \/ OnErrorEvent \/ OnLoadEventArrayBuffer
  PROVE  TransportInv' /\ UNCHANGED <<received, passed, seen, clientVars>>
<1> DEFINE n == IF told = "error" THEN 0 ELSE Len(received)
           L == Len(upcalls)
<1>1. /\ UNCHANGED <<kind, body, wire, answer, await, received, passed, seen, clientVars>>
      /\ wire # "aborted"
      /\ \/ /\ told = "nothing" /\ told' = "headers" /\ answer # NoResponse
            /\ upcalls' = Append(upcalls, HeadersCall(answer.status, answer.http))
         \/ /\ told \in {"nothing", "headers"} /\ told' = "error"
            /\ upcalls' = Append(upcalls, EndCall)
         \/ /\ told \in {"headers", "error"} /\ told' = "end"
            /\ upcalls' = upcalls \o <<ChunkCall(n), EndCall>>
  BY DEF OnStateChange, OnErrorEvent, OnLoadEventArrayBuffer, XhrEvent, wireVars, fetchVars
<1>2. /\ upcalls \in Seq(Upcall) /\ L \in Nat /\ (upcalls = <<>> <=> L = 0)
      /\ Len(received) \in Nat /\ n \in Nat /\ n <= Len(received)
  BY EmptyQueue, LenProperties DEF TransportInv, UpTypes, IsBody
<1>3. EndCall \in Upcall /\ ChunkCall(n) \in Upcall
  BY <1>2 DEF Upcall, EndCall, ChunkCall
<1> HIDE DEF n
<1>4. /\ told = "nothing" => L = 0 /\ Nothing
      /\ told \in {"nothing", "headers"} => /\ ~seen.ended /\ seen.chunks = 0
                                            /\ \A p \in 1..L : upcalls[p].do = "headers"
      /\ told = "error" => seen.chunks = 0 /\ \A p \in 1..L : upcalls[p].do # "chunk"
      /\ \A p \in 1..L : upcalls[p].do = "headers" => p = 1 /\ Nothing
  <2>1. Detached /\ wire # "aborted" /\ kind = "rn"
    BY <1>1 DEF TransportInv
  <2>2. told = "nothing" => L = 0 /\ Nothing
    BY <1>2, <2>1 DEF Detached
  <2> QED BY <1>2, <2>1, <2>2 DEF Detached, Nothing
<1>5. upcalls' \in Seq(Upcall) /\ Detached'
  <2>1. Nothing' = Nothing /\ seen' = seen /\ received' = received /\ kind' = kind /\ closed' = closed
        /\ wire' = wire /\ wire # "aborted"
    BY <1>1 DEF Nothing, clientVars, flags
  <2>2. CASE /\ told = "nothing" /\ told' = "headers" /\ answer # NoResponse
             /\ upcalls' = Append(upcalls, HeadersCall(answer.status, answer.http))
    <3>1. HeadersCall(answer.status, answer.http) \in Upcall
      BY <2>2, ResponseSaid DEF HeadersCall, Upcall
    <3>2. /\ upcalls' \in Seq(Upcall) /\ Len(upcalls') = 1 /\ upcalls'[1].do = "headers"
      <4>1. HeadersCall(answer.status, answer.http).do = "headers"
        BY DEF HeadersCall
      <4>2. L = 0
        BY <1>4, <2>2
      <4> QED BY <1>2, <2>2, <3>1, <4>1, <4>2, QueuePush
    <3> QED BY <1>4, <2>1, <2>2, <3>2 DEF Detached, Nothing
  <2>3. CASE /\ told \in {"nothing", "headers"} /\ told' = "error"
             /\ upcalls' = Append(upcalls, EndCall)
    <3>1. /\ upcalls' \in Seq(Upcall) /\ Len(upcalls') = L + 1
          /\ \A p \in 1..L : upcalls'[p] = upcalls[p]
          /\ upcalls'[L + 1].do = "end"
      <4>1. EndCall.do = "end"
        BY DEF EndCall
      <4> QED BY <1>2, <1>3, <2>3, <4>1, QueuePush
    <3>2. \A p \in 1..(L + 1) : p \in 1..L \/ p = L + 1
      BY <1>2
    <3>3. \A p \in 1..(L + 1) : /\ upcalls'[p].do # "chunk"
                                /\ upcalls'[p].do = "headers" => p = 1 /\ Nothing
      BY <1>4, <2>3, <3>1, <3>2
    <3> QED BY <1>4, <2>1, <2>3, <3>1, <3>3 DEF Detached
  <2>4. CASE /\ told \in {"headers", "error"} /\ told' = "end"
             /\ upcalls' = upcalls \o <<ChunkCall(n), EndCall>>
    <3>1. /\ upcalls' \in Seq(Upcall) /\ Len(upcalls') = L + 2
          /\ \A p \in 1..L : upcalls'[p] = upcalls[p]
          /\ upcalls'[L + 1].do = "chunk" /\ upcalls'[L + 1].upto = n
          /\ upcalls'[L + 2].do = "end"
      <4>1. EndCall.do = "end" /\ ChunkCall(n).do = "chunk" /\ ChunkCall(n).upto = n
        BY DEF EndCall, ChunkCall
      <4> QED BY <1>2, <1>3, <2>4, <4>1, QueuePushTwo
    <3>2. /\ \A p \in 1..L : upcalls[p].do # "chunk" /\ (n # 0 => upcalls[p].do # "end")
          /\ seen.chunks = 0 /\ (seen.ended => n = 0)
      BY <1>4, <2>4 DEF n
    <3>3. \A p \in 1..(L + 2) : p \in 1..L \/ p = L + 1 \/ p = L + 2
      BY <1>2
    <3>4. \A p \in 1..(L + 2) : /\ upcalls'[p].do = "headers" => p = 1 /\ Nothing
                                /\ upcalls'[p].do = "chunk" => p = L + 1 /\ upcalls'[p].upto = n
      BY <1>4, <3>1, <3>2, <3>3
    <3>5. \A p \in 1..(L + 2) : \A q \in 1..(p - 1) : upcalls'[p].do = "chunk" =>
            upcalls'[q].do # "chunk" /\ (upcalls'[q].do = "end" => upcalls'[p].upto = 0)
      <4> TAKE p \in 1..(L + 2)
      <4> TAKE q \in 1..(p - 1)
      <4> HAVE upcalls'[p].do = "chunk"
      <4>1. q \in 1..L /\ upcalls'[p].upto = n
        BY <1>2, <3>4
      <4> QED BY <3>1, <3>2, <4>1
    <3>6. ~closed' => wire' # "aborted"
      BY <2>1
    <3> QED BY <1>2, <2>1, <2>4, <3>1, <3>2, <3>4, <3>5, <3>6 DEF Detached
  <2> QED BY <1>1, <2>2, <2>3, <2>4
<1>6. UpTypes'
  BY <1>1, <1>5 DEF TransportInv, UpTypes, IsBody, fakeVars
<1>7. Arrives' /\ Attached' /\ ChunksMove' /\ (returned' => finishedSending')
  BY <1>1 DEF TransportInv, Arrives, Attached, ChunksMove, clientVars, flags
<1>8. XhrAndNode' /\ FetchWaits' /\ Scripted'
  BY <1>1, OtherTransports
<1> QED BY <1>1, <1>5, <1>6, <1>7, <1>8 DEF TransportInv

\* The first upcall of the queue is made and leaves it.
LEMMA RunsHead ==
  ASSUME TransportInv, RunUpcall
  PROVE  /\ Len(upcalls) \in Nat \ {0} /\ upcalls[1] \in Upcall /\ Make(upcalls[1])
         /\ upcalls' \in Seq(Upcall) /\ Len(upcalls') = Len(upcalls) - 1
         /\ \A p \in 1..Len(upcalls') : upcalls'[p] = upcalls[p + 1] /\ p + 1 \in 1..Len(upcalls)
<1>1. upcalls \in Seq(Upcall) /\ upcalls # <<>> /\ upcalls' = Tail(upcalls) /\ Make(Head(upcalls))
  BY DEF TransportInv, UpTypes, RunUpcall
<1>2. /\ Head(upcalls) \in Upcall /\ Head(upcalls) = upcalls[1] /\ Len(upcalls) \in Nat \ {0}
      /\ Tail(upcalls) \in Seq(Upcall) /\ Len(Tail(upcalls)) = Len(upcalls) - 1
      /\ \A p \in 1..Len(Tail(upcalls)) : Tail(upcalls)[p] = upcalls[p + 1]
  BY <1>1, QueuePop
<1>3. \A p \in 1..(Len(upcalls) - 1) : p + 1 \in 1..Len(upcalls)
  BY <1>2
<1> QED BY <1>1, <1>2, <1>3

\* The three kinds of upcall do different things.
LEMMA MakeOne ==
  ASSUME NEW c \in Upcall, Make(c)
  PROVE  \/ /\ c.do = "headers" /\ c.status \in SaidInHeaders /\ c.http \in HttpCodes
            /\ UpHeaders(c.status, c.http)
         \/ c.do = "chunk" /\ c.upto \in Nat /\ UpChunk(c.upto)
         \/ c.do = "end" /\ UpEnd
  BY DEF Upcall, Make

LEMMA InvDetachedRuns ==
  ASSUME TransportInv, DetachedRuns, UNCHANGED <<fakeVars, returned>>
  PROVE  TransportInv' /\ AllowedUpcall
<1> DEFINE c == upcalls[1]
           L == Len(upcalls)
<1>1. /\ UNCHANGED <<kind, body, wire, answer, await, told>> /\ kind = "rn" /\ RunUpcall
  BY DEF DetachedRuns, httpVars, wireVars, fetchVars
<1>2. /\ L \in Nat \ {0} /\ c \in Upcall /\ Make(c)
      /\ upcalls' \in Seq(Upcall) /\ Len(upcalls') = L - 1
      /\ \A p \in 1..(L - 1) : upcalls'[p] = upcalls[p + 1] /\ p + 1 \in 1..L
  BY <1>1, RunsHead
<1>3. Detached /\ UpTypes /\ ChunksMove
  BY DEF TransportInv
<1>4. 1 \in 1..L /\ \A p \in 2..L : 1 \in 1..(p - 1)
  BY <1>2
<1>5. /\ c.do = "headers" => Nothing
      /\ c.do = "chunk" => seen.chunks = 0 /\ c.upto <= Len(received) /\ (seen.ended => c.upto = 0)
      /\ \A p \in 2..L : /\ upcalls[p].do # "headers"
                         /\ upcalls[p].do = "chunk" =>
                              /\ seen.chunks = 0 /\ upcalls[p].upto <= Len(received)
                              /\ seen.ended => upcalls[p].upto = 0
                              /\ c.do # "chunk"
                              /\ c.do = "end" => upcalls[p].upto = 0
  <2>1. \A p \in 2..L : p \in 1..L /\ p # 1
    OBVIOUS
  <2> QED BY <1>1, <1>3, <1>4, <2>1 DEF Detached
<1>6. /\ \A p \in 2..L : \A q \in 2..(p - 1) : upcalls[p].do = "chunk" =>
           upcalls[q].do # "chunk" /\ (upcalls[q].do = "end" => upcalls[p].upto = 0)
  <2>1. \A p \in 2..L : p \in 1..L /\ \A q \in 2..(p - 1) : q \in 1..(p - 1)
    OBVIOUS
  <2> QED BY <1>1, <1>3, <2>1 DEF Detached
<1>7. /\ ~closed => wire # "aborted"
      /\ wire # "aborted" =>
           /\ told # "nothing"
           /\ told = "headers" => /\ ~seen.ended /\ seen.chunks = 0
                                  /\ c.do = "headers" /\ \A p \in 2..L : upcalls[p].do = "headers"
           /\ told = "error" => /\ seen.chunks = 0
                                /\ c.do # "chunk" /\ \A p \in 2..L : upcalls[p].do # "chunk"
  <2>1. upcalls # <<>>
    BY <1>1 DEF RunUpcall
  <2>2. \A p \in 2..L : p \in 1..L
    OBVIOUS
  <2> QED BY <1>1, <1>3, <1>4, <2>1, <2>2 DEF Detached
<1>8. \/ c.do = "headers" /\ AllowedHeaders(c.status, c.http)
      \/ c.do = "chunk" /\ AllowedChunk(c.upto)
      \/ c.do = "end" /\ UpEnd
  <2>1. CASE c.do = "headers" /\ c.status \in SaidInHeaders /\ c.http \in HttpCodes
             /\ UpHeaders(c.status, c.http)
    BY <1>5, <2>1 DEF AllowedHeaders, Nothing
  <2>2. CASE c.do = "chunk" /\ c.upto \in Nat /\ UpChunk(c.upto)
    <3>1. passed = 0 /\ c.upto \in 0..Len(received) /\ seen.chunks = 0
      BY <1>3, <1>5, <2>2, LenProperties DEF ChunksMove, UpTypes, IsBody
    <3> QED BY <1>1, <1>5, <2>2, <3>1 DEF AllowedChunk
  <2> QED BY <1>2, <2>1, <2>2, MakeOne
<1>9. AllowedUpcall
  BY <1>8 DEF AllowedUpcall
<1>10. /\ UpTypes' /\ Arrives' /\ Attached' /\ ChunksMove' /\ (returned' => finishedSending')
       /\ UNCHANGED <<received, flags>>
  <2>1. /\ told' \in {"nothing", "headers", "error", "end"}
        /\ await' \in {"none", "response", "pump", "read", "catch", "caught"}
    BY <1>1, <1>3 DEF UpTypes
  <2> QED BY <1>1, <1>2, <1>9, <2>1, AfterUpcall
<1>11. \/ /\ c.do = "headers" /\ seen'.ended = seen.ended /\ seen'.chunks = seen.chunks
       \/ /\ c.do = "chunk" /\ seen'.ended = seen.ended
       \/ /\ c.do = "end" /\ seen'.ended = TRUE /\ seen'.chunks = seen.chunks
  <2>1. ASSUME AllowedHeaders(c.status, c.http)
        PROVE  seen'.ended = seen.ended /\ seen'.chunks = seen.chunks
    BY <1>3, <2>1, UpHeadersEffect DEF AllowedHeaders
  <2>2. ASSUME AllowedChunk(c.upto) PROVE seen'.ended = seen.ended
    BY <1>3, <2>2, UpChunkEffect DEF AllowedChunk
  <2>3. ASSUME UpEnd PROVE seen'.ended = TRUE /\ seen'.chunks = seen.chunks
    BY <1>3, <2>3, UpEndEffect
  <2> QED BY <1>8, <2>1, <2>2, <2>3
<1>12. Detached'
  <2>1. \A p \in 1..(L - 1) : p + 1 \in 2..L /\ \A q \in 1..(p - 1) : q + 1 \in 2..((p + 1) - 1)
    BY <1>2
  <2>2. \A p \in 1..Len(upcalls') :
          /\ upcalls'[p].do # "headers"
          /\ upcalls'[p].do = "chunk" =>
               /\ seen'.chunks = 0 /\ upcalls'[p].upto <= Len(received')
               /\ seen'.ended => upcalls'[p].upto = 0
    <3> TAKE p \in 1..Len(upcalls')
    <3>1. PICK u : u = upcalls'[p]
      OBVIOUS
    <3>2. PICK q : q = p + 1
      OBVIOUS
    <3>3. q \in 2..L /\ u = upcalls[q]
      BY <1>2, <2>1, <3>1, <3>2
    <3>4. /\ u.do # "headers"
          /\ u.do = "chunk" =>
               /\ seen.chunks = 0 /\ u.upto <= Len(received) /\ (seen.ended => u.upto = 0)
               /\ c.do # "chunk" /\ (c.do = "end" => u.upto = 0)
      BY <1>5, <3>3
    <3>5. received' = received
      BY <1>10 DEF flags
    <3>6. u.do = "chunk" => seen'.chunks = 0 /\ (seen'.ended => u.upto = 0)
      BY <1>11, <3>4
    <3> QED BY <3>1, <3>4, <3>5, <3>6
  <2>3. \A p \in 1..Len(upcalls') : \A q \in 1..(p - 1) : upcalls'[p].do = "chunk" =>
          upcalls'[q].do # "chunk" /\ (upcalls'[q].do = "end" => upcalls'[p].upto = 0)
    <3> TAKE p \in 1..Len(upcalls')
    <3> TAKE q \in 1..(p - 1)
    <3>1. /\ p + 1 \in 2..L /\ q + 1 \in 2..((p + 1) - 1)
          /\ upcalls'[p] = upcalls[p + 1] /\ upcalls'[q] = upcalls[q + 1]
      BY <1>2, <2>1
    <3> QED BY <1>6, <3>1
  <2>4. /\ ~closed' => wire' # "aborted"
        /\ wire' # "aborted" =>
             /\ told' # "nothing"
             /\ told' = "headers" => /\ ~seen'.ended /\ seen'.chunks = 0
                                     /\ \A p \in 1..Len(upcalls') : upcalls'[p].do = "headers"
             /\ told' = "error" => /\ seen'.chunks = 0
                                   /\ \A p \in 1..Len(upcalls') : upcalls'[p].do # "chunk"
    <3>1. wire' = wire /\ told' = told /\ closed' = closed
      BY <1>1, <1>10 DEF flags
    <3>2. /\ (\A p \in 2..L : upcalls[p].do = "headers")
             => \A p \in 1..Len(upcalls') : upcalls'[p].do = "headers"
          /\ (\A p \in 2..L : upcalls[p].do # "chunk")
             => \A p \in 1..Len(upcalls') : upcalls'[p].do # "chunk"
      <4>1. \A p \in 1..Len(upcalls') : p + 1 \in 2..L /\ upcalls'[p] = upcalls[p + 1]
        BY <1>2, <2>1
      <4> QED BY <4>1
    <3>3. c.do = "headers" /\ ~seen.ended => ~seen'.ended
      BY <1>11
    <3>4. c.do # "chunk" => seen'.chunks = seen.chunks
      BY <1>11
    <3> QED BY <1>7, <3>1, <3>2, <3>3, <3>4
  <2> QED BY <2>2, <2>3, <2>4 DEF Detached
<1>13. XhrAndNode' /\ FetchWaits' /\ Scripted'
  BY <1>1, OtherTransports
<1> QED BY <1>9, <1>10, <1>12, <1>13 DEF TransportInv

-----------------------------------------------------------------------------
(* The invariant: the fake transport *)

\* How many upcalls of each kind a script has.
LEMMA PlanNumbers ==
  ASSUME script \in Scripts
  PROVE  /\ script.messages \in Nat /\ script.messages < MaxBody /\ MaxBody \in Nat
         /\ ScriptHeaders \in {1, 2} /\ ScriptChunks \in Nat
         /\ ScriptUpcalls = ScriptHeaders + ScriptChunks + 1
         /\ MessagesSent => ScriptHeaders = 1 /\ ScriptChunks = script.messages + 1 /\ HeadersSent
         /\ ~MessagesSent => ScriptChunks = 0 /\ ScriptHeaders = IF HeadersSent THEN 2 ELSE 1
  BY UnaryAssumption DEF IsScript, ScriptHeaders, ScriptChunks, ScriptUpcalls, MessagesSent

\* The body of a script is one that a server could send, without a bad message.
LEMMA ScriptIsBody ==
  ASSUME script \in Scripts
  PROVE  /\ IsBody(ScriptedBody) /\ Len(ScriptedBody) = script.messages + 1
         /\ \A i \in 1..script.messages : ScriptedBody[i] = [type |-> "message", val |-> i]
         /\ ScriptedBody[script.messages + 1].type = "trailers"
         /\ ScriptedBody[script.messages + 1].val =
              IF script.preTrailersError # Null THEN script.preTrailersError ELSE OK
<1> DEFINE m == [n \in 1..script.messages |-> [type |-> "message", val |-> n]]
           v == IF script.preTrailersError # Null THEN script.preTrailersError ELSE OK
           t == <<[type |-> "trailers", val |-> v]>>
<1>1. /\ m \in Seq(Item) /\ Len(m) = script.messages /\ script.messages \in Nat
      /\ script.messages < MaxBody /\ MaxBody \in Nat
      /\ \A i \in 1..script.messages : m[i] = [type |-> "message", val |-> i]
  BY PlanNumbers DEF Item
<1>2. v \in Status
  BY UnaryAssumption DEF IsScript, Status, OK
<1>3. t \in Seq(Item) /\ Len(t) = 1 /\ t[1].type = "trailers" /\ t[1].val = v
  BY <1>2 DEF Item
<1>4. ScriptedBody = m \o t
  BY DEF ScriptedBody
<1> HIDE DEF m, t, v
<1>5. Joined(Item, m, t, m \o t)
  BY <1>1, <1>3, QueueJoin
<1>6. /\ ScriptedBody \in Seq(Item) /\ Len(ScriptedBody) = script.messages + 1
      /\ \A i \in 1..script.messages : ScriptedBody[i] = [type |-> "message", val |-> i]
      /\ ScriptedBody[script.messages + 1].type = "trailers"
      /\ ScriptedBody[script.messages + 1].val = v
  <2>1. PICK u : u = ScriptedBody /\ Joined(Item, m, t, u)
    BY <1>4, <1>5
  <2>2. /\ u \in Seq(Item) /\ Len(u) = script.messages + 1
        /\ \A i \in 1..script.messages : u[i] = m[i]
        /\ u[script.messages + 1] = t[1]
    BY <1>1, <1>3, <2>1 DEF Joined
  <2> QED BY <1>1, <1>3, <2>1, <2>2
<1>7. \A i \in 1..(script.messages + 1) : i \in 1..script.messages \/ i = script.messages + 1
  BY <1>1
<1>8. \A i \in 1..script.messages : ScriptedBody[i].type = "message" /\ ScriptedBody[i].val = i
  <2> TAKE i \in 1..script.messages
  <2>1. ScriptedBody[i] = [type |-> "message", val |-> i]
    BY <1>6
  <2> QED BY <2>1
<1>9. IsBody(ScriptedBody)
  BY <1>1, <1>6, <1>7, <1>8 DEF IsBody
<1> QED BY <1>6, <1>9 DEF v

\* No more is ever triggered than the script has.
LEMMA TriggeredBound ==
  ASSUME TransportInv, kind = "fake"
  PROVE  Triggered \in 0..ScriptUpcalls
<1>1. /\ script \in Scripts /\ triggered \in 0..3
      /\ (triggered = 2 => HeadersSent)
  BY DEF TransportInv, UpTypes, Scripted
<1> QED BY <1>1, PlanNumbers DEF Triggered

LEMMA UpcallKind ==
  ASSUME script \in Scripts, NEW i \in Nat \ {0}
  PROVE  /\ ScriptUpcall(i).do = IF i <= ScriptHeaders THEN "headers"
                                 ELSE IF i <= ScriptHeaders + ScriptChunks THEN "chunk" ELSE "end"
         /\ i > ScriptHeaders /\ i <= ScriptHeaders + ScriptChunks =>
              ScriptUpcall(i).upto = i - ScriptHeaders
<1> DEFINE H == ScriptHeaders
           C == ScriptChunks
<1>1. H \in {1, 2} /\ C \in Nat
  BY PlanNumbers
<1>2. /\ \A s, c : HeadersCall(s, c).do = "headers"
      /\ \A n : ChunkCall(n).do = "chunk" /\ ChunkCall(n).upto = n
      /\ EndCall.do = "end"
  BY DEF HeadersCall, ChunkCall, EndCall
<1>3. CASE i = 1
  <2>1. PICK code : ScriptUpcall(i) = HeadersCall(NoStatus, code)
    BY <1>3 DEF ScriptUpcall
  <2>2. PICK upcall : upcall = ScriptUpcall(i)
    OBVIOUS
  <2>3. upcall.do = "headers"
    BY <1>2, <2>1, <2>2
  <2> QED BY <1>1, <1>3, <2>2, <2>3
<1>4. CASE i # 1 /\ i <= H
  <2>1. ScriptUpcall(i) = HeadersCall(script.preMessagesError, 200)
    BY <1>4 DEF ScriptUpcall
  <2> QED BY <1>1, <1>2, <1>4, <2>1
<1>5. CASE i > H /\ i <= H + C
  <2>1. i # 1 /\ ~(i <= H)
    BY <1>1, <1>5
  <2>2. ScriptUpcall(i) = ChunkCall(i - H)
    BY <1>5, <2>1 DEF ScriptUpcall
  <2> QED BY <1>1, <1>2, <1>5, <2>1, <2>2
<1>6. CASE i > H + C
  <2>1. i # 1 /\ ~(i <= H) /\ ~(i <= H + C)
    BY <1>1, <1>6
  <2>2. ScriptUpcall(i) = EndCall
    BY <2>1 DEF ScriptUpcall
  <2> QED BY <1>2, <2>1, <2>2
<1> QED BY <1>1, <1>3, <1>4, <1>5, <1>6

\* Which upcall of the script is the next.
LEMMA NextOfScript ==
  ASSUME TransportInv, kind = "fake", RunUpcall
  PROVE  \/ /\ upcalls[1].do = "headers" /\ seen.headers < ScriptHeaders /\ seen.chunks = 0
            /\ ~seen.ended
         \/ /\ upcalls[1].do = "chunk" /\ seen.headers = ScriptHeaders /\ seen.chunks < ScriptChunks
            /\ ~seen.ended /\ upcalls[1].upto = seen.chunks + 1
         \/ /\ upcalls[1].do = "end" /\ seen.headers = ScriptHeaders /\ seen.chunks = ScriptChunks
            /\ ~seen.ended
<1> DEFINE H == ScriptHeaders
           C == ScriptChunks
           L == Len(upcalls)
<1>1. L \in Nat \ {0}
  BY RunsHead
<1>2. /\ seen.headers \in Nat /\ seen.chunks \in Nat /\ seen.ended \in BOOLEAN
      /\ script \in Scripts
  BY UnaryAssumption DEF TransportInv, UpTypes
<1>3. H \in {1, 2} /\ C \in Nat /\ ScriptUpcalls = H + C + 1
  BY <1>2, PlanNumbers
<1>4. /\ seen.headers <= H /\ seen.chunks <= C
      /\ seen.chunks > 0 => seen.headers = H
      /\ seen.ended => seen.headers = H /\ seen.chunks = C
      /\ Made + L = Triggered /\ upcalls[1] = ScriptUpcall(Made + 1)
  BY <1>1 DEF TransportInv, Scripted
<1>5. Made = seen.headers + seen.chunks + (IF seen.ended THEN 1 ELSE 0) /\ Triggered \in 0..ScriptUpcalls
  BY TriggeredBound DEF Made
<1>6. ~seen.ended /\ Made = seen.headers + seen.chunks
  BY <1>1, <1>2, <1>3, <1>4, <1>5
<1>7. PICK m : m = seen.headers + seen.chunks + 1 /\ m \in Nat \ {0} /\ upcalls[1] = ScriptUpcall(m)
  <2>1. Made + 1 \in Nat \ {0} /\ Made + 1 = seen.headers + seen.chunks + 1
    BY <1>2, <1>6
  <2> QED BY <1>4, <2>1
<1>8. /\ upcalls[1].do = IF m <= H THEN "headers" ELSE IF m <= H + C THEN "chunk" ELSE "end"
      /\ m > H /\ m <= H + C => upcalls[1].upto = m - H
  BY <1>2, <1>7, UpcallKind
<1> HIDE DEF H, C, L
<1>9. CASE m <= H
  <2>1. seen.headers < H /\ seen.chunks = 0
    BY <1>2, <1>3, <1>4, <1>7, <1>9
  <2> QED BY <1>6, <1>8, <1>9, <2>1 DEF H
<1>10. CASE m > H /\ m <= H + C
  <2>1. seen.headers = H /\ seen.chunks < C /\ m - H = seen.chunks + 1 /\ ~(m <= H)
    BY <1>2, <1>3, <1>4, <1>7, <1>10
  <2> QED BY <1>6, <1>8, <1>10, <2>1 DEF H, C
<1>11. CASE m > H + C
  <2>1. seen.headers = H /\ seen.chunks = C /\ ~(m <= H) /\ ~(m <= H + C)
    BY <1>2, <1>3, <1>4, <1>7, <1>11
  <2> QED BY <1>6, <1>8, <2>1 DEF H, C
<1> QED
  <2>1. m <= H \/ (m > H /\ m <= H + C) \/ m > H + C
    BY <1>3, <1>7
  <2> QED BY <1>9, <1>10, <1>11, <2>1

LEMMA InvFakeUpcall ==
  ASSUME TransportInv, kind = "fake", FakeUpcall, UNCHANGED <<httpVars, returned>>
  PROVE  TransportInv' /\ AllowedUpcall
<1> DEFINE c == upcalls[1]
           L == Len(upcalls)
<1>1. /\ UNCHANGED <<kind, body, wire, answer, await, told, fakeVars>> /\ RunUpcall
  BY DEF FakeUpcall, httpVars, wireVars, fetchVars
<1>2. /\ L \in Nat \ {0} /\ c \in Upcall /\ Make(c)
      /\ upcalls' \in Seq(Upcall) /\ Len(upcalls') = L - 1
      /\ \A p \in 1..(L - 1) : upcalls'[p] = upcalls[p + 1] /\ p + 1 \in 1..L
  BY <1>1, RunsHead
<1>3. /\ UpTypes /\ Scripted /\ script \in Scripts
      /\ seen.headers \in Nat /\ seen.chunks \in Nat /\ seen.ended \in BOOLEAN
  BY UnaryAssumption DEF TransportInv, UpTypes
<1>4. /\ ScriptHeaders \in {1, 2} /\ ScriptChunks \in Nat
      /\ ScriptChunks > 0 => ScriptChunks = script.messages + 1
  BY <1>3, PlanNumbers
<1>5. \/ /\ c.do = "headers" /\ seen.headers < ScriptHeaders /\ seen.chunks = 0 /\ ~seen.ended
         /\ AllowedHeaders(c.status, c.http)
      \/ /\ c.do = "chunk" /\ seen.headers = ScriptHeaders /\ seen.chunks < ScriptChunks
         /\ ~seen.ended /\ AllowedChunk(c.upto) /\ c.upto = seen.chunks + 1
      \/ /\ c.do = "end" /\ seen.headers = ScriptHeaders /\ seen.chunks = ScriptChunks
         /\ ~seen.ended /\ UpEnd
  <2>1. CASE c.do = "headers" /\ c.status \in SaidInHeaders /\ c.http \in HttpCodes
             /\ UpHeaders(c.status, c.http)
    <3>1. seen.headers < ScriptHeaders /\ seen.chunks = 0 /\ ~seen.ended
      BY <1>1, <2>1, NextOfScript
    <3> QED BY <1>3, <1>4, <2>1, <3>1 DEF AllowedHeaders
  <2>2. CASE c.do = "chunk" /\ c.upto \in Nat /\ UpChunk(c.upto)
    <3>1. /\ seen.headers = ScriptHeaders /\ seen.chunks < ScriptChunks /\ ~seen.ended
          /\ c.upto = seen.chunks + 1
      BY <1>1, <2>2, NextOfScript
    <3>2. passed = seen.chunks /\ Len(received) = script.messages + 1
      BY <1>3, ScriptIsBody DEF Scripted
    <3>3. c.upto \in passed..Len(received) /\ c.upto > passed
      BY <1>3, <1>4, <3>1, <3>2, PlanNumbers
    <3> QED BY <2>2, <3>1, <3>3 DEF AllowedChunk
  <2>3. CASE c.do = "end" /\ UpEnd
    <3>1. seen.headers = ScriptHeaders /\ seen.chunks = ScriptChunks /\ ~seen.ended
      BY <1>1, <2>3, NextOfScript
    <3> QED BY <2>3, <3>1
  <2> QED BY <1>2, <2>1, <2>2, <2>3, MakeOne
<1>6. AllowedUpcall
  BY <1>5 DEF AllowedUpcall
<1>7. /\ UpTypes' /\ Arrives' /\ Attached' /\ ChunksMove' /\ (returned' => finishedSending')
      /\ UNCHANGED <<received, flags>>
  <2>1. /\ told' \in {"nothing", "headers", "error", "end"}
        /\ await' \in {"none", "response", "pump", "read", "catch", "caught"}
    BY <1>1, <1>3 DEF UpTypes
  <2> QED BY <1>1, <1>2, <1>6, <2>1, AfterUpcall
<1>8. /\ Made' = Made + 1 /\ passed' = seen'.chunks /\ Made \in Nat
      /\ seen'.headers <= ScriptHeaders /\ seen'.chunks <= ScriptChunks
      /\ seen'.chunks > 0 => seen'.headers = ScriptHeaders
      /\ seen'.ended => seen'.headers = ScriptHeaders /\ seen'.chunks = ScriptChunks
  <2>1. passed = seen.chunks
    BY <1>3 DEF Scripted
  <2>2. Made = seen.headers + seen.chunks
    BY <1>3, <1>5 DEF Made
  <2>3. CASE /\ seen.headers < ScriptHeaders /\ seen.chunks = 0 /\ ~seen.ended
             /\ AllowedHeaders(c.status, c.http)
    <3>1. /\ seen'.headers = seen.headers + 1 /\ seen'.chunks = 0 /\ seen'.ended = seen.ended
          /\ passed' = passed
      BY <1>3, <2>3, UpHeadersEffect DEF AllowedHeaders
    <3> QED BY <1>3, <1>4, <2>1, <2>2, <2>3, <3>1 DEF Made
  <2>4. CASE /\ seen.headers = ScriptHeaders /\ seen.chunks < ScriptChunks
             /\ ~seen.ended /\ AllowedChunk(c.upto) /\ c.upto = seen.chunks + 1
    <3>1. /\ seen'.headers = seen.headers /\ seen'.chunks = seen.chunks + 1
          /\ seen'.ended = seen.ended /\ passed' = c.upto
      BY <1>3, <2>4, UpChunkEffect DEF AllowedChunk
    <3> QED BY <1>3, <1>4, <2>1, <2>2, <2>4, <3>1 DEF Made
  <2>5. CASE /\ seen.headers = ScriptHeaders /\ seen.chunks = ScriptChunks /\ ~seen.ended /\ UpEnd
    <3>1. /\ seen'.headers = seen.headers /\ seen'.chunks = seen.chunks /\ seen'.ended = TRUE
          /\ passed' = passed
      BY <1>3, <2>5, UpEndEffect
    <3> QED BY <1>3, <1>4, <2>1, <2>2, <2>5, <3>1 DEF Made
  <2> QED BY <1>5, <2>3, <2>4, <2>5
<1>9. Triggered' = Triggered
  BY <1>1, <1>7 DEF Triggered, fakeVars, flags, ScriptUpcalls, ScriptHeaders, ScriptChunks,
                    HeadersSent, MessagesSent
<1>10. Scripted'
  <2>1. Made' + Len(upcalls') = Triggered'
    <3>1. Made + L = Triggered
      BY <1>3 DEF Scripted
    <3> QED BY <1>2, <1>8, <1>9, <3>1
  <2>2. \A p \in 1..Len(upcalls') : upcalls'[p] = ScriptUpcall(Made' + p)
    <3> TAKE p \in 1..Len(upcalls')
    <3>1. upcalls'[p] = upcalls[p + 1] /\ p + 1 \in 1..L
      BY <1>2
    <3>2. upcalls[p + 1] = ScriptUpcall(Made + (p + 1))
      BY <1>3, <3>1 DEF Scripted
    <3>3. Made + (p + 1) = Made' + p
      BY <1>8
    <3> QED BY <3>1, <3>2, <3>3
  <2> QED BY <1>1, <1>3, <1>7, <1>8, <2>1, <2>2, SamePlan DEF Scripted, fakeVars, flags
<1>11. XhrAndNode' /\ FetchWaits' /\ Detached'
  BY <1>1, OtherTransports
<1> QED BY <1>6, <1>7, <1>10, <1>11 DEF TransportInv

\* A trigger makes the upcalls of its part of the script.
LEMMA InvTrigger ==
  ASSUME TransportInv, kind = "fake", returned, Trigger, UNCHANGED <<httpVars, returned>>
  PROVE  TransportInv' /\ UNCHANGED <<received, passed, seen, clientVars>>
<1>1. /\ UNCHANGED <<kind, body, wire, answer, await, told, script, received, passed, seen>>
      /\ UNCHANGED clientVars
      /\ ~script.autoTrigger /\ Len(upcalls) = 0 /\ triggered' = triggered + 1
      /\ \/ triggered = 0 /\ upcalls' = SendHeaders
         \/ triggered = 1 /\ HeadersSent /\ upcalls' = SendMessages
         \/ triggered = 2 /\ MessagesSent /\ upcalls' = SendTrailers
  BY EmptyQueue DEF Trigger, httpVars, wireVars, fetchVars, TransportInv, UpTypes
<1>2. /\ UpTypes /\ Scripted /\ script \in Scripts /\ Made = Triggered /\ finishedSending
      /\ seen.headers \in Nat /\ seen.chunks \in Nat /\ seen.ended \in BOOLEAN
  <2>1. UpTypes /\ Scripted /\ finishedSending
    BY DEF TransportInv
  <2>2. /\ script \in Scripts /\ seen.headers \in Nat /\ seen.chunks \in Nat /\ seen.ended \in BOOLEAN
    BY <2>1, UnaryAssumption DEF UpTypes
  <2>3. Made \in Nat /\ Made + 0 = Triggered
    BY <1>1, <2>1, <2>2 DEF Scripted, Made
  <2> QED BY <2>1, <2>2, <2>3
<1>3. /\ script.messages \in Nat /\ MaxBody \in Nat
      /\ ScriptHeaders \in {1, 2} /\ ScriptChunks \in Nat
      /\ ScriptUpcalls = ScriptHeaders + ScriptChunks + 1
      /\ MessagesSent => ScriptHeaders = 1 /\ ScriptChunks = script.messages + 1 /\ HeadersSent
      /\ ~MessagesSent => ScriptChunks = 0 /\ ScriptHeaders = IF HeadersSent THEN 2 ELSE 1
  BY <1>2, PlanNumbers
<1>4. /\ HeadersSent => script.preHeadersErrorCode = Null
      /\ ~HeadersSent => script.preHeadersErrorCode \in HttpCodes
      /\ HeadersSent /\ ~MessagesSent => script.preMessagesError \in SaidInHeaders
      /\ NoStatus \in SaidInHeaders /\ 200 \in HttpCodes
  BY <1>2, SaidIsStatus DEF HeadersSent, MessagesSent
<1> DEFINE h(s, c) == HeadersCall(s, c)
<1>5. /\ EndCall \in Upcall /\ \A n \in Nat : ChunkCall(n) \in Upcall
      /\ \A s \in SaidInHeaders, c \in HttpCodes : h(s, c) \in Upcall
  BY DEF EndCall, ChunkCall, HeadersCall, Upcall
<1> HIDE DEF h
<1>6. /\ upcalls' \in Seq(Upcall) /\ Made + Len(upcalls') = Triggered'
      /\ \A p \in 1..Len(upcalls') : upcalls'[p] = ScriptUpcall(Made + p)
      /\ triggered' \in 0..3 /\ (triggered' = 2 => HeadersSent) /\ (triggered' = 3 => MessagesSent)
  <2>1. /\ (HeadersSent' <=> HeadersSent) /\ (MessagesSent' <=> MessagesSent)
        /\ ScriptUpcalls' = ScriptUpcalls /\ script' = script
    BY <1>1, SamePlan
  <2>2. CASE triggered = 0 /\ upcalls' = SendHeaders
    <3>1. Made = 0 /\ triggered' = 1 /\ Triggered' = IF HeadersSent THEN 1 ELSE 2
      BY <1>1, <1>2, <2>1, <2>2 DEF Triggered
    <3>2. CASE HeadersSent
      <4>1. upcalls' = <<h(NoStatus, 200)>>
        BY <1>4, <2>2, <3>2 DEF SendHeaders, h
      <4>2. upcalls' \in Seq(Upcall) /\ Len(upcalls') = 1 /\ upcalls'[1] = h(NoStatus, 200)
        BY <1>4, <1>5, <4>1
      <4>3. ScriptUpcall(1) = h(NoStatus, 200)
        BY <3>2 DEF ScriptUpcall, h
      <4> QED BY <3>1, <3>2, <4>2, <4>3
    <3>3. CASE ~HeadersSent
      <4>1. upcalls' = <<h(NoStatus, script.preHeadersErrorCode), EndCall>>
        BY <2>2, <3>3 DEF SendHeaders, HeadersSent, h
      <4>2. /\ upcalls' \in Seq(Upcall) /\ Len(upcalls') = 2 /\ upcalls'[2] = EndCall
            /\ upcalls'[1] = h(NoStatus, script.preHeadersErrorCode)
        BY <1>4, <1>5, <3>3, <4>1
      <4>3. ScriptUpcall(1) = h(NoStatus, script.preHeadersErrorCode)
        BY <3>3 DEF ScriptUpcall, h
      <4>4. ScriptUpcall(2) = EndCall
        <5>1. ScriptHeaders = 1 /\ ScriptChunks = 0
          BY <1>3, <3>3 DEF MessagesSent
        <5> QED BY <5>1 DEF ScriptUpcall
      <4>5. \A p \in 1..2 : p = 1 \/ p = 2
        OBVIOUS
      <4> QED BY <3>1, <3>3, <4>2, <4>3, <4>4, <4>5
    <3> QED BY <3>2, <3>3
  <2>3. CASE triggered = 1 /\ HeadersSent /\ upcalls' = SendMessages
    <3>1. Made = 1 /\ triggered' = 2 /\ Triggered' = IF MessagesSent THEN script.messages + 1 ELSE 3
      BY <1>1, <1>2, <2>1, <2>3 DEF Triggered
    <3>2. CASE ~MessagesSent
      <4>1. upcalls' = <<h(script.preMessagesError, 200), EndCall>>
        BY <2>3, <3>2 DEF SendMessages, MessagesSent, h
      <4>2. /\ upcalls' \in Seq(Upcall) /\ Len(upcalls') = 2 /\ upcalls'[2] = EndCall
            /\ upcalls'[1] = h(script.preMessagesError, 200)
        BY <1>4, <1>5, <2>3, <3>2, <4>1
      <4>3. ScriptHeaders = 2 /\ ScriptChunks = 0
        BY <1>3, <2>3, <3>2
      <4>4. ScriptUpcall(2) = h(script.preMessagesError, 200) /\ ScriptUpcall(3) = EndCall
        BY <4>3 DEF ScriptUpcall, h
      <4>5. \A p \in 1..2 : p = 1 \/ p = 2
        OBVIOUS
      <4> QED BY <2>3, <3>1, <3>2, <4>2, <4>4, <4>5
    <3>3. CASE MessagesSent
      <4>1. upcalls' = [n \in 1..script.messages |-> ChunkCall(n)]
        BY <2>3, <3>3 DEF SendMessages, MessagesSent
      <4>2. /\ upcalls' \in Seq(Upcall) /\ Len(upcalls') = script.messages
            /\ \A p \in 1..script.messages : upcalls'[p] = ChunkCall(p)
        BY <1>3, <1>5, <4>1
      <4>3. ScriptHeaders = 1 /\ ScriptChunks = script.messages + 1
        BY <1>3, <3>3
      <4>4. \A p \in 1..script.messages : ScriptUpcall(1 + p) = ChunkCall(p)
        <5> TAKE p \in 1..script.messages
        <5>1. /\ 1 + p # 1 /\ ~(1 + p <= 1) /\ 1 + p <= 1 + (script.messages + 1) /\ (1 + p) - 1 = p
          BY <1>3
        <5> QED BY <4>3, <5>1 DEF ScriptUpcall
      <4> QED BY <1>3, <2>3, <3>1, <3>3, <4>2, <4>4
    <3> QED BY <3>2, <3>3
  <2>4. CASE triggered = 2 /\ MessagesSent /\ upcalls' = SendTrailers
    <3>1. Made = script.messages + 1 /\ triggered' = 3 /\ Triggered' = ScriptUpcalls
      BY <1>1, <1>2, <2>1, <2>4 DEF Triggered
    <3>2. /\ upcalls' \in Seq(Upcall) /\ Len(upcalls') = 2 /\ upcalls'[2] = EndCall
          /\ upcalls'[1] = ChunkCall(script.messages + 1)
      BY <1>3, <1>5, <2>4 DEF SendTrailers
    <3>3. /\ ScriptHeaders = 1 /\ ScriptChunks = script.messages + 1
          /\ ScriptUpcalls = script.messages + 3
      BY <1>3, <2>4
    <3>4. ScriptUpcall(Made + 1) = ChunkCall(script.messages + 1)
      <4>1. /\ Made + 1 # 1 /\ ~(Made + 1 <= 1) /\ Made + 1 <= 1 + (script.messages + 1)
            /\ (Made + 1) - 1 = script.messages + 1
        BY <1>3, <3>1
      <4> QED BY <3>3, <4>1 DEF ScriptUpcall
    <3>5. ScriptUpcall(Made + 2) = EndCall
      <4>1. Made + 2 # 1 /\ ~(Made + 2 <= 1) /\ ~(Made + 2 <= 1 + (script.messages + 1))
        BY <1>3, <3>1
      <4> QED BY <3>3, <4>1 DEF ScriptUpcall
    <3>6. \A p \in 1..2 : p = 1 \/ p = 2
      OBVIOUS
    <3>7. Made + Len(upcalls') = Triggered'
      BY <1>3, <3>1, <3>2, <3>3
    <3> QED BY <2>4, <3>1, <3>2, <3>4, <3>5, <3>6, <3>7
  <2> QED BY <1>1, <2>2, <2>3, <2>4
<1>7. UpTypes'
  BY <1>1, <1>2, <1>6 DEF UpTypes, IsBody
<1>8. Arrives' /\ Attached' /\ ChunksMove' /\ (returned' => finishedSending')
  BY <1>1, <1>2 DEF TransportInv, Arrives, Attached, ChunksMove, clientVars, flags
<1>9. Scripted'
  <2>1. Made' = Made /\ finishedSending' = finishedSending
    BY <1>1 DEF Made, clientVars, flags
  <2> QED BY <1>1, <1>2, <1>6, <2>1, SamePlan DEF Scripted
<1>10. XhrAndNode' /\ FetchWaits' /\ Detached'
  BY <1>1, OtherTransports
<1> QED BY <1>1, <1>7, <1>8, <1>9, <1>10 DEF TransportInv

-----------------------------------------------------------------------------
(* The invariant holds *)

LEMMA InvInit == Init => TransportInv
<1> SUFFICES ASSUME Init PROVE TransportInv
  OBVIOUS
<1> USE DEF Init, UpcallsInit, HttpInit, ClientInit
<1>1. /\ kind \in TransportKinds /\ script \in Scripts /\ body \in Bodies /\ triggered = 0
      /\ IF kind = "fake" THEN received = ScriptedBody ELSE received = <<>>
  BY DEF FakeInit
<1>2. MaxBody \in Nat /\ upcalls \in Seq(Upcall) /\ Len(upcalls) = 0
  BY UnaryAssumption
<1>3. IsBody(received) /\ Len(received) \in Nat /\ (kind # "fake" => Len(received) = 0)
  <2>1. CASE kind = "fake"
    BY <1>1, <2>1, ScriptIsBody, LenProperties DEF IsBody
  <2>2. CASE kind # "fake"
    BY <1>1, <1>2, <2>2 DEF IsBody
  <2> QED BY <2>1, <2>2
<1>4. UpTypes
  BY <1>1, <1>2, <1>3 DEF UpTypes
<1>5. Arrives
  <2>1. IsBody(body)
    BY <1>1, UnaryAssumption
  <2>2. Len(body) \in Nat
    BY <2>1, LenProperties DEF IsBody
  <2> QED BY <1>3, <2>2 DEF Arrives
<1>6. Attached /\ ChunksMove /\ XhrAndNode /\ FetchWaits
  BY <1>3 DEF Attached, ChunksMove, XhrAndNode, FetchWaits, Nothing, Kinds
<1>7. Detached
  BY <1>2 DEF Detached, Nothing
<1>8. Scripted
  <2>1. Made = 0 /\ Triggered = 0
    BY <1>1 DEF Made, Triggered
  <2> QED BY <1>1, <1>2, <2>1, PlanNumbers DEF Scripted
<1> QED BY <1>4, <1>5, <1>6, <1>7, <1>8 DEF TransportInv

LEMMA InvEvent ==
  ASSUME TransportInv, TransportEvent, UNCHANGED <<fakeVars, returned>>
  PROVE  TransportInv' /\ Upcalls
<1>1. CASE kind = "xhr" /\ (OnStateChange \/ OnProgressEvent \/ OnErrorEvent \/ OnLoadEvent)
  BY <1>1, InvXhr DEF Upcalls
<1>2. CASE kind = "rn" /\ (OnStateChange \/ OnErrorEvent \/ OnLoadEventArrayBuffer)
  BY <1>2, InvDetach DEF Upcalls
<1>3. CASE DetachedRuns
  BY <1>3, InvDetachedRuns DEF Upcalls
<1>4. CASE NodeResponse \/ NodeData \/ NodeEnd \/ NodeError
  BY <1>4, InvNode DEF Upcalls
<1>5. CASE Pump
  BY <1>5, InvPump DEF Upcalls
<1>6. CASE FetchResponse \/ ReadValue \/ ReadDone \/ Catch
  BY <1>6, InvFetch
<1>7. /\ OnStateChange \/ OnErrorEvent => kind \in {"xhr", "rn"}
      /\ OnProgressEvent \/ OnLoadEvent => kind = "xhr"
      /\ OnLoadEventArrayBuffer => kind = "rn"
  BY DEF OnStateChange, OnErrorEvent, OnProgressEvent, OnLoadEvent, OnLoadEventArrayBuffer, XhrEvent
<1> QED BY <1>1, <1>2, <1>3, <1>4, <1>5, <1>6, <1>7 DEF TransportEvent

LEMMA InvNext == TransportInv /\ [Next]_vars => TransportInv'
<1> SUFFICES ASSUME TransportInv, [Next]_vars PROVE TransportInv'
  OBVIOUS
<1>1. CASE Application
  BY <1>1, InvAttach, InvConnect, InvSend, InvFinish, InvReturns, InvCancel DEF Application
<1>2. CASE Handler /\ UNCHANGED <<upcallVars, httpVars, fakeVars, returned>>
  BY <1>2, InvHandler
<1>3. CASE returned /\ TransportEvent /\ UNCHANGED <<fakeVars, returned, unaryVars>>
  BY <1>3, InvEvent
<1>4. CASE kind = "fake" /\ FakeUpcall /\ UNCHANGED <<httpVars, returned, unaryVars>>
  BY <1>4, InvFakeUpcall
<1>5. CASE Test
  BY <1>5, InvTrigger DEF Test
<1>6. CASE Network /\ UNCHANGED <<fakeVars, returned, unaryVars>>
  BY <1>6, InvNetwork
<1>7. CASE UNCHANGED vars
  BY <1>7, InvQuiet DEF vars, clientVars
<1> QED BY <1>1, <1>2, <1>3, <1>4, <1>5, <1>6, <1>7 DEF Next, JavaScript

\* What the transports know of the call: which upcalls can still come.
THEOREM TransportsInOrder == Spec => []TransportInv
<1> QED BY InvInit, InvNext, PTL DEF Spec

-----------------------------------------------------------------------------
(* A chunk of a response is a run of messages, then possibly the trailers *)

LEMMA ReceivedSaid ==
  ASSUME TransportInv, NEW i \in 1..Len(received)
  PROVE  /\ received[i].type \in {"message", "bad", "trailers"} /\ received[i] \in Item
         /\ received[i].type = "trailers" =>
              /\ i = Len(received) /\ received[i].val \in SaidInTrailers
              /\ received[i] = [type |-> "trailers", val |-> received[i].val]
         /\ received[i].type # "trailers" =>
              received[i] = [type |-> received[i].type, val |-> i]
         /\ received[i].type = "bad" => SomeBad
<1>1. received \in Seq(Item) /\ IsBody(received) /\ Len(received) \in Nat
  BY LenProperties DEF TransportInv, UpTypes, IsBody
<1>2. received[i] \in Item
  BY <1>1, ElementOfSeq
<1>3. /\ received[i].type \in {"message", "bad", "trailers"}
      /\ received[i] = [type |-> received[i].type, val |-> received[i].val]
  BY <1>2 DEF Item
<1>4. IF received[i].type = "trailers" THEN i = Len(received) ELSE received[i].val = i
  BY <1>1 DEF IsBody
<1>5. received[i].type = "trailers" => received[i].val \in SaidInTrailers
  <2> SUFFICES ASSUME received[i].type = "trailers" PROVE received[i].val \in SaidInTrailers
    OBVIOUS
  <2>1. CASE kind = "fake"
    <3>1. received = ScriptedBody /\ script \in Scripts
      BY <2>1 DEF TransportInv, UpTypes, Scripted
    <3>2. i = script.messages + 1
      BY <1>4, <3>1, ScriptIsBody
    <3>3. received[i].val = IF script.preTrailersError # Null THEN script.preTrailersError ELSE OK
      BY <3>1, <3>2, ScriptIsBody
    <3> QED BY <3>1, <3>3 DEF SaidInTrailers
  <2>2. CASE kind # "fake"
    <3>1. /\ received[i] = body[i] /\ body \in Bodies /\ IsBody(body) /\ Len(received) <= Len(body)
      BY <2>2, UnaryAssumption DEF TransportInv, UpTypes, Arrives
    <3>2. body \in Seq(Item) /\ Len(body) \in Nat
      BY <3>1, LenProperties DEF IsBody
    <3>3. i \in 1..Len(body)
      BY <1>1, <3>1, <3>2
    <3>4. i = Len(body) /\ body # <<>>
      BY <3>1, <3>2, <3>3 DEF IsBody
    <3> QED BY <3>1, <3>4 DEF SaidInTrailers
  <2> QED BY <2>1, <2>2
<1>6. received[i].type = "bad" => SomeBad
  <2> SUFFICES ASSUME received[i].type = "bad" PROVE SomeBad
    OBVIOUS
  <2>1. CASE kind = "fake"
    <3>1. received = ScriptedBody /\ script \in Scripts
      BY <2>1 DEF TransportInv, UpTypes, Scripted
    <3>2. i \in 1..script.messages \/ i = script.messages + 1
      BY <3>1, ScriptIsBody, PlanNumbers
    <3>3. received[i].type # "bad"
      <4>1. CASE i \in 1..script.messages
        <5>1. received[i] = [type |-> "message", val |-> i]
          BY <3>1, <4>1, ScriptIsBody
        <5> QED BY <5>1
      <4>2. CASE i = script.messages + 1
        <5>1. received[i].type = "trailers"
          BY <3>1, <4>2, ScriptIsBody
        <5> QED BY <5>1
      <4> QED BY <3>2, <4>1, <4>2
    <3> QED BY <3>3
  <2>2. CASE kind # "fake"
    <3>1. /\ received[i] = body[i] /\ body \in Bodies /\ IsBody(body) /\ Len(received) <= Len(body)
      BY <2>2, UnaryAssumption DEF TransportInv, UpTypes, Arrives
    <3>2. Len(body) \in Nat
      BY <3>1, LenProperties DEF IsBody
    <3>3. i \in 1..Len(body)
      BY <1>1, <3>1, <3>2
    <3> QED BY <3>1, <3>3 DEF SomeBad, Bad
  <2> QED BY <2>1, <2>2
<1> QED BY <1>2, <1>3, <1>4, <1>5, <1>6

\* What the abstract transport has handed over, while there is more to come.
LEMMA HandedBefore ==
  ASSUME TransportInv, passed < Len(received)
  PROVE  MessagesHanded = passed /\ StatusHanded = seen.last
<1>1. passed \in Nat /\ Len(received) \in Nat
  BY LenProperties DEF TransportInv, UpTypes, IsBody
<1>2. ~HandedTrailers
  <2> SUFFICES ASSUME HandedTrailers PROVE FALSE
    OBVIOUS
  <2>1. passed \in 1..Len(received) /\ received[passed].type = "trailers"
    BY <1>1 DEF HandedTrailers
  <2>2. passed = Len(received)
    BY <2>1, ReceivedSaid
  <2> QED BY <1>1, <2>2
<1> QED BY <1>2 DEF MessagesHanded, StatusHanded

\* A run of messages, then trailers.
RunItems(run, trailers) ==
  [i \in DOMAIN run |-> [type |-> run[i], val |-> MessagesHanded + i]] \o trailers

\* With nothing new a chunk is empty.
LEMMA EmptyChunk ==
  ASSUME TransportInv
  PROVE  /\ <<>> \in Call!MessageRuns /\ <<>> \in Call!Trailers
         /\ SubSeq(received, passed + 1, passed) = RunItems(<<>>, <<>>)
<1>1. /\ received \in Seq(Item) /\ passed \in Nat /\ Len(received) \in Nat
      /\ passed <= Len(received) /\ MaxBody \in Nat /\ Len(received) <= MaxBody
  BY UnaryAssumption, LenProperties DEF TransportInv, UpTypes, IsBody
<1>2. SubSeq(received, passed + 1, passed) = <<>>
  BY <1>1, SubSeqProperties
<1>3. MessagesHanded \in 0..MaxBody
  BY <1>1 DEF MessagesHanded, HandedTrailers
<1>4. <<>> \in Call!MessageRuns
  <2> DEFINE types == IF SomeBad THEN {"message", "bad"} ELSE {"message"}
  <2>1. 0 \in 0..(MaxBody - MessagesHanded)
    BY <1>1, <1>3
  <2>2. <<>> \in [1..0 -> types]
    OBVIOUS
  <2> QED BY <2>1, <2>2 DEF Call!MessageRuns
<1>5. RunItems(<<>>, <<>>) = <<>>
  BY DEF RunItems
<1> QED BY <1>2, <1>4, <1>5 DEF Call!Trailers

LEMMA ChunkIsRun ==
  ASSUME TransportInv, NEW n \in passed + 1 .. Len(received)
  PROVE  \E run \in Call!MessageRuns, trailers \in Call!Trailers :
           /\ SubSeq(received, passed + 1, n) = RunItems(run, trailers)
           /\ passed + Len(run) = IF received[n].type = "trailers" THEN n - 1 ELSE n
           /\ IF received[n].type = "trailers"
                THEN trailers # <<>> /\ trailers[1].val = received[n].val
                ELSE trailers = <<>>
           /\ ~Bad(received) => \A i \in DOMAIN run : run[i] = "message"
<1> DEFINE R == Len(received)
           k == IF received[n].type = "trailers" THEN n - 1 - passed ELSE n - passed
           run == [i \in 1..k |-> received[passed + i].type]
           g == received[n].val
           trailers == IF received[n].type = "trailers" THEN <<[type |-> "trailers", val |-> g]>>
                       ELSE <<>>
           types == IF SomeBad THEN {"message", "bad"} ELSE {"message"}
<1>1. /\ received \in Seq(Item) /\ passed \in Nat /\ R \in Nat /\ n \in Nat
      /\ passed < n /\ n <= R /\ MaxBody \in Nat /\ R <= MaxBody
  BY UnaryAssumption, LenProperties DEF TransportInv, UpTypes, IsBody
<1>2. MessagesHanded = passed
  BY <1>1, HandedBefore
<1>3. /\ k \in Nat /\ passed + k = IF received[n].type = "trailers" THEN n - 1 ELSE n
      /\ k <= MaxBody - passed /\ passed + k <= n
  BY <1>1
<1>4. \A i \in 1..k : passed + i \in 1..R
  BY <1>1, <1>3
<1>5. \A i \in 1..k : received[passed + i].type # "trailers"
  <2> SUFFICES ASSUME NEW i \in 1..k, received[passed + i].type = "trailers" PROVE FALSE
    OBVIOUS
  <2>1. passed + i = R
    BY <1>4, ReceivedSaid
  <2>2. i <= k /\ i \in Nat
    BY <1>3
  <2>3. passed + i = n /\ received[n].type # "trailers"
    BY <1>1, <1>3, <2>1, <2>2
  <2> QED BY <2>3
<1>6. \A i \in 1..k : /\ received[passed + i] = [type |-> received[passed + i].type, val |-> passed + i]
                      /\ received[passed + i].type \in types
                      /\ received[passed + i] \in Item
  <2> TAKE i \in 1..k
  <2>1. PICK j : j = passed + i /\ j \in 1..Len(received) /\ received[j].type # "trailers"
    BY <1>4, <1>5
  <2>2. /\ received[j].type \in {"message", "bad", "trailers"} /\ received[j] \in Item
        /\ received[j] = [type |-> received[j].type, val |-> j]
        /\ received[j].type = "bad" => SomeBad
    BY <2>1, ReceivedSaid
  <2> QED BY <2>1, <2>2
<1>7. run \in Call!MessageRuns /\ Len(run) = k /\ DOMAIN run = 1..k
  <2>1. run \in [1..k -> types]
    BY <1>6
  <2>2. k \in 0..(MaxBody - passed)
    BY <1>1, <1>3
  <2> QED BY <1>2, <1>3, <2>1, <2>2 DEF Call!MessageRuns
<1>8. /\ trailers \in Call!Trailers
      /\ received[n].type = "trailers" => trailers = <<received[n]>>
  <2>1. received[n].type = "trailers" =>
          g \in SaidInTrailers /\ received[n] = [type |-> "trailers", val |-> g]
    <3>1. n \in 1..Len(received)
      BY <1>1
    <3> QED BY <3>1, ReceivedSaid
  <2>2. CASE received[n].type = "trailers"
    BY <2>1, <2>2 DEF Call!Trailers
  <2>3. CASE received[n].type # "trailers"
    BY <2>3 DEF Call!Trailers
  <2> QED BY <2>2, <2>3
<1>9. SubSeq(received, passed + 1, n) = RunItems(run, trailers)
  <2> DEFINE items == [i \in 1..k |-> received[passed + i]]
             u == items \o trailers
             s == SubSeq(received, passed + 1, n)
  <2>1. [i \in DOMAIN run |-> [type |-> run[i], val |-> MessagesHanded + i]] = items
    <3>1. \A i \in 1..k : [type |-> run[i], val |-> MessagesHanded + i] = received[passed + i]
      BY <1>2, <1>6
    <3> QED BY <1>7, <3>1, Zenon
  <2>2. items \in Seq(Item) /\ Len(items) = k /\ \A i \in 1..k : items[i] = received[passed + i]
    <3>1. \A i \in 1..k : received[passed + i] \in Item
      BY <1>6
    <3>2. k \in Nat
      BY <1>3
    <3> HIDE DEF k
    <3> QED BY <3>1, <3>2
  <2>3. /\ s \in Seq(Item) /\ Len(s) = n - passed
        /\ \A i \in 1..(n - passed) : s[i] = received[passed + i]
    <3>1. PICK m : m = passed + 1 /\ m \in 1..(R + 1) /\ n \in m - 1 .. R /\ m <= n
      BY <1>1
    <3>2. /\ SubSeq(received, m, n) \in Seq(Item)
          /\ Len(SubSeq(received, m, n)) = n - m + 1
          /\ \A i \in 1..(n - m + 1) : SubSeq(received, m, n)[i] = received[m + i - 1]
      BY <1>1, <3>1, SubSeqProperties
    <3>3. n - m + 1 = n - passed /\ \A i \in 1..(n - passed) : m + i - 1 = passed + i
      BY <1>1, <3>1
    <3> QED BY <3>1, <3>2, <3>3
  <2>4. trailers \in Seq(Item) /\ Len(trailers) = IF received[n].type = "trailers" THEN 1 ELSE 0
    <3>1. n \in 1..Len(received)
      BY <1>1
    <3>2. received[n] \in Item
      BY <3>1, ReceivedSaid
    <3> QED BY <1>8, <3>2
  <2> HIDE DEF items, s, trailers, k
  <2>5. PICK v : v = u /\ Joined(Item, items, trailers, v)
    BY <2>2, <2>4, QueueJoin
  <2> HIDE DEF u
  <2>6. v \in Seq(Item) /\ Len(v) = n - passed
    BY <1>1, <1>3, <2>2, <2>4, <2>5 DEF Joined, k
  <2>7. \A i \in 1..Len(v) : v[i] = s[i]
    <3> TAKE i \in 1..Len(v)
    <3>1. CASE i \in 1..k
      <4>1. v[i] = items[i] /\ items[i] = received[passed + i]
        BY <2>2, <2>5, <3>1 DEF Joined
      <4> QED BY <2>3, <2>6, <4>1
    <3>2. CASE i \notin 1..k
      <4>1. received[n].type = "trailers" /\ i = k + 1 /\ i = n - passed /\ passed + i = n
        BY <1>1, <1>3, <2>6, <3>2 DEF k
      <4>2. v[k + 1] = trailers[1] /\ trailers[1] = received[n]
        BY <1>8, <2>2, <2>4, <2>5, <4>1 DEF Joined
      <4> QED BY <2>3, <2>6, <4>1, <4>2
    <3> QED BY <3>1, <3>2
  <2>8. v = s
    BY <2>3, <2>6, <2>7, SeqEqual
  <2> QED BY <2>1, <2>5, <2>8 DEF RunItems, s, u
<1>10. received[n].type = "trailers" => trailers # <<>> /\ trailers[1].val = received[n].val
  BY <1>8
<1>11. ~Bad(received) => \A i \in DOMAIN run : run[i] = "message"
  <2> SUFFICES ASSUME ~Bad(received), NEW i \in 1..k PROVE run[i] = "message"
    BY <1>7
  <2>1. PICK j : j = passed + i /\ j \in 1..Len(received) /\ received[j].type # "trailers"
    BY <1>4, <1>5
  <2>2. received[j].type \in {"message", "bad"} /\ received[j].type # "bad"
    BY <2>1, ReceivedSaid DEF Bad
  <2> QED BY <2>1, <2>2
<1> QED BY <1>3, <1>7, <1>8, <1>9, <1>10, <1>11

-----------------------------------------------------------------------------
(* Each step of unary and its transport is one of a call over any transport *)

LEMMA NothingHanded ==
  ASSUME UNCHANGED <<received, passed, seen>>
  PROVE  MessagesHanded' = MessagesHanded /\ StatusHanded' = StatusHanded
  BY DEF MessagesHanded, StatusHanded, HandedTrailers

LEMMA HeadersImplements ==
  ASSUME TransportInv, NEW h, NEW s, AllowedHeaders(h, s)
  PROVE  Call!Next
<1>1. UpTypes /\ UpHeaders(h, s) /\ passed = 0
  BY DEF TransportInv, AllowedHeaders, ChunksMove
<1>2. /\ seen' = [headers |-> seen.headers + 1, last |-> IF s = 0 THEN seen.last ELSE h,
                  chunks |-> seen.chunks, ended |-> seen.ended]
      /\ UNCHANGED <<received, passed, callbacks>>
  BY <1>1, UpHeadersEffect
<1>3. /\ MessagesHanded = 0 /\ MessagesHanded' = 0
      /\ StatusHanded = seen.last /\ StatusHanded' = seen'.last
  BY <1>1, <1>2 DEF MessagesHanded, StatusHanded, HandedTrailers
<1>4. Call!OnTransportHeaders(h, s)
  BY <1>1, SameHeaders DEF UpHeaders
<1>5. Call!TransportHeaders(h, s)
  BY <1>2, <1>3, <1>4 DEF Call!TransportHeaders, AllowedHeaders
<1> QED BY <1>5 DEF Call!Next, AllowedHeaders

LEMMA ChunkImplements ==
  ASSUME TransportInv, NEW n, AllowedChunk(n)
  PROVE  \E run \in Call!MessageRuns, trailers \in Call!Trailers :
           /\ Call!TransportChunk(run, trailers)
           /\ ~Bad(received) => \A i \in DOMAIN run : run[i] = "message"
<1>1. /\ seen.chunks < MaxBody + 1 /\ n \in Nat /\ passed \in Nat /\ n <= Len(received)
      /\ UpTypes /\ UpChunk(n) /\ n \in passed..Len(received)
  BY ChunkInBound DEF TransportInv, AllowedChunk
<1>2. /\ seen' = [headers |-> seen.headers, last |-> seen.last,
                  chunks |-> seen.chunks + 1, ended |-> seen.ended]
      /\ passed' = n /\ UNCHANGED <<received, callbacks>>
  BY <1>1, UpChunkEffect
<1>3. Call!OnTransportChunk(SubSeq(received, passed + 1, n))
  BY <1>1, SameChunk DEF UpChunk
<1>4. PICK run \in Call!MessageRuns, trailers \in Call!Trailers :
        /\ SubSeq(received, passed + 1, n) = RunItems(run, trailers)
        /\ seen.ended => run = <<>> /\ trailers = <<>>
        /\ MessagesHanded' = MessagesHanded + Len(run)
        /\ StatusHanded' = IF trailers = <<>> THEN StatusHanded ELSE trailers[1].val
        /\ ~Bad(received) => \A i \in DOMAIN run : run[i] = "message"
  <2>1. CASE n = passed
    <3>1. MessagesHanded' = MessagesHanded /\ StatusHanded' = StatusHanded
      BY <1>2, <2>1 DEF MessagesHanded, StatusHanded, HandedTrailers
    <3>2. MessagesHanded' = MessagesHanded + Len(<<>>)
      <4>1. MessagesHanded \in Int
        BY <1>1 DEF MessagesHanded
      <4> QED BY <3>1, <4>1
    <3> QED BY <2>1, <3>1, <3>2, EmptyChunk
  <2>2. CASE n # passed
    <3>1. n \in passed + 1 .. Len(received) /\ passed < Len(received) /\ n > 0 /\ ~seen.ended
      BY <1>1, <2>2 DEF AllowedChunk
    <3>2. MessagesHanded = passed /\ StatusHanded = seen.last
      BY <3>1, HandedBefore
    <3>3. PICK run \in Call!MessageRuns, trailers \in Call!Trailers :
            /\ SubSeq(received, passed + 1, n) = RunItems(run, trailers)
            /\ passed + Len(run) = IF received[n].type = "trailers" THEN n - 1 ELSE n
            /\ IF received[n].type = "trailers"
                 THEN trailers # <<>> /\ trailers[1].val = received[n].val
                 ELSE trailers = <<>>
            /\ ~Bad(received) => \A i \in DOMAIN run : run[i] = "message"
      BY <3>1, ChunkIsRun
    <3>4. /\ MessagesHanded' = IF received[n].type = "trailers" THEN n - 1 ELSE n
          /\ StatusHanded' = IF received[n].type = "trailers" THEN received[n].val ELSE seen.last
      BY <1>2, <3>1 DEF MessagesHanded, StatusHanded, HandedTrailers
    <3> QED BY <3>1, <3>2, <3>3, <3>4
  <2> QED BY <2>1, <2>2
<1>5. Call!TransportChunk(run, trailers)
  BY <1>1, <1>2, <1>3, <1>4 DEF Call!TransportChunk, RunItems
<1> QED BY <1>4, <1>5

LEMMA EndImplements == ASSUME TransportInv, UpEnd PROVE Call!Next
<1>1. /\ seen' = [headers |-> seen.headers, last |-> seen.last,
                  chunks |-> seen.chunks, ended |-> TRUE]
      /\ UNCHANGED <<received, passed, callbacks>>
  BY UpEndEffect DEF TransportInv
<1>2. MessagesHanded' = MessagesHanded /\ StatusHanded' = StatusHanded
  BY <1>1 DEF MessagesHanded, StatusHanded, HandedTrailers
<1>3. Call!OnTransportEnd
  BY SameEnd DEF UpEnd
<1>4. Call!TransportEnd
  BY <1>1, <1>2, <1>3 DEF Call!TransportEnd
<1> QED BY <1>4 DEF Call!Next

LEMMA UpcallImplements == ASSUME TransportInv, AllowedUpcall PROVE Call!Next
  BY HeadersImplements, ChunkImplements, EndImplements DEF AllowedUpcall, Call!Next

LEMMA QuietImplements ==
  ASSUME UNCHANGED <<received, passed, seen, clientVars>>
  PROVE  UNCHANGED Call!vars
  BY NothingHanded DEF clientVars, flags, response, Call!vars, Call!transportVars,
       Call!clientVars, Call!flags, Call!response

LEMMA ApplicationImplements ==
  ASSUME TransportInv, Application
  PROVE  [Call!Next]_(Call!vars)
<1>1. UNCHANGED <<received, passed, seen>>
  BY DEF Application, AttachCallback, Connect, SendMessage, SendFinish, Returns, Cancel, upcallVars,
         HttpStart, HttpSend, HttpCancel, FakeFinishSend
<1>2. UNCHANGED Call!transportVars
  BY <1>1, NothingHanded DEF Call!transportVars
<1>3. CASE AttachCallback
  <2>1. PICK k \in Kinds : Register(k)
    BY <1>3 DEF AttachCallback, Kinds
  <2>2. ~started
    BY <1>3, UnaryAssumption DEF AttachCallback, TransportInv, Attached, Register, Kinds
  <2>3. Call!Register(k) /\ k \in Call!Kinds
    BY <2>1, SameRegister DEF Kinds, Call!Kinds
  <2> QED BY <1>2, <2>2, <2>3 DEF Call!Next, Call!Application
<1>4. CASE Connect
  <2>1. Start /\ callbacks' = callbacks
    BY <1>4 DEF Connect, Start
  <2>2. Call!Start
    BY <2>1, SameStart
  <2> QED BY <1>2, <2>1, <2>2 DEF Call!Next, Call!Application
<1>5. CASE SendMessage
  <2>1. Send /\ callbacks' = callbacks
    BY <1>5 DEF SendMessage, Send
  <2>2. Call!Send
    BY <2>1, SameSend
  <2> QED BY <1>2, <2>1, <2>2 DEF Call!Next, Call!Application
<1>6. CASE SendFinish
  <2>1. FinishSend /\ callbacks' = callbacks
    BY <1>6 DEF SendFinish, FinishSend
  <2>2. Call!FinishSend
    BY <2>1, SameFinishSend
  <2> QED BY <1>2, <2>1, <2>2 DEF Call!Next, Call!Application
<1>7. CASE Returns
  <2>1. UNCHANGED clientVars
    BY <1>7 DEF Returns
  <2> QED BY <1>1, <2>1, QuietImplements
<1>8. CASE Cancel
  <2>1. Close /\ callbacks' = callbacks
    BY <1>8 DEF Cancel, Close
  <2>2. Call!Close
    BY <2>1, SameClose
  <2> QED BY <1>2, <2>1, <2>2 DEF Call!Next, Call!Application
<1> QED BY <1>3, <1>4, <1>5, <1>6, <1>7, <1>8 DEF Application

LEMMA HandlerImplements ==
  ASSUME TransportInv, Handler, UNCHANGED upcallVars
  PROVE  Call!Next
<1>1. UNCHANGED <<received, passed, seen>>
  BY DEF upcallVars
<1>2. UNCHANGED Call!transportVars
  BY <1>1, NothingHanded DEF Call!transportVars
<1>3. UNCHANGED callbacks
  BY DEF Handler, UnaryCallback, InvokeCallback, ProcessItem, LoopEnds, FailAfterHeaders,
         CallbackReturns
<1>4. Call!HandlerStep \/ Call!CallbackReturns
  BY SameHandler, SameReturns DEF Handler, UnaryCallback
<1> QED BY <1>2, <1>3, <1>4 DEF Call!Next, Call!Handler, Call!Return

\* What the network adds to received leaves what is there.
LEMMA BodyKeeps ==
  ASSUME TransportInv, BodyArrives
  PROVE  /\ Len(received) \in Nat /\ Len(received') = Len(received) + 1
         /\ \A i \in 1..Len(received) : received'[i] = received[i]
<1>1. wire = "open" /\ received' = SubSeq(body, 1, Len(received) + 1)
  BY DEF BodyArrives
<1>2. /\ kind # "fake" /\ IsBody(body) /\ Len(received) < Len(body)
      /\ \A i \in 1..Len(received) : received[i] = body[i]
  BY <1>1, UnaryAssumption DEF TransportInv, UpTypes, Arrives
<1>3. body \in Seq(Item) /\ Len(body) \in Nat /\ Len(received) \in Nat
  BY <1>2, LenProperties DEF IsBody, TransportInv, UpTypes
<1>4. \A i \in 1..(Len(received) + 1) : body[i] \in Item
  BY <1>2, <1>3, ElementOfSeq
<1>5. /\ Len(received') = Len(received) + 1
      /\ \A i \in 1..(Len(received) + 1) : received'[i] = body[i]
  BY <1>1, <1>3, <1>4, SubSeqProperties
<1> QED BY <1>2, <1>3, <1>5

\* What the network adds to received has not been handed over yet.
LEMMA NetworkImplements ==
  ASSUME TransportInv, Network
  PROVE  UNCHANGED Call!vars
<1>1. /\ UNCHANGED <<passed, seen, clientVars>>
      /\ UNCHANGED received \/ BodyArrives
  BY DEF Network, ResponseStarts, BodyArrives, ConnectionBreaks, upcallVars
<1>2. CASE UNCHANGED received
  BY <1>1, <1>2, QuietImplements
<1>3. CASE BodyArrives
  <2>1. passed \in 0..Len(received)
    BY DEF TransportInv, UpTypes
  <2>2. Len(received) \in Nat /\ \A i \in 1..Len(received) : received'[i] = received[i]
    BY <1>3, BodyKeeps
  <2>3. passed > 0 => received'[passed] = received[passed]
    BY <2>1, <2>2
  <2>4. MessagesHanded' = MessagesHanded /\ StatusHanded' = StatusHanded
    BY <1>1, <2>3 DEF MessagesHanded, StatusHanded, HandedTrailers
  <2> QED BY <1>1, <2>4 DEF clientVars, flags, response, Call!vars, Call!transportVars,
            Call!clientVars, Call!flags, Call!response
<1> QED BY <1>1, <1>2, <1>3

LEMMA NextImplements == TransportInv /\ [Next]_vars => [Call!Next]_(Call!vars)
<1> SUFFICES ASSUME TransportInv, [Next]_vars PROVE [Call!Next]_(Call!vars)
  OBVIOUS
<1>1. CASE Application
  BY <1>1, ApplicationImplements
<1>2. CASE Handler /\ UNCHANGED <<upcallVars, httpVars, fakeVars, returned>>
  BY <1>2, HandlerImplements
<1>3. CASE returned /\ TransportEvent /\ UNCHANGED <<fakeVars, returned, unaryVars>>
  BY <1>3, InvEvent, UpcallImplements, QuietImplements DEF Upcalls
<1>4. CASE kind = "fake" /\ FakeUpcall /\ UNCHANGED <<httpVars, returned, unaryVars>>
  BY <1>4, InvFakeUpcall, UpcallImplements
<1>5. CASE Test
  BY <1>5, InvTrigger, QuietImplements DEF Test
<1>6. CASE Network /\ UNCHANGED <<fakeVars, returned, unaryVars>>
  BY <1>6, NetworkImplements
<1>7. CASE UNCHANGED vars
  BY <1>7, QuietImplements DEF vars, upcallVars
<1> QED BY <1>1, <1>2, <1>3, <1>4, <1>5, <1>6, <1>7 DEF Next, JavaScript

LEMMA InitImplements == Init => Call!Init
<1> SUFFICES ASSUME Init PROVE Call!Init
  OBVIOUS
<1>1. Call!ClientInit
  BY SameInit DEF Init
<1>2. MessagesHanded = 0 /\ StatusHanded = Undefined
  BY DEF Init, UpcallsInit, MessagesHanded, StatusHanded, HandedTrailers
<1> QED BY <1>1, <1>2 DEF Init, UpcallsInit, Call!Init

\* unary over its transport is a call over one of those that AnyTransportCall
\* describes, so that what is proved there holds here.
THEOREM UnaryImplements == Spec => Call!Spec
<1> QED BY InitImplements, NextImplements, TransportsInOrder, PTL DEF Spec, Call!Spec

\* The HTTP transports and the fake transport keep the Transport contract, as
\* it is stated in AnyTransportCall.
THEOREM TransportsConform == Spec => IsATransport
<1>1. AnyTransport!Init <=> Call!Init
  BY Zenon DEF AnyTransport!Init, Call!Init, AnyTransport!ClientInit, Call!ClientInit,
               AnyTransport!Kinds, Call!Kinds
<1>2. AnyTransport!Next <=> Call!Next
  BY Zenon DEF AnyTransport!Next, Call!Next, AnyTransport!Application, Call!Application,
               AnyTransport!Register, Call!Register, AnyTransport!Start, Call!Start,
               AnyTransport!Send, Call!Send, AnyTransport!FinishSend, Call!FinishSend,
               AnyTransport!Close, Call!Close, AnyTransport!ApplicationRuns,
               Call!ApplicationRuns, AnyTransport!TransportHeaders, Call!TransportHeaders,
               AnyTransport!OnTransportHeaders, Call!OnTransportHeaders,
               AnyTransport!TransportRuns, Call!TransportRuns, AnyTransport!HeaderCode,
               Call!HeaderCode, AnyTransport!HttpStatusToCode, Call!HttpStatusToCode,
               AnyTransport!RawOnHeaders, Call!RawOnHeaders, AnyTransport!TransportChunk,
               Call!TransportChunk, AnyTransport!OnTransportChunk, Call!OnTransportChunk,
               AnyTransport!MessageRuns, Call!MessageRuns, AnyTransport!Trailers,
               Call!Trailers, AnyTransport!TransportGarbage, Call!TransportGarbage,
               AnyTransport!OnUnparsableChunk, Call!OnUnparsableChunk,
               AnyTransport!Complete, Call!Complete, AnyTransport!Internal, Call!Internal,
               AnyTransport!Unknown, Call!Unknown, AnyTransport!EndCode, Call!EndCode,
               AnyTransport!TransportEnd, Call!TransportEnd, AnyTransport!OnTransportEnd,
               Call!OnTransportEnd, AnyTransport!Handler, Call!Handler,
               AnyTransport!HandlerStep, Call!HandlerStep, AnyTransport!ProcessItem,
               Call!ProcessItem, AnyTransport!ClientRuns, Call!ClientRuns, AnyTransport!Pop,
               Call!Pop, AnyTransport!RawOnMessage, Call!RawOnMessage,
               AnyTransport!InvokeCallback, Call!InvokeCallback, AnyTransport!Skips,
               Call!Skips, AnyTransport!LoopEnds, Call!LoopEnds,
               AnyTransport!FailAfterHeaders, Call!FailAfterHeaders, AnyTransport!Return,
               Call!Return, AnyTransport!CallbackReturns, Call!CallbackReturns,
               AnyTransport!clientVars, Call!clientVars, AnyTransport!flags, Call!flags,
               AnyTransport!response, Call!response, AnyTransport!transportVars,
               Call!transportVars, AnyTransport!Kinds, Call!Kinds, AnyTransport!Busy,
               Call!Busy, AnyTransport!Top, Call!Top, AnyTransport!Last, Call!Last,
               AnyTransport!Front, Call!Front, AnyTransport!OK, Call!OK, AnyTransport!Loop,
               Call!Loop
<1>3. [AnyTransport!Next]_(AnyTransport!vars) <=> [Call!Next]_(Call!vars)
  BY <1>2 DEF AnyTransport!vars, Call!vars, AnyTransport!clientVars, Call!clientVars,
               AnyTransport!flags, Call!flags, AnyTransport!response, Call!response,
               AnyTransport!transportVars, Call!transportVars
<1> QED BY <1>1, <1>3, UnaryImplements, PTL DEF IsATransport, AnyTransport!Spec, Call!Spec

-----------------------------------------------------------------------------
(* What unary keeps of the call *)

LEMMA CallTyped == Spec => []Call!TypeOK
<1>1. Call!Spec => []Call!TypeOK
  BY TransportConstants, ClientAssumption, Call!TypeCorrect DEF Status, Call!Status, Kinds, Call!Kinds
<1> QED BY <1>1, UnaryImplements, PTL

LEMMA CallShaped == Spec => []Call!CallInv
<1>1. Call!Spec => []Call!CallInv
  BY TransportConstants, ClientAssumption, UnaryAssumption, Call!CallInvHolds
     DEF Status, Call!Status, Kinds, Call!Kinds
<1> QED BY <1>1, UnaryImplements, PTL

LEMMA SameType == Call!ClientTypeOK <=> ClientTypeOK
  BY Zenon DEF ClientTypeOK, Call!ClientTypeOK, Kinds, Call!Kinds, Status, Call!Status,
     Frame, Call!Frame, LoopFrame, Call!LoopFrame, ChunkFrame, Call!ChunkFrame,
     FailFrame, Call!FailFrame, Item, Call!Item

\* What a callback of unary is given: there is one of each kind.
Last1(s) == IF s = <<>> THEN Undefined ELSE s[Len(s)]

Output == [status : Status, headers : Status \cup {Undefined}, message : Nat \cup {Undefined}]

\* unary has the last headers and the last message that its callbacks were given,
\* and an output for each end, with what it had then: it has got nothing since.
UnaryInv ==
  /\ unaryHeaders \in Status \cup {Undefined} /\ unaryMessage \in Nat \cup {Undefined}
  /\ outputs \in Seq(Output)
  /\ unaryHeaders = Last1(heard["headers"][1])
  /\ unaryMessage = Last1(heard["message"][1])
  /\ Len(outputs) = Len(heard["end"][1])
  /\ \A n \in 1..Len(outputs) :
       outputs[n] = [status |-> heard["end"][1][n], headers |-> unaryHeaders, message |-> unaryMessage]

LEMMA OneCallback ==
  ASSUME Call!CallInv
  PROVE  /\ \A k \in Kinds : heard[k] \in [{1} -> Seq(Status)] /\ heard[k][1] \in Seq(Status)
         /\ DOMAIN heard = Kinds
         /\ \A k \in Kinds : Call!Callbacks(k) = {1}
         /\ heard["end"][1] # <<>> => completed
         /\ Len(heard["end"][1]) <= 1
<1>1. ClientTypeOK /\ Call!EndLoopOnce /\ Call!AtMostOneEnd
  BY SameType DEF Call!CallInv, Call!TypeOK, Call!EndInv
<1>2. MaxCallbacks = [k \in Kinds |-> 1] /\ 1..1 = {1} /\ "end" \in Kinds
  BY UnaryAssumption DEF Kinds
<1>3. \A k \in Kinds : Call!Callbacks(k) = {1} /\ heard[k] \in [{1} -> Seq(Status)]
  BY <1>1, <1>2 DEF ClientTypeOK, Call!Callbacks
<1>4. DOMAIN heard = Kinds
  BY <1>1 DEF ClientTypeOK
<1>5. heard["end"][1] # <<>> => completed
  BY <1>1, <1>2, <1>3 DEF Call!EndLoopOnce
<1>6. Len(heard["end"][1]) <= 1
  BY <1>1, <1>2, <1>3 DEF Call!AtMostOneEnd
<1> QED BY <1>3, <1>4, <1>5, <1>6

LEMMA Hears ==
  ASSUME Call!CallInv, InvokeCallback
  PROVE  /\ Top.do \in Kinds /\ Top.val \in Status /\ Top.next = 1 /\ Top.last = 1
         /\ stack # <<>> /\ Top = stack[Len(stack)] /\ Len(stack) \in Nat \ {0}
         /\ heard'[Top.do][1] = Append(heard[Top.do][1], Top.val)
         /\ \A k \in Kinds \ {Top.do} : heard'[k] = heard[k]
         /\ Top.do \in {"headers", "message"} => ~completed
         /\ Top.do = "message" => Top.val \in Nat
<1> DEFINE k == Top.do
<1>1. Call!InvokeCallback /\ Call!Top = Top
  BY SameInvoke, Zenon DEF Top, Call!Top, Last, Call!Last
<1>2. /\ k \in Kinds
      /\ k \in {"headers", "message"} => ~completed
      /\ k = "message" => Call!MessageLoop /\ Top = stack[2]
      /\ \A j \in Kinds \ {k} : heard'[j] = heard[j]
  <2>1. /\ Call!Top.do \in Call!Kinds
        /\ Call!Top.do \in {"headers", "message"} => ~completed
        /\ Call!Top.do = "message" => Call!MessageLoop /\ Call!Top = stack[2]
        /\ \A j \in Call!Kinds \ {Call!Top.do} : heard'[j] = heard[j]
    BY <1>1, TransportConstants, ClientAssumption, Call!RunningLoop
       DEF Status, Call!Status, Kinds, Call!Kinds
  <2>2. Call!Kinds = Kinds
    BY DEF Kinds, Call!Kinds
  <2> QED BY <1>1, <2>1, <2>2
<1>3. ClientTypeOK /\ stack # <<>> /\ Top.next <= Top.last
  BY SameType DEF Call!CallInv, Call!TypeOK, InvokeCallback, ClientRuns
<1>4. Top = stack[Len(stack)] /\ Len(stack) \in Nat \ {0} /\ Top \in Frame
  BY <1>3, EmptySeq, LenProperties, ElementOfSeq DEF ClientTypeOK, Top, Last
<1>5. Top \in LoopFrame /\ Top.last <= MaxCallbacks[k]
  <2>1. Top \in LoopFrame
    BY <1>2, <1>4 DEF Frame, ChunkFrame, FailFrame, Kinds
  <2>2. Len(stack) \in 1..Len(stack)
    BY <1>4
  <2> QED BY <1>2, <1>3, <1>4, <2>1, <2>2 DEF ClientTypeOK
<1>6. Top.val \in Status /\ Top.next = 1 /\ Top.last = 1
  <2>1. MaxCallbacks[k] = 1
    BY <1>2, UnaryAssumption
  <2> QED BY <1>3, <1>5, <2>1 DEF LoopFrame
<1>7. heard'[k][1] = Append(heard[k][1], Top.val)
  <2>1. heard[k] \in [{1} -> Seq(Status)] /\ DOMAIN heard = Kinds
    BY <1>2, OneCallback
  <2>2. heard' = [heard EXCEPT ![k][1] = Append(heard[k][1], Top.val)]
    BY <1>6 DEF InvokeCallback
  <2> QED BY <1>2, <2>1, <2>2
<1>8. k = "message" => Top.val \in Nat
  BY <1>2 DEF Call!CallInv, Call!SeqInv, Call!InOrder
<1> QED BY <1>2, <1>3, <1>4, <1>6, <1>7, <1>8

\* Nobody else gives unary anything.
LEMMA OnlyUnaryHears ==
  ASSUME [Next]_vars
  PROVE  UnaryCallback \/ UNCHANGED <<heard, unaryVars>>
<1>1. CASE Application
  BY <1>1 DEF Application, AttachCallback, Connect, SendMessage, SendFinish, Returns, Cancel,
        Register, Start, Send, FinishSend, Close, clientVars
<1>2. CASE Handler
  BY <1>2 DEF Handler, ProcessItem, LoopEnds, FailAfterHeaders, CallbackReturns
<1>3. ASSUME NEW c, Make(c) PROVE UNCHANGED heard
  BY <1>3 DEF Make, UpHeaders, UpChunk, UpEnd, OnTransportHeaders, OnTransportChunk,
        OnTransportEnd, clientVars
<1>4. CASE returned /\ TransportEvent /\ UNCHANGED <<fakeVars, returned, unaryVars>>
  <2>1. CASE OnStateChange \/ OnProgressEvent \/ OnErrorEvent \/ OnLoadEvent
    BY <1>3, <1>4, <2>1 DEF OnStateChange, OnProgressEvent, OnErrorEvent, OnLoadEvent, XhrEvent,
                            clientVars
  <2>2. CASE OnLoadEventArrayBuffer \/ DetachedRuns \/ Pump
    BY <1>3, <1>4, <2>2 DEF OnLoadEventArrayBuffer, DetachedRuns, RunUpcall, Pump, clientVars
  <2>3. CASE NodeResponse \/ NodeData \/ NodeEnd \/ NodeError
    BY <1>4, <2>3 DEF NodeResponse, NodeData, NodeEnd, NodeError, UpHeaders, UpChunk, UpEnd,
          OnTransportHeaders, OnTransportChunk, OnTransportEnd, clientVars
  <2>4. CASE FetchResponse \/ ReadValue \/ ReadDone \/ Catch
    BY <1>4, <2>4 DEF FetchResponse, ReadValue, ReadDone, Catch, UpHeaders, UpChunk, UpEnd,
          OnTransportHeaders, OnTransportChunk, OnTransportEnd, clientVars
  <2> QED BY <1>4, <2>1, <2>2, <2>3, <2>4 DEF TransportEvent
<1>5. CASE FakeUpcall /\ UNCHANGED <<httpVars, returned, unaryVars>>
  BY <1>3, <1>5 DEF FakeUpcall, RunUpcall
<1>6. CASE Test
  BY <1>6 DEF Test, Trigger, clientVars
<1>7. CASE Network /\ UNCHANGED <<fakeVars, returned, unaryVars>>
  BY <1>7 DEF Network, ResponseStarts, BodyArrives, ConnectionBreaks, clientVars
<1>8. CASE UNCHANGED vars
  BY <1>8 DEF vars, clientVars
<1> QED BY <1>1, <1>2, <1>4, <1>5, <1>6, <1>7, <1>8 DEF Next, JavaScript

LEMMA UnaryNext == ASSUME Call!CallInv, UnaryInv, [Next]_vars PROVE UnaryInv'
<1>1. CASE UNCHANGED <<heard, unaryVars>>
  BY <1>1 DEF UnaryInv, unaryVars, Last1
<1>2. CASE UnaryCallback
  <2>1. InvokeCallback /\ Captured
    BY <1>2 DEF UnaryCallback
  <2>2. /\ \A k \in Kinds : heard[k][1] \in Seq(Status)
        /\ heard["end"][1] # <<>> => completed
    BY OneCallback
  <2>3. /\ Top.do \in Kinds /\ Top.val \in Status
        /\ heard'[Top.do][1] = Append(heard[Top.do][1], Top.val)
        /\ \A k \in Kinds \ {Top.do} : heard'[k] = heard[k]
        /\ Top.do \in {"headers", "message"} => ~completed
        /\ Top.do = "message" => Top.val \in Nat
    BY <2>1, Hears
  <2>4. \A k \in Kinds : Last1(Append(heard[k][1], Top.val)) = Top.val
    <3> TAKE k \in Kinds
    <3> DEFINE s == heard[k][1]
    <3>1. s \in Seq(Status) /\ Len(s) \in Nat
      BY <2>2, LenProperties
    <3>2. Append(s, Top.val) \in Seq(Status) /\ Len(Append(s, Top.val)) = Len(s) + 1
          /\ Append(s, Top.val)[Len(s) + 1] = Top.val
      BY <2>3, <3>1, AppendProperties
    <3> HIDE DEF s
    <3>3. Append(s, Top.val) # <<>>
      BY <3>1, <3>2, EmptySeq
    <3> QED BY <3>1, <3>2, <3>3 DEF Last1
  <2>5. ~completed => Len(outputs) = 0 /\ outputs = <<>>
    BY <2>2, EmptySeq DEF UnaryInv
  <2>6. CASE Top.do = "headers"
    <3>1. unaryHeaders' = Top.val /\ UNCHANGED <<unaryMessage, outputs>>
      BY <2>1, <2>6 DEF Captured
    <3>2. /\ unaryHeaders' = Last1(heard'["headers"][1]) /\ heard'["message"] = heard["message"]
          /\ heard'["end"] = heard["end"] /\ outputs = <<>> /\ Len(outputs) = 0
      BY <2>3, <2>4, <2>5, <2>6, <3>1 DEF Kinds
    <3>3. unaryHeaders' \in Status \cup {Undefined} /\ UNCHANGED <<unaryMessage, outputs>>
      BY <2>3, <3>1
    <3> QED BY <3>2, <3>3 DEF UnaryInv
  <2>7. CASE Top.do = "message"
    <3>1. unaryMessage' = Top.val /\ UNCHANGED <<unaryHeaders, outputs>>
      BY <2>1, <2>7 DEF Captured
    <3>2. /\ unaryMessage' = Last1(heard'["message"][1]) /\ heard'["headers"] = heard["headers"]
          /\ heard'["end"] = heard["end"] /\ outputs = <<>> /\ Len(outputs) = 0
      BY <2>3, <2>4, <2>5, <2>7, <3>1 DEF Kinds
    <3>3. unaryMessage' \in Nat \cup {Undefined} /\ UNCHANGED <<unaryHeaders, outputs>>
      BY <2>3, <2>7, <3>1
    <3> QED BY <3>2, <3>3 DEF UnaryInv
  <2>8. CASE Top.do = "end"
    <3> DEFINE o == [status |-> Top.val, headers |-> unaryHeaders, message |-> unaryMessage]
               s == heard["end"][1]
    <3>1. outputs' = Append(outputs, o) /\ UNCHANGED <<unaryHeaders, unaryMessage>>
      BY <2>1, <2>8 DEF Captured
    <3>2. o \in Output /\ outputs \in Seq(Output)
      BY <2>3 DEF UnaryInv, Output
    <3>3. /\ outputs' \in Seq(Output) /\ Len(outputs') = Len(outputs) + 1 /\ Len(outputs) \in Nat
          /\ \A n \in 1..Len(outputs) : outputs'[n] = outputs[n]
          /\ outputs'[Len(outputs) + 1] = o
      BY <3>1, <3>2, QueuePush, LenProperties
    <3>4. /\ s \in Seq(Status) /\ heard'["end"][1] = Append(s, Top.val) /\ Len(s) = Len(outputs)
      BY <2>2, <2>3, <2>8 DEF UnaryInv, Kinds
    <3>5. /\ Len(heard'["end"][1]) = Len(s) + 1
          /\ \A n \in 1..Len(s) : heard'["end"][1][n] = s[n]
          /\ heard'["end"][1][Len(s) + 1] = Top.val
      BY <2>3, <3>4, QueuePush
    <3>6. \A n \in 1..Len(outputs') :
            outputs'[n] = [status |-> heard'["end"][1][n], headers |-> unaryHeaders',
                           message |-> unaryMessage']
      <4> TAKE n \in 1..Len(outputs')
      <4>1. n \in 1..Len(outputs) \/ n = Len(outputs) + 1
        BY <3>3
      <4>2. CASE n \in 1..Len(outputs)
        BY <3>1, <3>3, <3>4, <3>5, <4>2 DEF UnaryInv
      <4>3. CASE n = Len(outputs) + 1
        BY <3>1, <3>3, <3>4, <3>5, <4>3
      <4> QED BY <4>1, <4>2, <4>3
    <3>7. heard'["headers"] = heard["headers"] /\ heard'["message"] = heard["message"]
      BY <2>3, <2>8 DEF Kinds
    <3> QED BY <3>1, <3>3, <3>4, <3>5, <3>6, <3>7 DEF UnaryInv
  <2> QED BY <2>3, <2>6, <2>7, <2>8 DEF Kinds
<1> QED BY <1>1, <1>2, OnlyUnaryHears

LEMMA UnaryInvHolds == Spec => []UnaryInv
<1>1. Init => UnaryInv
  BY UnaryAssumption DEF Init, ClientInit, UnaryInv, Kinds, Last1
<1>2. Call!CallInv /\ UnaryInv /\ [Next]_vars => UnaryInv'
  BY UnaryNext
<1> QED BY <1>1, <1>2, CallShaped, PTL DEF Spec

\* Every variable has its type, with any of the transports and any script.
THEOREM UnaryTypeCorrect == Spec => []TypeOK
<1>1. Call!TypeOK /\ TransportInv /\ UnaryInv => TypeOK
  BY SameType DEF Call!TypeOK, TransportInv, UpTypes, UnaryInv, TypeOK, IsBody
<1> QED BY <1>1, CallTyped, TransportsInOrder, UnaryInvHolds, PTL

\* The application gets one output, however often the transport reports the end.
THEOREM UnaryGivesOneOutput == Spec => []OneOutput
<1>1. Call!CallInv /\ UnaryInv => OneOutput
  BY OneCallback DEF UnaryInv, OneOutput
<1> QED BY <1>1, CallShaped, UnaryInvHolds, PTL

-----------------------------------------------------------------------------
(* What the headers say, and when *)

\* An answer belongs to a request that was sent.  With OK in its headers it is
\* complete at once, otherwise when its last item is there.
AnswerInv ==
  /\ sentFirstMessage => started
  /\ answer # NoResponse =>
       /\ sentFirstMessage /\ wire # "sent"
       /\ answer.status = OK => body = <<>> /\ wire \in {"complete", "aborted"}
  /\ kind # "fake" /\ Len(received) > 0 /\ Len(received) = Len(body) =>
       wire \in {"complete", "aborted"}

\* What the call has been told of the headers is what they said, and the fake
\* transport never says OK there.
HeadersSaid ==
  /\ seen.headers > 0 \/ passed > 0 => seen.last # Undefined
  /\ kind # "fake" /\ seen.last # Undefined => answer # NoResponse /\ seen.last = answer.status
  /\ kind = "fake" => seen.last # OK

\* No transport hands over a part of the body before the headers.
HeadersAhead == upcalls # <<>> /\ upcalls[1].do = "headers"

HeadersBefore ==
  /\ kind \in {"xhr", "node"} /\ told = "headers" => seen.last # Undefined
  /\ kind = "fetch" /\ await \in {"pump", "read", "catch"} => seen.last # Undefined
  /\ kind = "rn" =>
       /\ told = "headers" => seen.last # Undefined \/ HeadersAhead
       /\ \A p \in 1..Len(upcalls) :
            /\ upcalls[p].do = "headers" => answer # NoResponse /\ upcalls[p].status = answer.status
            /\ upcalls[p].do = "chunk" /\ upcalls[p].upto > 0 => seen.last # Undefined \/ HeadersAhead

HeadersInv == HeadersSaid /\ HeadersBefore

\* A status in the headers is one, and HTTP does not say 0.
LEMMA NoZero ==
  /\ 0 \notin HttpCodes /\ Undefined \notin SaidInHeaders
  /\ \A s \in Scripts : s.preMessagesError # OK
<1>1. \A s \in Scripts : IsScript(s)
  BY UnaryAssumption
<1>2. 0 \notin HttpCodes
  BY <1>1, UnaryAssumption DEF HttpCodes, IsScript
<1>3. Undefined \notin SaidInHeaders
  BY SaidIsStatus, ClientAssumption DEF Status
<1>4. \A s \in Scripts : s.preMessagesError # OK
  BY <1>1, UnaryAssumption DEF IsScript, OK
<1> QED BY <1>2, <1>3, <1>4

LEMMA ReceivedStays ==
  ASSUME TransportInv, Upcalls
  PROVE  UNCHANGED <<received, flags>>
<1>1. UpTypes
  BY DEF TransportInv
<1>2. ASSUME NEW h, NEW s, AllowedHeaders(h, s) PROVE UNCHANGED <<received, flags>>
  BY <1>1, <1>2, UpHeadersEffect DEF AllowedHeaders
<1>3. ASSUME NEW n, AllowedChunk(n) PROVE UNCHANGED <<received, flags>>
  BY <1>1, <1>3, UpChunkEffect DEF AllowedChunk
<1>4. UpEnd => UNCHANGED <<received, flags>>
  BY <1>1, UpEndEffect
<1>5. UNCHANGED clientVars => UNCHANGED flags
  BY DEF clientVars
<1> QED BY <1>2, <1>3, <1>4, <1>5 DEF Upcalls, AllowedUpcall

\* Only a start, a send and the network do more to the connection than abort it.
LEMMA ConnectionStays ==
  ASSUME TransportInv, [Next]_vars
  PROVE  \/ Connect \/ SendMessage
         \/ Network /\ UNCHANGED <<kind, flags>>
         \/ /\ UNCHANGED <<kind, body, answer, received, started, sentFirstMessage>>
            /\ wire' \in {wire, "aborted"}
<1> USE DEF httpVars, wireVars, upcallVars, flags
<1>1. CASE Application
  <2>1. AttachCallback \/ Returns \/ SendFinish =>
          UNCHANGED <<kind, body, wire, answer, received, started, sentFirstMessage>>
    BY DEF AttachCallback, Register, Returns, SendFinish, FinishSend, FakeFinishSend, clientVars
  <2>2. Cancel => /\ UNCHANGED <<kind, body, answer, received, started, sentFirstMessage>>
                  /\ wire' \in {wire, "aborted"}
    BY DEF Cancel, Close, HttpCancel, XhrCancel, NodeCancel, ArrayBufferXhrCancel, FetchCancel
  <2> QED BY <1>1, <2>1, <2>2 DEF Application
<1>2. CASE Handler /\ UNCHANGED <<upcallVars, httpVars, fakeVars, returned>>
  BY <1>2 DEF Handler, UnaryCallback, InvokeCallback, ProcessItem, LoopEnds, FailAfterHeaders,
         CallbackReturns
<1>3. CASE returned /\ TransportEvent /\ UNCHANGED <<fakeVars, returned, unaryVars>>
  <2>1. UNCHANGED <<kind, body, answer>> /\ wire' \in {wire, "aborted"}
    BY <1>3 DEF TransportEvent, OnStateChange, OnProgressEvent, OnErrorEvent, OnLoadEvent,
         XhrEvent, OnLoadEventArrayBuffer, DetachedRuns, NodeResponse, NodeData, NodeEnd,
         NodeError, FetchResponse, Pump, ReadValue, ReadDone, Catch
  <2> QED BY <1>3, <2>1, InvEvent, ReceivedStays
<1>4. CASE kind = "fake" /\ FakeUpcall /\ UNCHANGED <<httpVars, returned, unaryVars>>
  BY <1>4, InvFakeUpcall, ReceivedStays DEF Upcalls
<1>5. CASE Test
  BY <1>5 DEF Test, Trigger, clientVars
<1>6. CASE Network /\ UNCHANGED <<fakeVars, returned, unaryVars>>
  BY <1>6 DEF Network, ResponseStarts, BodyArrives, ConnectionBreaks, clientVars
<1>7. CASE UNCHANGED vars
  BY <1>7 DEF vars, clientVars
<1> QED BY <1>1, <1>2, <1>3, <1>4, <1>5, <1>6, <1>7 DEF Next, JavaScript

LEMMA AnswerNext ==
  ASSUME TransportInv, TransportInv', AnswerInv, [Next]_vars PROVE AnswerInv'
<1>1. Arrives /\ Arrives'
  BY DEF TransportInv
<1>2. CASE Connect
  <2>1. ~started /\ started' /\ UNCHANGED <<sentFirstMessage, kind, body, answer, received>>
    BY <1>2 DEF Connect, Start, HttpStart, httpVars, wireVars, upcallVars
  <2>2. ~sentFirstMessage /\ answer = NoResponse
    BY <2>1 DEF AnswerInv
  <2>3. kind # "fake" => Len(received) = 0
    BY <1>1, <2>2 DEF Arrives
  <2> QED BY <2>1, <2>2, <2>3 DEF AnswerInv
<1>3. CASE SendMessage
  <2>1. /\ started /\ started' = started /\ ~sentFirstMessage /\ sentFirstMessage'
        /\ UNCHANGED <<kind, body, answer, received>>
    BY <1>3, UnaryAssumption DEF SendMessage, Send, HttpSend, httpVars, wireVars, upcallVars
  <2>2. answer = NoResponse
    BY <2>1 DEF AnswerInv
  <2>3. kind # "fake" => Len(received) = 0
    BY <1>1, <2>1 DEF Arrives
  <2> QED BY <2>1, <2>2, <2>3 DEF AnswerInv
<1>4. CASE Network /\ UNCHANGED <<kind, flags>>
  <2>1. UNCHANGED <<kind, started, sentFirstMessage, body>> /\ kind # "fake"
    BY <1>1, <1>4 DEF flags, Network, ResponseStarts, BodyArrives, ConnectionBreaks, Arrives
  <2>2. CASE ResponseStarts
    <3>1. /\ wire = "sent" /\ (answer'.status = OK => body = <<>>) /\ UNCHANGED received
          /\ wire' = IF answer'.body /\ body # <<>> THEN "open" ELSE "complete"
      BY <2>2 DEF ResponseStarts, upcallVars
    <3>2. sentFirstMessage /\ Len(received) = 0
      BY <1>1, <2>1, <3>1 DEF Arrives
    <3> QED BY <2>1, <3>1, <3>2 DEF AnswerInv
  <2>3. CASE BodyArrives
    <3>1. /\ wire = "open" /\ UNCHANGED answer /\ wire' \in {"open", "complete"}
      BY <2>3 DEF BodyArrives
    <3>2. wire' = "open" => Len(received') < Len(body')
      BY <1>1, <2>1 DEF Arrives
    <3>3. /\ received' = SubSeq(body, 1, Len(received) + 1)
          /\ IsBody(body) /\ IsBody(received) /\ IsBody(received')
      BY <2>3, UnaryAssumption DEF BodyArrives, TransportInv, UpTypes
    <3>4. Len(received') \in Nat /\ Len(body') \in Nat
      BY <2>1, <3>3, LenProperties DEF IsBody
    <3> QED BY <2>1, <3>1, <3>2, <3>4 DEF AnswerInv
  <2>4. CASE ConnectionBreaks
    <3>1. wire \in {"sent", "open"} /\ wire' = "broken" /\ UNCHANGED <<answer, received>>
      BY <2>4 DEF ConnectionBreaks, upcallVars
    <3>2. ~(Len(received) > 0 /\ Len(received) = Len(body))
      <4>1. Len(received) \in Nat /\ Len(body) \in Nat
        BY UnaryAssumption, LenProperties DEF TransportInv, UpTypes, IsBody
      <4> QED BY <1>1, <2>1, <3>1, <4>1 DEF Arrives
    <3> QED BY <2>1, <3>1, <3>2 DEF AnswerInv
  <2> QED BY <1>4, <2>2, <2>3, <2>4 DEF Network
<1>5. CASE /\ UNCHANGED <<kind, body, answer, received, started, sentFirstMessage>>
           /\ wire' \in {wire, "aborted"}
  BY <1>5 DEF AnswerInv
<1> QED BY <1>2, <1>3, <1>4, <1>5, ConnectionStays

LEMMA TakesHeaders ==
  ASSUME TransportInv, HeadersSaid, kind # "fake", UNCHANGED <<kind, answer>>,
         answer # NoResponse, UpHeaders(answer.status, answer.http)
  PROVE  HeadersSaid' /\ seen'.last # Undefined /\ UNCHANGED <<received, passed>>
<1>1. /\ answer.status # Undefined /\ answer.http # 0
  BY ResponseSaid, NoZero
<1>2. seen'.last = answer.status /\ UNCHANGED <<received, passed>>
  BY <1>1, UpHeadersEffect DEF TransportInv
<1> QED BY <1>1, <1>2 DEF HeadersSaid

LEMMA TakesChunk ==
  ASSUME TransportInv, HeadersSaid, UNCHANGED <<kind, answer>>,
         NEW n, UpChunk(n), n > 0 => seen.last # Undefined
  PROVE  HeadersSaid' /\ seen'.last = seen.last /\ passed' = n /\ UNCHANGED received
<1>1. seen'.last = seen.last /\ seen'.headers = seen.headers /\ passed' = n /\ UNCHANGED received
  BY UpChunkEffect DEF TransportInv
<1> QED BY <1>1 DEF HeadersSaid

LEMMA TakesEnd ==
  ASSUME TransportInv, HeadersSaid, UNCHANGED <<kind, answer>>, UpEnd
  PROVE  HeadersSaid' /\ seen'.last = seen.last /\ UNCHANGED <<received, passed>>
<1>1. seen'.last = seen.last /\ seen'.headers = seen.headers /\ UNCHANGED <<received, passed>>
  BY UpEndEffect DEF TransportInv
<1> QED BY <1>1 DEF HeadersSaid

\* What adds to the queue of React Native behind what is there.
LEMMA AheadStays ==
  ASSUME TransportInv, NEW c \in Seq(Upcall), NEW u, u = upcalls \o c, HeadersAhead
  PROVE  u # <<>> /\ u[1] = upcalls[1]
<1>1. upcalls \in Seq(Upcall) /\ upcalls # <<>> /\ Len(upcalls) \in Nat \ {0}
  BY EmptySeq, LenProperties DEF TransportInv, UpTypes, HeadersAhead
<1>2. Joined(Upcall, upcalls, c, u)
  BY <1>1, QueueJoin
<1>3. u \in Seq(Upcall) /\ Len(u) = Len(upcalls) + Len(c) /\ Len(c) \in Nat /\ u[1] = upcalls[1]
  BY <1>1, <1>2, LenProperties DEF Joined
<1>4. Len(u) # 0
  BY <1>1, <1>3
<1> QED BY <1>3, <1>4, EmptySeq

LEMMA AheadBefore ==
  ASSUME TransportInv, HeadersBefore, kind = "rn", UNCHANGED <<kind, answer, seen>>,
         NEW c \in Seq(Upcall), upcalls' = upcalls \o c,
         told' \in {told, "error", "end"},
         \A p \in 1..Len(c) : /\ c[p].do # "headers"
                              /\ c[p].do = "chunk" /\ c[p].upto > 0 => told = "headers"
  PROVE  HeadersBefore'
<1>1. upcalls \in Seq(Upcall) /\ Len(upcalls) \in Nat /\ Len(c) \in Nat
  BY LenProperties DEF TransportInv, UpTypes
<1>2. PICK u : u = upcalls' /\ Joined(Upcall, upcalls, c, u)
  BY <1>1, QueueJoin
<1>3. HeadersAhead => HeadersAhead'
  BY <1>2, AheadStays DEF HeadersAhead
<1>4. told = "headers" => seen.last # Undefined \/ HeadersAhead
  BY DEF HeadersBefore
<1>5. \A p \in 1..Len(u) : p \in 1..Len(upcalls) \/ \E q \in 1..Len(c) : p = Len(upcalls) + q
  <2> TAKE p \in 1..Len(u)
  <2>1. CASE p > Len(upcalls)
    <3>1. p - Len(upcalls) \in 1..Len(c) /\ p = Len(upcalls) + (p - Len(upcalls))
      BY <1>1, <1>2, <2>1 DEF Joined
    <3> QED BY <3>1
  <2> QED BY <1>1, <2>1
<1>6. \A p \in 1..Len(u) :
        /\ u[p].do = "headers" => answer # NoResponse /\ u[p].status = answer.status
        /\ u[p].do = "chunk" /\ u[p].upto > 0 => seen.last # Undefined \/ HeadersAhead
  <2> TAKE p \in 1..Len(u)
  <2>1. CASE p \in 1..Len(upcalls)
    BY <1>2, <2>1 DEF Joined, HeadersBefore
  <2>2. CASE \E q \in 1..Len(c) : p = Len(upcalls) + q
    <3>1. PICK q \in 1..Len(c) : p = Len(upcalls) + q
      BY <2>2
    <3>2. u[p] = c[q]
      BY <1>2, <3>1 DEF Joined
    <3> QED BY <1>4, <3>2
  <2> QED BY <1>5, <2>1, <2>2
<1> QED BY <1>2, <1>3, <1>4, <1>6 DEF HeadersBefore

LEMMA HeadersXhr ==
  ASSUME TransportInv, HeadersInv, kind = "xhr",
         OnStateChange \/ OnProgressEvent \/ OnErrorEvent \/ OnLoadEvent
  PROVE  HeadersInv'
<1> USE DEF HeadersInv
<1>1. CASE OnStateChange
  <2>1. /\ UpHeaders(answer.status, answer.http) /\ answer # NoResponse
        /\ UNCHANGED <<kind, answer>>
    BY <1>1 DEF OnStateChange, XhrEvent, Make, HeadersCall, wireVars
  <2>2. HeadersSaid' /\ seen'.last # Undefined
    BY <2>1, TakesHeaders
  <2> QED BY <2>1, <2>2 DEF HeadersBefore
<1>2. CASE OnProgressEvent
  <2>1. /\ UpChunk(Len(received)) /\ told = "headers" /\ UNCHANGED <<kind, answer>>
    BY <1>2 DEF OnProgressEvent, XhrEvent, Make, ChunkCall, wireVars
  <2>2. seen.last # Undefined
    BY <2>1 DEF HeadersBefore
  <2>3. HeadersSaid' /\ seen'.last = seen.last
    BY <2>1, <2>2, TakesChunk
  <2> QED BY <2>1, <2>2, <2>3 DEF HeadersBefore
<1>3. CASE OnErrorEvent \/ OnLoadEvent
  <2>1. UpEnd /\ told' # "headers" /\ UNCHANGED <<kind, answer>>
    BY <1>3 DEF OnErrorEvent, OnLoadEvent, XhrEvent, Make, EndCall, wireVars
  <2>2. HeadersSaid' /\ seen'.last = seen.last
    BY <2>1, TakesEnd
  <2> QED BY <2>1, <2>2 DEF HeadersBefore
<1> QED BY <1>1, <1>2, <1>3

LEMMA HeadersNode ==
  ASSUME TransportInv, HeadersInv, NodeResponse \/ NodeData \/ NodeEnd \/ NodeError
  PROVE  HeadersInv'
<1> USE DEF HeadersInv
<1>1. UNCHANGED <<kind, answer>> /\ kind = "node"
  BY DEF NodeResponse, NodeData, NodeEnd, NodeError, httpVars, wireVars
<1>2. CASE NodeResponse
  <2>1. UpHeaders(answer.status, answer.http) /\ answer # NoResponse
    BY <1>2 DEF NodeResponse
  <2>2. HeadersSaid' /\ seen'.last # Undefined
    BY <1>1, <2>1, TakesHeaders
  <2> QED BY <1>1, <2>2 DEF HeadersBefore
<1>3. CASE NodeData
  <2>1. PICK n : UpChunk(n) /\ told = "headers"
    BY <1>3 DEF NodeData
  <2>2. seen.last # Undefined
    BY <1>1, <2>1 DEF HeadersBefore
  <2>3. HeadersSaid' /\ seen'.last = seen.last
    BY <1>1, <2>1, <2>2, TakesChunk
  <2> QED BY <1>1, <2>2, <2>3 DEF HeadersBefore
<1>4. CASE NodeEnd \/ NodeError
  <2>1. UpEnd /\ told' = "end"
    BY <1>4 DEF NodeEnd, NodeError
  <2>2. HeadersSaid'
    BY <1>1, <2>1, TakesEnd
  <2> QED BY <1>1, <2>1, <2>2 DEF HeadersBefore
<1> QED BY <1>2, <1>3, <1>4

LEMMA HeadersFetch ==
  ASSUME TransportInv, HeadersInv, FetchResponse \/ Pump \/ ReadValue \/ ReadDone \/ Catch
  PROVE  HeadersInv'
<1> USE DEF HeadersInv
<1>1. UNCHANGED <<kind, answer>> /\ kind = "fetch"
  BY DEF FetchResponse, Pump, ReadValue, ReadDone, Catch, Resumes, wireVars
<1>2. CASE FetchResponse
  <2>1. UpHeaders(answer.status, answer.http) /\ answer # NoResponse
    BY <1>2 DEF FetchResponse
  <2>2. HeadersSaid' /\ seen'.last # Undefined
    BY <1>1, <2>1, TakesHeaders
  <2> QED BY <1>1, <2>2 DEF HeadersBefore
<1>3. CASE Pump
  <2>1. await = "pump" /\ UNCHANGED <<seen, passed>>
    BY <1>3 DEF Pump, Resumes, upcallVars
  <2> QED BY <1>1, <2>1 DEF HeadersBefore, HeadersSaid
<1>4. CASE ReadValue
  <2>1. PICK n : UpChunk(n) /\ await = "read"
    BY <1>4 DEF ReadValue, Resumes
  <2>2. seen.last # Undefined
    BY <1>1, <2>1 DEF HeadersBefore
  <2>3. HeadersSaid' /\ seen'.last = seen.last
    BY <1>1, <2>1, <2>2, TakesChunk
  <2> QED BY <1>1, <2>2, <2>3 DEF HeadersBefore
<1>5. CASE ReadDone \/ Catch
  <2>1. await' \in {"none", "caught"} /\ (UpEnd \/ UNCHANGED <<seen, passed>>)
    BY <1>5 DEF ReadDone, Catch, upcallVars
  <2>2. UpEnd => HeadersSaid'
    BY <1>1, TakesEnd
  <2>3. UNCHANGED <<seen, passed>> => HeadersSaid'
    BY <1>1 DEF HeadersSaid
  <2> QED BY <1>1, <2>1, <2>2, <2>3 DEF HeadersBefore
<1> QED BY <1>2, <1>3, <1>4, <1>5

LEMMA HeadersDetach ==
  ASSUME TransportInv, HeadersInv, kind = "rn",
         OnStateChange \/ OnErrorEvent \/ OnLoadEventArrayBuffer
  PROVE  HeadersInv'
<1> USE DEF HeadersInv
<1>1. UNCHANGED <<kind, answer, seen, passed>> /\ upcalls \in Seq(Upcall) /\ wire # "aborted"
  BY DEF OnStateChange, OnErrorEvent, OnLoadEventArrayBuffer, XhrEvent, wireVars, TransportInv, UpTypes
<1>2. HeadersSaid'
  BY <1>1 DEF HeadersSaid
<1>3. CASE OnStateChange
  <2> DEFINE c == HeadersCall(answer.status, answer.http)
  <2>1. upcalls' = Append(upcalls, c) /\ told = "nothing" /\ answer # NoResponse
    BY <1>3 DEF OnStateChange, XhrEvent
  <2>2. upcalls = <<>>
    BY <1>1, <2>1 DEF TransportInv, Detached
  <2>3. c.do = "headers" /\ c.status = answer.status
    BY DEF HeadersCall
  <2> HIDE DEF c
  <2>4. upcalls' = <<c>>
    BY <2>1, <2>2
  <2>5. Len(upcalls') = 1 /\ upcalls'[1] = c /\ upcalls' # <<>>
    BY <2>4
  <2>6. HeadersAhead'
    BY <2>3, <2>5 DEF HeadersAhead
  <2>7. \A p \in 1..Len(upcalls') : upcalls'[p] = c
    BY <2>5
  <2> QED BY <1>1, <1>2, <2>1, <2>3, <2>6, <2>7 DEF HeadersBefore
<1>4. CASE OnErrorEvent
  <2> DEFINE c == <<EndCall>>
  <2>1. upcalls' = Append(upcalls, EndCall) /\ told' = "error"
    BY <1>4 DEF OnErrorEvent, XhrEvent
  <2>2. c \in Seq(Upcall) /\ Len(c) = 1 /\ c[1].do = "end"
    BY DEF Upcall, EndCall
  <2>3. upcalls' = upcalls \o c
    BY <1>1, <2>1, <2>2
  <2> HIDE DEF c
  <2>4. \A p \in 1..Len(c) : c[p].do = "end"
    BY <2>2
  <2> QED BY <1>1, <1>2, <2>1, <2>2, <2>3, <2>4, AheadBefore
<1>5. CASE OnLoadEventArrayBuffer
  <2> DEFINE n == IF told = "error" THEN 0 ELSE Len(received)
             c == <<ChunkCall(n), EndCall>>
  <2>1. upcalls' = upcalls \o c /\ told' = "end" /\ told \in {"headers", "error"}
    BY <1>5 DEF OnLoadEventArrayBuffer
  <2>2. n \in Nat /\ (n > 0 => told = "headers")
    BY <2>1, LenProperties DEF TransportInv, UpTypes, IsBody
  <2>3. c \in Seq(Upcall) /\ Len(c) = 2 /\ c[1].do = "chunk" /\ c[1].upto = n /\ c[2].do = "end"
    BY <2>2 DEF Upcall, ChunkCall, EndCall
  <2> HIDE DEF c, n
  <2>4. \A p \in 1..Len(c) : p = 1 \/ p = 2
    BY <2>3
  <2>5. \A p \in 1..Len(c) : /\ c[p].do # "headers"
                             /\ c[p].do = "chunk" /\ c[p].upto > 0 => told = "headers"
    BY <2>2, <2>3, <2>4
  <2> QED BY <1>1, <1>2, <2>1, <2>3, <2>5, AheadBefore
<1> QED BY <1>3, <1>4, <1>5

LEMMA HeadersDetachedRuns ==
  ASSUME TransportInv, HeadersInv, DetachedRuns PROVE HeadersInv'
<1> USE DEF HeadersInv
<1> DEFINE c == upcalls[1]
           L == Len(upcalls)
<1>1. UNCHANGED <<kind, answer, told>> /\ kind = "rn" /\ RunUpcall
  BY DEF DetachedRuns, httpVars, wireVars
<1>2. /\ L \in Nat \ {0} /\ c \in Upcall /\ Make(c) /\ Len(upcalls') = L - 1
      /\ \A p \in 1..(L - 1) : upcalls'[p] = upcalls[p + 1] /\ p + 1 \in 1..L
  BY <1>1, RunsHead
<1>3. upcalls # <<>> /\ 1 \in 1..L
  BY <1>1, <1>2 DEF RunUpcall
<1>4. c.do = "headers" <=> HeadersAhead
  BY <1>3 DEF HeadersAhead
<1>5. HeadersSaid' /\ (seen'.last # Undefined \/ (seen'.last = seen.last /\ ~HeadersAhead))
  <2>1. CASE c.do = "headers" /\ UpHeaders(c.status, c.http)
    <3>1. answer # NoResponse /\ c.status = answer.status /\ c.http \in HttpCodes
      BY <1>1, <1>2, <1>3, <2>1, MakeOne DEF HeadersBefore
    <3>2. c.status \in SaidInHeaders
      BY <1>2, <2>1, MakeOne
    <3>3. seen'.last = answer.status /\ answer.status # Undefined /\ UNCHANGED passed
      BY <2>1, <3>1, <3>2, NoZero, UpHeadersEffect DEF TransportInv
    <3> QED BY <1>1, <3>1, <3>3 DEF HeadersSaid
  <2>2. CASE c.do = "chunk" /\ UpChunk(c.upto)
    <3>1. c.upto > 0 => seen.last # Undefined
      BY <1>1, <1>3, <1>4, <2>2 DEF HeadersBefore
    <3> QED BY <1>1, <1>4, <2>2, <3>1, TakesChunk
  <2>3. CASE c.do = "end" /\ UpEnd
    BY <1>1, <1>4, <2>3, TakesEnd
  <2> QED BY <1>2, <2>1, <2>2, <2>3, MakeOne
<1>6. told = "headers" => seen'.last # Undefined
  BY <1>1, <1>5 DEF HeadersBefore
<1>7. \A p \in 1..(L - 1) :
        /\ upcalls'[p].do = "headers" => answer # NoResponse /\ upcalls'[p].status = answer.status
        /\ upcalls'[p].do = "chunk" /\ upcalls'[p].upto > 0 => seen'.last # Undefined
  <2> TAKE p \in 1..(L - 1)
  <2>1. upcalls'[p] = upcalls[p + 1] /\ p + 1 \in 1..L
    BY <1>2
  <2> QED BY <1>1, <1>5, <2>1 DEF HeadersBefore
<1> QED BY <1>1, <1>2, <1>5, <1>6, <1>7 DEF HeadersBefore

\* The headers of a script never say OK.
LEMMA ScriptSays ==
  ASSUME script \in Scripts, NEW i \in Nat \ {0}, ScriptUpcall(i).do = "headers"
  PROVE  ScriptUpcall(i).status # OK
<1>1. /\ \A h, s : HeadersCall(h, s).status = h
      /\ \A n : ChunkCall(n).do # "headers" /\ EndCall.do # "headers"
  BY DEF HeadersCall, ChunkCall, EndCall
<1>2. NoStatus # OK /\ script.preMessagesError # OK
  BY NoZero, ClientAssumption DEF OK
<1>3. CASE i = 1
  <2>1. \E s : ScriptUpcall(i) = HeadersCall(NoStatus, s)
    BY <1>3, Zenon DEF ScriptUpcall
  <2> QED BY <1>1, <1>2, <2>1
<1>4. CASE i # 1 /\ i <= ScriptHeaders
  BY <1>1, <1>2, <1>4 DEF ScriptUpcall
<1>5. CASE i # 1 /\ ~(i <= ScriptHeaders)
  BY <1>1, <1>5 DEF ScriptUpcall
<1> QED BY <1>3, <1>4, <1>5

LEMMA HeadersFake ==
  ASSUME TransportInv, HeadersInv, kind = "fake", FakeUpcall, UNCHANGED httpVars
  PROVE  HeadersInv'
<1> DEFINE c == upcalls[1]
<1>1. UNCHANGED <<kind, answer>> /\ RunUpcall /\ script \in Scripts
  BY DEF FakeUpcall, httpVars, wireVars, TransportInv, UpTypes
<1>2. Len(upcalls) \in Nat \ {0} /\ c \in Upcall /\ Make(c)
  BY <1>1, RunsHead
<1>3. c = ScriptUpcall(Made + 1) /\ Made + 1 \in Nat \ {0}
  <2>1. Made \in Nat
    BY UnaryAssumption DEF TransportInv, UpTypes, Made
  <2> QED BY <1>2, <2>1 DEF TransportInv, Scripted
<1>4. HeadersSaid'
  <2>1. CASE c.do = "headers" /\ UpHeaders(c.status, c.http)
    <3>1. c.status # OK /\ c.status # Undefined /\ c.http # 0
      <4>1. c.status # OK
        BY <1>1, <1>3, <2>1, ScriptSays
      <4> QED BY <1>2, <2>1, <4>1, MakeOne, NoZero
    <3>2. seen'.last = c.status
      BY <2>1, <3>1, UpHeadersEffect DEF TransportInv
    <3> QED BY <1>1, <3>1, <3>2 DEF HeadersSaid
  <2>2. CASE c.do = "chunk" /\ UpChunk(c.upto)
    <3>1. seen.headers = ScriptHeaders /\ ScriptHeaders \in {1, 2}
      BY <1>1, <2>2, NextOfScript, PlanNumbers
    <3>2. seen.last # Undefined
      BY <3>1 DEF HeadersInv, HeadersSaid
    <3> QED BY <1>1, <2>2, <3>2, TakesChunk DEF HeadersInv
  <2>3. CASE c.do = "end" /\ UpEnd
    BY <1>1, <2>3, TakesEnd DEF HeadersInv
  <2> QED BY <1>2, <2>1, <2>2, <2>3, MakeOne
<1> QED BY <1>1, <1>4 DEF HeadersInv, HeadersBefore

LEMMA HeadersCancel == ASSUME TransportInv, HeadersInv, Cancel PROVE HeadersInv'
<1> USE DEF HeadersInv
<1>1. UNCHANGED <<kind, answer, seen, passed, told, await>>
  BY DEF Cancel, HttpCancel, httpVars, wireVars, fetchVars, upcallVars
<1>2. HeadersSaid'
  BY <1>1 DEF HeadersSaid
<1>3. CASE UNCHANGED upcalls
  BY <1>1, <1>2, <1>3 DEF HeadersBefore, HeadersAhead
<1>4. CASE kind = "rn" /\ upcalls' = upcalls \o <<ChunkCall(0), EndCall>>
  <2> DEFINE c == <<ChunkCall(0), EndCall>>
  <2>1. c \in Seq(Upcall) /\ Len(c) = 2 /\ c[1].do = "chunk" /\ c[1].upto = 0 /\ c[2].do = "end"
    BY DEF Upcall, ChunkCall, EndCall
  <2>2. upcalls' = upcalls \o c
    BY <1>4
  <2> HIDE DEF c
  <2>3. \A p \in 1..Len(c) : p = 1 \/ p = 2
    BY <2>1
  <2>4. \A p \in 1..Len(c) : /\ c[p].do # "headers"
                             /\ c[p].do = "chunk" /\ c[p].upto > 0 => told = "headers"
    BY <2>1, <2>3
  <2> QED BY <1>1, <1>2, <1>4, <2>1, <2>2, <2>4, AheadBefore
<1> QED BY <1>3, <1>4 DEF Cancel, HttpCancel, XhrCancel, NodeCancel, ArrayBufferXhrCancel, FetchCancel,
       upcallVars

LEMMA HeadersNext ==
  ASSUME TransportInv, AnswerInv, HeadersInv, [Next]_vars PROVE HeadersInv'
<1> USE DEF httpVars, wireVars, fetchVars, upcallVars
<1>1. ASSUME UNCHANGED <<kind, answer, seen, passed, told, upcalls>>,
             await' \in {await, "response"}
      PROVE  HeadersInv'
  BY <1>1 DEF HeadersInv, HeadersSaid, HeadersBefore, HeadersAhead
<1>2. CASE AttachCallback \/ Connect \/ SendMessage \/ Returns
  <2>1. CASE AttachCallback \/ Connect \/ Returns
    BY <1>1, <2>1 DEF AttachCallback, Connect, HttpStart, Returns
  <2>2. CASE SendMessage
    BY <1>1, <2>2 DEF SendMessage, HttpSend, XhrSend, ArrayBufferXhrSend, NodeSend, FetchSend
  <2> QED BY <1>2, <2>1, <2>2
<1>3. CASE SendFinish
  BY <1>3 DEF SendFinish, FakeFinishSend, HeadersInv, HeadersSaid, HeadersBefore, HeadersAhead
<1>4. CASE Handler /\ UNCHANGED <<upcallVars, httpVars, fakeVars, returned>>
  BY <1>1, <1>4
<1>5. CASE TransportEvent
  <2>1. /\ OnStateChange \/ OnErrorEvent => kind \in {"xhr", "rn"}
        /\ OnProgressEvent \/ OnLoadEvent => kind = "xhr"
        /\ OnLoadEventArrayBuffer => kind = "rn"
    BY DEF OnStateChange, OnErrorEvent, OnProgressEvent, OnLoadEvent, OnLoadEventArrayBuffer, XhrEvent
  <2>2. CASE kind = "xhr" /\ (OnStateChange \/ OnProgressEvent \/ OnErrorEvent \/ OnLoadEvent)
    BY <2>2, HeadersXhr
  <2>3. CASE kind = "rn" /\ (OnStateChange \/ OnErrorEvent \/ OnLoadEventArrayBuffer)
    BY <2>3, HeadersDetach
  <2>4. CASE DetachedRuns
    BY <2>4, HeadersDetachedRuns
  <2>5. CASE NodeResponse \/ NodeData \/ NodeEnd \/ NodeError
    BY <2>5, HeadersNode
  <2>6. CASE FetchResponse \/ Pump \/ ReadValue \/ ReadDone \/ Catch
    BY <2>6, HeadersFetch
  <2> QED BY <1>5, <2>1, <2>2, <2>3, <2>4, <2>5, <2>6 DEF TransportEvent
<1>6. CASE kind = "fake" /\ FakeUpcall /\ UNCHANGED <<httpVars, returned, unaryVars>>
  BY <1>6, HeadersFake
<1>7. CASE Test
  BY <1>7 DEF Test, Trigger, HeadersInv, HeadersSaid, HeadersBefore
<1>8. CASE Network
  <2>1. UNCHANGED <<kind, seen, passed, told, upcalls, await>> /\ (UNCHANGED answer \/ ResponseStarts)
    BY <1>8 DEF Network, ResponseStarts, BodyArrives, ConnectionBreaks
  <2>2. CASE ResponseStarts
    <3>1. wire = "sent"
      BY <2>2 DEF ResponseStarts
    <3>2. answer = NoResponse
      BY <3>1 DEF AnswerInv
    <3> QED BY <2>1, <3>2 DEF HeadersInv, HeadersSaid, HeadersBefore, HeadersAhead
  <2> QED BY <1>1, <2>1, <2>2
<1>9. CASE UNCHANGED vars
  BY <1>1, <1>9 DEF vars
<1> QED BY <1>2, <1>3, <1>4, <1>5, <1>6, <1>7, <1>8, <1>9, HeadersCancel DEF Next, Application, JavaScript

LEMMA AnswersHold == Spec => [](AnswerInv /\ HeadersInv)
<1>1. Init => AnswerInv /\ HeadersInv
  <2> SUFFICES ASSUME Init PROVE AnswerInv /\ HeadersInv
    OBVIOUS
  <2>1. AnswerInv
    BY DEF Init, ClientInit, HttpInit, AnswerInv
  <2>2. Len(upcalls) = 0
    BY EmptySeq DEF Init, UpcallsInit
  <2>3. OK # Undefined
    BY ClientAssumption DEF OK
  <2> QED BY <2>1, <2>2, <2>3 DEF Init, UpcallsInit, HttpInit, HeadersInv, HeadersSaid, HeadersBefore
<1>2. /\ AnswerInv /\ HeadersInv /\ TransportInv /\ TransportInv' /\ [Next]_vars
      => AnswerInv' /\ HeadersInv'
  BY AnswerNext, HeadersNext
<1> QED BY <1>1, <1>2, TransportsInOrder, PTL DEF Spec

=============================================================================
