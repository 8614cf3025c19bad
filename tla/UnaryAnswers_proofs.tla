------------------------ MODULE UnaryAnswers_proofs -------------------------
(***************************************************************************)
(* Proofs of what unary answers: over the HTTP transports the output is    *)
(* what the server sent, and the fake transport tells its whole script.    *)
(***************************************************************************)
EXTENDS UnaryCall_proofs

\* The theorems about a call whose messages all deserialize.
Clean == INSTANCE CompleteCall_proofs WITH
  HeadersFirst <- FALSE,
  MaxHeaders <- 2,
  MaxChunks <- MaxBody + 1,
  MaxMessages <- MaxBody,
  HeaderStatuses <- SaidInHeaders,
  TrailerStatuses <- SaidInTrailers,
  HttpStatuses <- HttpCodes,
  BadMessages <- FALSE,
  Unparsable <- FALSE,
  Sends <- TRUE,
  headersSeen <- seen.headers,
  chunksSeen <- seen.chunks,
  transportEnded <- seen.ended,
  arrived <- MessagesHanded,
  lastStatus <- StatusHanded,
  early <- callbacks

-----------------------------------------------------------------------------
(* A response whose messages all deserialize *)

LEMMA CleanConstants ==
  /\ FALSE \in BOOLEAN
  /\ 2 \in Nat /\ MaxBody + 1 \in Nat /\ MaxBody \in Nat
  /\ SaidInHeaders \cup SaidInTrailers \subseteq Status
  /\ HttpCodes \subseteq Nat
  /\ FALSE \in BOOLEAN /\ FALSE \in BOOLEAN /\ TRUE \in BOOLEAN
  BY TransportConstants

\* A message that does not deserialize does not go away.
LEMMA BadStays == ASSUME TransportInv, [Next]_vars, Bad(received) PROVE Bad(received')
<1>1. CASE UNCHANGED received
  BY <1>1 DEF Bad
<1>2. CASE BodyArrives
  <2>1. PICK i \in 1..Len(received) : received[i].type = "bad"
    BY DEF Bad
  <2>2. i \in 1..Len(received') /\ received'[i].type = "bad"
    BY <1>2, <2>1, BodyKeeps
  <2> QED BY <2>2 DEF Bad
<1>3. Connect \/ SendMessage => UNCHANGED received
  BY DEF Connect, HttpStart, SendMessage, HttpSend, fakeVars, upcallVars
<1>4. Network => UNCHANGED received \/ BodyArrives
  BY DEF Network, ResponseStarts, ConnectionBreaks, upcallVars
<1> QED BY <1>1, <1>2, <1>3, <1>4, ConnectionStays

\* Only an upcall hands over a chunk.
LEMMA ChunksCount ==
  ASSUME TransportInv, [Next]_vars
  PROVE  seen'.chunks = seen.chunks \/ \E n : AllowedChunk(n)
<1>1. ASSUME Upcalls PROVE seen'.chunks = seen.chunks \/ \E n : AllowedChunk(n)
  <2>1. ASSUME NEW h, NEW s, AllowedHeaders(h, s) PROVE seen'.chunks = seen.chunks
    BY <2>1, UpHeadersEffect DEF AllowedHeaders, TransportInv
  <2>2. UpEnd => seen'.chunks = seen.chunks
    BY UpEndEffect DEF TransportInv
  <2> QED BY <1>1, <2>1, <2>2 DEF Upcalls, AllowedUpcall
<1>2. CASE Application
  BY <1>2 DEF Application, AttachCallback, Connect, SendMessage, SendFinish, Returns, Cancel, upcallVars,
         HttpStart, HttpSend, HttpCancel, FakeFinishSend
<1>3. CASE returned /\ TransportEvent /\ UNCHANGED <<fakeVars, returned, unaryVars>>
  BY <1>1, <1>3, InvEvent
<1>4. CASE kind = "fake" /\ FakeUpcall /\ UNCHANGED <<httpVars, returned, unaryVars>>
  BY <1>1, <1>4, InvFakeUpcall DEF Upcalls
<1>5. CASE Test
  BY <1>5 DEF Test, Trigger
<1>6. CASE Network
  BY <1>6 DEF Network, ResponseStarts, BodyArrives, ConnectionBreaks, upcallVars
<1>7. CASE UNCHANGED vars \/ UNCHANGED upcallVars
  BY <1>7 DEF vars, upcallVars
<1> QED BY <1>2, <1>3, <1>4, <1>5, <1>6, <1>7 DEF Next, JavaScript

LEMMA CleanChunk ==
  ASSUME TransportInv, ~Bad(received), NEW n, AllowedChunk(n)
  PROVE  Clean!Next
<1>1. PICK run \in Call!MessageRuns, trailers \in Call!Trailers :
        /\ Call!TransportChunk(run, trailers)
        /\ \A i \in DOMAIN run : run[i] = "message"
  BY ChunkImplements
<1>2. run \in Clean!MessageRuns
  <2>1. PICK m \in 0..(MaxBody - MessagesHanded) :
          run \in [1..m -> IF SomeBad THEN {"message", "bad"} ELSE {"message"}]
    BY DEF Call!MessageRuns
  <2>2. run \in [1..m -> {"message"}]
    BY <1>1, <2>1
  <2> QED BY <2>2 DEF Clean!MessageRuns
<1>3. trailers \in Clean!Trailers
  BY DEF Call!Trailers, Clean!Trailers
<1>4. Clean!TransportChunk(run, trailers)
  BY <1>1, Zenon DEF Call!TransportChunk, Clean!TransportChunk, Call!OnTransportChunk,
    Clean!OnTransportChunk, Call!TransportRuns, Clean!TransportRuns, Call!Busy, Clean!Busy,
    Call!Kinds, Clean!Kinds, Call!Top, Clean!Top, Call!Last, Clean!Last,
    Call!clientVars, Clean!clientVars, Call!flags, Clean!flags, Call!response, Clean!response
<1> QED BY <1>2, <1>3, <1>4 DEF Clean!Next

LEMMA CleanOther ==
  ASSUME Call!Next, seen.chunks \in Nat, seen'.chunks = seen.chunks
  PROVE  Clean!Next
<1>1. Call!Application => Clean!Application
  BY Zenon DEF Call!Application, Clean!Application, Call!Register, Clean!Register, Call!Start,
    Clean!Start, Call!Send, Clean!Send, Call!FinishSend, Clean!FinishSend, Call!Close, Clean!Close,
    Call!ApplicationRuns, Clean!ApplicationRuns, Call!Busy, Clean!Busy, Call!Kinds, Clean!Kinds,
    Call!Top, Clean!Top, Call!Last, Clean!Last, Call!clientVars, Clean!clientVars, Call!flags,
    Clean!flags, Call!response, Clean!response, Call!transportVars, Clean!transportVars
<1>2. ASSUME NEW h, NEW s, Call!TransportHeaders(h, s) PROVE Clean!TransportHeaders(h, s)
  BY <1>2, Zenon DEF Call!TransportHeaders, Clean!TransportHeaders, Call!OnTransportHeaders,
    Clean!OnTransportHeaders, Call!TransportRuns, Clean!TransportRuns, Call!HeaderCode,
    Clean!HeaderCode, Call!HttpStatusToCode, Clean!HttpStatusToCode, Call!RawOnHeaders,
    Clean!RawOnHeaders, Call!Busy, Clean!Busy, Call!Kinds, Clean!Kinds, Call!Top, Clean!Top,
    Call!Last, Clean!Last, Call!OK, Clean!OK, Call!Loop, Clean!Loop, Call!clientVars,
    Clean!clientVars, Call!flags, Clean!flags, Call!response, Clean!response
<1>3. ASSUME NEW run, NEW trailers, Call!TransportChunk(run, trailers) PROVE FALSE
  BY <1>3 DEF Call!TransportChunk
<1>4. ~Call!TransportGarbage
  BY DEF Call!TransportGarbage
<1>5. Call!TransportEnd => Clean!TransportEnd
  BY Zenon DEF Call!TransportEnd, Clean!TransportEnd, Call!OnTransportEnd, Clean!OnTransportEnd,
    Call!TransportRuns, Clean!TransportRuns, Call!Complete, Clean!Complete, Call!EndCode,
    Clean!EndCode, Call!Internal, Clean!Internal, Call!Unknown, Clean!Unknown, Call!Busy,
    Clean!Busy, Call!Kinds, Clean!Kinds, Call!Top, Clean!Top, Call!Last, Clean!Last, Call!Loop,
    Clean!Loop, Call!clientVars, Clean!clientVars, Call!flags, Clean!flags, Call!response,
    Clean!response
<1>6. Call!Handler => Clean!Handler
  BY Zenon DEF Call!Handler, Clean!Handler, Call!HandlerStep, Clean!HandlerStep, Call!ProcessItem,
    Clean!ProcessItem, Call!ClientRuns, Clean!ClientRuns, Call!Pop, Clean!Pop, Call!RawOnMessage,
    Clean!RawOnMessage, Call!RawOnHeaders, Clean!RawOnHeaders, Call!InvokeCallback,
    Clean!InvokeCallback, Call!Skips, Clean!Skips, Call!LoopEnds, Clean!LoopEnds,
    Call!FailAfterHeaders, Clean!FailAfterHeaders, Call!Complete, Clean!Complete, Call!Busy,
    Clean!Busy, Call!Kinds, Clean!Kinds, Call!Top, Clean!Top, Call!Last, Clean!Last, Call!Front,
    Clean!Front, Call!Loop, Clean!Loop, Call!flags, Clean!flags, Call!response, Clean!response,
    Call!transportVars, Clean!transportVars
<1>7. Call!Return => Clean!Return
  BY Zenon DEF Call!Return, Clean!Return, Call!CallbackReturns, Clean!CallbackReturns, Call!Busy,
    Clean!Busy, Call!Kinds, Clean!Kinds, Call!Top, Clean!Top, Call!Last, Clean!Last, Call!Front,
    Clean!Front, Call!flags, Clean!flags, Call!response, Clean!response, Call!transportVars,
    Clean!transportVars
<1> QED BY <1>1, <1>2, <1>3, <1>4, <1>5, <1>6, <1>7 DEF Call!Next, Clean!Next

LEMMA CleanImplements ==
  ASSUME TransportInv, [Next]_vars, ~Bad(received)
  PROVE  [Clean!Next]_(Clean!vars)
<1>1. CASE UNCHANGED Call!vars
  BY <1>1 DEF Call!vars, Clean!vars, Call!clientVars, Clean!clientVars,
    Call!flags, Clean!flags, Call!response, Clean!response, Call!transportVars, Clean!transportVars
<1>2. CASE Call!Next /\ seen'.chunks = seen.chunks
  <2>1. seen.chunks \in Nat
    BY UnaryAssumption DEF TransportInv, UpTypes
  <2> QED BY <1>2, <2>1, CleanOther
<1> QED BY <1>1, <1>2, NextImplements, ChunksCount, CleanChunk

\* While no message has failed to deserialize, what CompleteCall_proofs shows
\* holds: what the server said last is known, and OK means all delivered.
CleanInv == ~Bad(received) => Clean!CompleteInv

LEMMA CleanNext ==
  ASSUME TransportInv, CleanInv, [Next]_vars PROVE CleanInv'
<1> SUFFICES ASSUME ~Bad(received') PROVE Clean!CompleteInv'
  BY DEF CleanInv
<1>1. Clean!CompleteInv /\ Clean!CallInv /\ [Clean!Next]_(Clean!vars)
  <2>1. ~Bad(received)
    BY BadStays
  <2> QED BY <2>1, CleanImplements DEF CleanInv, Clean!CompleteInv
<1>2. Clean!CallInv'
  <2>1. Clean!TypeOK'
    BY <1>1, CleanConstants, ClientAssumption, Clean!NextType
       DEF Status, Clean!Status, Kinds, Clean!Kinds, Clean!CallInv
  <2>2. Clean!EndInv'
    BY <1>1, CleanConstants, ClientAssumption, Clean!NextEnd
       DEF Status, Clean!Status, Kinds, Clean!Kinds, Clean!CallInv
  <2>3. Clean!SeqInv'
    BY <1>1, CleanConstants, ClientAssumption, UnaryAssumption, Clean!NextSeq
       DEF Status, Clean!Status, Kinds, Clean!Kinds, Clean!CallInv
  <2> QED BY <2>1, <2>2, <2>3 DEF Clean!CallInv
<1> QED BY <1>1, <1>2, CleanConstants, ClientAssumption, UnaryAssumption, Clean!NextComplete
       DEF Status, Clean!Status, Kinds, Clean!Kinds

LEMMA CleanInit == Init => CleanInv
<1> SUFFICES ASSUME Init PROVE Clean!CompleteInv
  BY DEF CleanInv
<1>1. Clean!Init
  <2>1. Call!Init
    BY InitImplements
  <2> QED BY <2>1, Zenon DEF Call!Init, Clean!Init, Call!ClientInit, Clean!ClientInit,
        Call!Kinds, Clean!Kinds
<1>2. Clean!CallInv
  BY <1>1, CleanConstants, ClientAssumption, Clean!InitType, Clean!InitEnd, Clean!InitSeq
     DEF Status, Clean!Status, Kinds, Clean!Kinds, Clean!CallInv
<1> QED BY <1>1, <1>2, CleanConstants, ClientAssumption, Clean!InitComplete
       DEF Status, Clean!Status, Kinds, Clean!Kinds

LEMMA CleanHolds == Spec => []CleanInv
<1>1. CleanInv /\ TransportInv /\ [Next]_vars => CleanInv'
  BY CleanNext
<1> QED BY <1>1, CleanInit, TransportsInOrder, PTL DEF Spec

-----------------------------------------------------------------------------
(* The headers that unary has when OK is reported *)

HeadersPending == stack # <<>> /\ Top.do = "headers" /\ Top.next = 1

\* While the call is open the call object has the last headers, and unary has
\* them too or its callback is about to be given them.
Given ==
  /\ ~closed => responseHeaders = seen.last
  /\ ~closed /\ ~completed =>
       IF HeadersPending THEN Top.val = seen.last /\ Top.last = 1 ELSE unaryHeaders = seen.last
  /\ Clean!OkEnd => unaryHeaders = seen.last

HeadersGiven == ~Bad(received) => Given

LEMMA OnTop ==
  ASSUME NEW S, NEW s \in Seq(S), NEW f \in S, NEW t, t = Append(s, f)
  PROVE  t # <<>> /\ Last(t) = f
<1>1. t \in Seq(S) /\ Len(t) = Len(s) + 1 /\ t[Len(s) + 1] = f /\ Len(s) \in Nat
  BY QueuePush, LenProperties
<1>2. Len(t) # 0
  BY <1>1
<1>3. t # <<>>
  BY <1>1, <1>2, EmptySeq
<1> QED BY <1>1, <1>3 DEF Last

\* What a step is to the call object.
LEMMA Steps ==
  ASSUME TransportInv, [Next]_vars
  PROVE  \/ UNCHANGED <<stack, response, completed, heard, seen, passed, unaryVars>> /\ (closed => closed')
         \/ AllowedUpcall /\ UNCHANGED unaryVars
         \/ Handler /\ UNCHANGED <<seen, received, passed>>
<1> DEFINE Quiet == /\ UNCHANGED <<stack, response, completed, heard, seen, passed, unaryVars>>
                    /\ closed => closed'
<1>1. CASE Application
  <2>1. UNCHANGED <<stack, response, completed, heard, seen, passed, unaryVars>>
    BY <1>1 DEF Application, AttachCallback, Connect, SendMessage, SendFinish, Returns, Cancel,
          Register, Start, Send, FinishSend, Close, upcallVars, clientVars, HttpStart, HttpSend,
          HttpCancel, FakeFinishSend
  <2>2. closed' = closed \/ closed' = TRUE
    BY <1>1 DEF Application, AttachCallback, Connect, SendMessage, SendFinish, Returns, Cancel,
          Register, Start, Send, FinishSend, Close, clientVars, flags
  <2>3. closed => closed'
    BY <2>2
  <2> QED BY <2>1, <2>3
<1>2. CASE Handler /\ UNCHANGED <<upcallVars, httpVars, fakeVars, returned>>
  BY <1>2 DEF upcallVars
<1>3. UNCHANGED clientVars => UNCHANGED <<stack, response, completed, heard>> /\ (closed => closed')
  BY DEF clientVars, flags
<1>4. CASE returned /\ TransportEvent /\ UNCHANGED <<fakeVars, returned, unaryVars>>
  BY <1>3, <1>4, InvEvent DEF Upcalls
<1>5. CASE kind = "fake" /\ FakeUpcall /\ UNCHANGED <<httpVars, returned, unaryVars>>
  BY <1>5, InvFakeUpcall
<1>6. CASE Test
  BY <1>3, <1>6 DEF Test, Trigger
<1>7. CASE Network /\ UNCHANGED <<fakeVars, returned, unaryVars>>
  BY <1>3, <1>7 DEF Network, ResponseStarts, BodyArrives, ConnectionBreaks, upcallVars
<1>8. CASE UNCHANGED vars
  <2>1. UNCHANGED <<clientVars, seen, passed, unaryVars>>
    BY <1>8 DEF vars, upcallVars
  <2> QED BY <1>3, <2>1
<1> QED BY <1>1, <1>2, <1>4, <1>5, <1>6, <1>7, <1>8 DEF Next, JavaScript

\* OK is what the transport handed over last, and the end of it.
LEMMA OkEnds ==
  ASSUME Clean!CompleteInv, Clean!OkEnd
  PROVE  completed /\ seen.ended /\ StatusHanded = OK
  BY Zenon DEF Clean!CompleteInv, Clean!OkDone, Clean!OK, OK

LEMMA GivenOk ==
  ASSUME TransportInv, Clean!CompleteInv, ~Bad(received), Given, [Next]_vars,
         \/ unaryHeaders' = unaryHeaders /\ seen'.last = seen.last
         \/ ~seen.ended /\ ~seen'.ended
         \/ stack # <<>> /\ ~completed
  PROVE  Clean!OkEnd' => unaryHeaders' = seen'.last
<1> SUFFICES ASSUME Clean!OkEnd' PROVE unaryHeaders' = seen'.last
  OBVIOUS
<1>1. Clean!OkEnd \/ Clean!BecomesOk
  <2>1. [Clean!Next]_(Clean!vars) /\ Clean!CallInv /\ Clean!FailsWithError
    BY CleanImplements DEF Clean!CompleteInv
  <2> QED BY <2>1, CleanConstants, ClientAssumption, UnaryAssumption, Clean!OkIsNewOrOld
             DEF Status, Clean!Status, Kinds, Clean!Kinds
<1>2. CASE Clean!OkEnd
  BY <1>2, OkEnds DEF Given
<1>3. CASE Clean!BecomesOk
  <2>1. ~closed /\ ~completed /\ stack = <<>> /\ seen'.ended
    BY <1>3, UnaryAssumption DEF Clean!BecomesOk, Clean!EndsWith, Clean!TransportEnd,
       Clean!OnTransportEnd, Clean!TransportRuns
  <2>2. unaryHeaders = seen.last
    BY <2>1 DEF Given, HeadersPending
  <2> QED BY <2>1, <2>2
<1> QED BY <1>1, <1>2, <1>3

\* Nothing happens to the call object, or it ignores the upcall.
LEMMA GivenStill ==
  ASSUME Given, UNCHANGED <<stack, response, completed, heard>>, unaryHeaders' = unaryHeaders,
         seen'.last = seen.last, closed => closed',
         Clean!OkEnd' => unaryHeaders' = seen'.last
  PROVE  Given'
<1>1. HeadersPending' = HeadersPending /\ Top' = Top
  BY DEF HeadersPending, Top
<1>2. ~closed' /\ ~completed' =>
        IF HeadersPending THEN Top.val = seen'.last /\ Top.last = 1 ELSE unaryHeaders' = seen'.last
  BY DEF Given
<1>3. ~closed' => responseHeaders' = seen'.last
  BY DEF Given, response
<1>4. ~closed' /\ ~completed' =>
        IF HeadersPending' THEN Top'.val = seen'.last /\ Top'.last = 1 ELSE unaryHeaders' = seen'.last
  BY <1>1, <1>2
<1> QED BY <1>3, <1>4 DEF Given

LEMMA GivenHeaders ==
  ASSUME TransportInv, ClientTypeOK, Given, NEW h, NEW s, AllowedHeaders(h, s),
         Clean!OkEnd' => unaryHeaders' = seen'.last
  PROVE  Given'
<1>0. /\ seen' = [headers |-> seen.headers + 1, last |-> IF s = 0 THEN seen.last ELSE h,
                  chunks |-> seen.chunks, ended |-> seen.ended]
      /\ UNCHANGED flags
  BY UpHeadersEffect DEF TransportInv, AllowedHeaders
<1>1. h \in Status /\ s # 0 /\ seen'.last = h /\ UNCHANGED flags /\ OnTransportHeaders(h, s)
  BY <1>0, SaidIsStatus, NoZero DEF AllowedHeaders, UpHeaders
<1>2. closed' = closed
  BY <1>1 DEF flags
<1>3. CASE closed
  BY <1>2, <1>3 DEF Given
<1>4. CASE ~closed
  <2> DEFINE f == Loop("headers", h)
             rest == IF HeaderCode(h, s) = OK THEN stack
                     ELSE Append(stack, [do |-> "fail", code |-> HeaderCode(h, s)])
  <2>1. /\ responseHeaders' = h /\ completed' = completed /\ TransportRuns
        /\ stack' = IF completed THEN rest ELSE Append(rest, f)
    BY <1>1, <1>4 DEF OnTransportHeaders, RawOnHeaders
  <2>2. started /\ stack = <<>>
    BY <2>1, UnaryAssumption DEF TransportRuns
  <2>3. callbacks["headers"] = 1
    BY <2>2 DEF TransportInv, Attached
  <2>4. f \in Frame /\ f.do = "headers" /\ f.val = h /\ f.next = 1 /\ f.last = 1
    BY <1>1, <2>3 DEF Loop, Frame, LoopFrame, Kinds
  <2>5. rest \in Seq(Frame)
    <3>1. HeaderCode(h, s) \in Int
      BY <1>1 DEF HeaderCode, HttpStatusToCode
    <3>2. [do |-> "fail", code |-> HeaderCode(h, s)] \in Frame
      BY <3>1 DEF Frame, FailFrame
    <3> QED BY <3>2 DEF ClientTypeOK
  <2> HIDE DEF f, rest
  <2>6. ~completed => stack' # <<>> /\ Last(stack') = f
    BY <2>1, <2>4, <2>5, OnTop
  <2>7. ~completed => HeadersPending' /\ Top'.val = h /\ Top'.last = 1
    BY <2>4, <2>6 DEF HeadersPending, Top
  <2> QED BY <1>1, <1>2, <2>1, <2>7 DEF Given
<1> QED BY <1>3, <1>4

LEMMA GivenChunk ==
  ASSUME TransportInv, ClientTypeOK, Given, NEW n, AllowedChunk(n), UNCHANGED unaryVars,
         Clean!OkEnd' => unaryHeaders' = seen'.last
  PROVE  Given'
<1> DEFINE data == SubSeq(received, passed + 1, n)
<1>1. seen'.last = seen.last /\ OnTransportChunk(data) /\ unaryHeaders' = unaryHeaders
  BY UpChunkEffect DEF TransportInv, AllowedChunk, UpChunk, unaryVars
<1>2. data \in Seq(Item)
  <2>1. passed \in Nat /\ n \in passed..Len(received) /\ received \in Seq(Item) /\ Len(received) \in Nat
    BY LenProperties DEF TransportInv, UpTypes, AllowedChunk, IsBody
  <2>2. \A i \in passed + 1 .. n : received[i] \in Item
    BY <2>1, ElementOfSeq
  <2> QED BY <2>1, <2>2, SubSeqProperties
<1> HIDE DEF data
<1>3. CASE closed
  BY <1>1, <1>3, GivenStill DEF OnTransportChunk, clientVars, flags
<1>4. CASE ~closed
  <2> DEFINE f == [do |-> "chunk", data |-> data]
  <2>1. /\ UNCHANGED <<flags, completed, response>> /\ stack = <<>>
        /\ stack' = Append(stack, f)
    BY <1>1, <1>4, UnaryAssumption DEF OnTransportChunk, TransportRuns
  <2>2. f \in Frame /\ f.do = "chunk"
    BY <1>2 DEF Frame, ChunkFrame
  <2> HIDE DEF f
  <2>3. Last(stack') = f
    BY <2>1, <2>2, OnTop DEF ClientTypeOK
  <2>4. ~HeadersPending' /\ ~HeadersPending
    BY <2>1, <2>2, <2>3 DEF HeadersPending, Top
  <2>5. ~closed' => responseHeaders' = seen'.last
    BY <1>1, <2>1 DEF Given, response, flags
  <2>6. ~closed' /\ ~completed' => unaryHeaders' = seen'.last
    BY <1>1, <2>1, <2>4 DEF Given, flags
  <2> QED BY <2>4, <2>5, <2>6 DEF Given
<1> QED BY <1>3, <1>4

LEMMA GivenEnd ==
  ASSUME TransportInv, Given, UpEnd, UNCHANGED unaryVars,
         Clean!OkEnd' => unaryHeaders' = seen'.last
  PROVE  Given'
<1>1. seen'.last = seen.last /\ OnTransportEnd /\ unaryHeaders' = unaryHeaders
  BY UpEndEffect DEF TransportInv, UpEnd, unaryVars
<1>2. CASE closed
  BY <1>1, <1>2, GivenStill DEF OnTransportEnd, clientVars, flags
<1>3. CASE ~closed
  BY <1>1, <1>3 DEF OnTransportEnd, Complete, Given, response, flags
<1> QED BY <1>2, <1>3


\* The frame on top and what is below it.
LEMMA OfStack ==
  ASSUME ClientTypeOK, stack # <<>>
  PROVE  /\ Front(stack) \in Seq(Frame) /\ Len(Front(stack)) = Len(stack) - 1
         /\ Len(stack) \in Nat \ {0} /\ Top = stack[Len(stack)] /\ Top \in Frame
         /\ \A p \in 1..(Len(stack) - 1) : Front(stack)[p] = stack[p]
<1>1. stack \in Seq(Frame)
  BY DEF ClientTypeOK
<1>2. /\ Call!Front(stack) \in Seq(Frame) /\ Len(Call!Front(stack)) = Len(stack) - 1
      /\ \A p \in 1..(Len(stack) - 1) : Call!Front(stack)[p] = stack[p]
      /\ Len(stack) \in Nat \ {0} /\ Call!Last(stack) = stack[Len(stack)] /\ Call!Last(stack) \in Frame
  BY <1>1, TransportConstants, ClientAssumption, Call!FrontLast DEF Status, Call!Status, Kinds, Call!Kinds
<1>3. Call!Front(stack) = Front(stack) /\ Call!Last(stack) = Top
  BY Zenon DEF Front, Call!Front, Top, Last, Call!Last
<1> QED BY <1>2, <1>3

LEMMA NewTop ==
  ASSUME ClientTypeOK, stack # <<>>, NEW f \in Frame, stack' = Append(Front(stack), f)
  PROVE  stack' # <<>> /\ Top' = f
<1>1. Front(stack) \in Seq(Frame)
  BY OfStack
<1>2. stack' # <<>> /\ Last(stack') = f
  BY <1>1, OnTop
<1> QED BY <1>2 DEF Top

LEMMA CleanProcessItem == ProcessItem => Clean!ProcessItem
  BY Zenon DEF ProcessItem, Clean!ProcessItem, ClientRuns, Clean!ClientRuns, Pop, Clean!Pop,
    RawOnMessage, Clean!RawOnMessage, RawOnHeaders, Clean!RawOnHeaders, Loop, Clean!Loop, Busy,
    Clean!Busy, Kinds, Clean!Kinds, Top, Clean!Top, Last, Clean!Last, Front, Clean!Front, flags,
    Clean!flags, response, Clean!response

LEMMA CleanTypes ==
  ASSUME Clean!CompleteInv
  PROVE  Clean!ClientTypeOK /\ Clean!SeqInv /\ Clean!CallInv /\ ClientTypeOK /\ Clean!Top = Top
<1>1. Clean!ClientTypeOK /\ Clean!SeqInv /\ Clean!CallInv
  BY DEF Clean!CompleteInv, Clean!CallInv, Clean!TypeOK
<1>2. Clean!ClientTypeOK <=> ClientTypeOK
  BY Zenon DEF ClientTypeOK, Clean!ClientTypeOK, Kinds, Clean!Kinds, Status, Clean!Status,
     Frame, Clean!Frame, LoopFrame, Clean!LoopFrame, ChunkFrame, Clean!ChunkFrame,
     FailFrame, Clean!FailFrame, Item, Clean!Item
<1>3. Clean!Top = Top
  BY Zenon DEF Top, Clean!Top, Last, Clean!Last
<1> QED BY <1>1, <1>2, <1>3

\* The trailers do not come before the headers: no transport hands over a part
\* of the body before them.
LEMMA TrailersLast ==
  ASSUME Clean!CompleteInv, TransportInv, HeadersSaid, Given, ~closed, ProcessItem,
         Top.data # <<>>, Head(Top.data).type = "trailers"
  PROVE  responseHeaders # Undefined
<1> DEFINE d == Head(Top.data)
<1>1. Clean!ClientTypeOK /\ Clean!SeqInv /\ Clean!Top = Top
  BY CleanTypes
<1>2. /\ Top.data \in Seq(Clean!Item) /\ Clean!LeftOf(stack) = Top.data
  <2>1. Clean!Top.data \in Seq(Clean!Item) /\ Clean!LeftOf(stack) = Clean!Top.data
    BY <1>1, CleanProcessItem, CleanConstants, ClientAssumption, Clean!ItemView
       DEF Status, Clean!Status, Kinds, Clean!Kinds
  <2> QED BY <1>1, <2>1
<1>3. Clean!NumberedItems(Top.data, Clean!Taken) /\ Clean!Taken \in Nat
  BY <1>1, <1>2 DEF Clean!SeqInv, Clean!InOrder
<1>4. Tail(Top.data) = <<>>
  BY <1>2, <1>3, CleanConstants, ClientAssumption, Clean!TailItems
     DEF Status, Clean!Status, Kinds, Clean!Kinds
<1>5. Clean!EndsInTrailers(Top.data) /\ Top.data[Len(Top.data)].val \in Status
  <2>1. /\ Len(Top.data) \in Nat \ {0} /\ Len(Tail(Top.data)) = Len(Top.data) - 1
        /\ d = Top.data[1] /\ d \in Clean!Item
    BY <1>2, EmptySeq, HeadTailProperties
  <2>2. Len(Tail(Top.data)) = 0
    BY <1>4, EmptySeq
  <2>3. Len(Top.data) = 1
    BY <2>1, <2>2
  <2>4. d.val \in Status
    BY <2>1 DEF Clean!Item, Clean!Status, Status
  <2> QED BY <2>1, <2>3, <2>4 DEF Clean!EndsInTrailers
<1>6. StatusHanded \in Status
  BY <1>2, <1>5 DEF Clean!CompleteInv, Clean!StatusKnown, Clean!Said
<1>7. seen.last # Undefined
  <2>1. CASE HandedTrailers
    BY <2>1 DEF HandedTrailers, HeadersSaid
  <2>2. CASE ~HandedTrailers
    BY <1>6, <2>2, ClientAssumption DEF StatusHanded, Status
  <2> QED BY <2>1, <2>2
<1> QED BY <1>7 DEF Given

LEMMA GivenItem ==
  ASSUME Clean!CompleteInv, TransportInv, HeadersSaid, Given, ProcessItem,
         UNCHANGED <<seen, unaryVars>>, Clean!OkEnd' => unaryHeaders' = seen'.last
  PROVE  Given'
<1>1. /\ ClientTypeOK /\ stack # <<>> /\ Top.do = "chunk" /\ UNCHANGED <<flags, completed>>
  BY CleanTypes DEF ProcessItem, ClientRuns
<1>2. Len(stack) = 1
  BY CleanTypes, CleanProcessItem, CleanConstants, ClientAssumption, Clean!ItemView
     DEF Status, Clean!Status, Kinds, Clean!Kinds
<1>3. Front(stack) \in Seq(Frame) /\ Front(stack) = <<>> /\ Top \in ChunkFrame
  BY <1>1, <1>2, OfStack, EmptySeq DEF Frame, LoopFrame, ChunkFrame, FailFrame, Kinds
<1> DEFINE d == Head(Top.data)
           top == [Top EXCEPT !.data = Tail(Top.data)]
           rest == Append(Front(stack), top)
<1>4. ~HeadersPending
  BY <1>1 DEF HeadersPending
<1>5. ASSUME ~closed, ~completed PROVE ~HeadersPending'
  <2>1. CASE stack' = Front(stack)
    BY <1>3, <2>1 DEF HeadersPending
  <2>2. CASE Top.data # <<>> /\ (stack' = rest \/ stack' = Append(rest, Loop("message", d.val)))
    <3>1. Tail(Top.data) \in Seq(Item) /\ d \in Item
      BY <1>3, <2>2, HeadTailProperties DEF ChunkFrame
    <3>2. top \in Frame /\ top.do = "chunk"
      BY <1>3, <3>1 DEF Frame, ChunkFrame
    <3>3. Loop("message", d.val) \in Frame /\ Loop("message", d.val).do = "message"
      <4>1. d.val \in Status
        BY <3>1 DEF Item, Status
      <4>2. callbacks["message"] \in Nat
        BY DEF TransportInv, Attached, Kinds
      <4> QED BY <4>1, <4>2 DEF Loop, Frame, LoopFrame, Kinds
    <3> HIDE DEF top
    <3>4. rest \in Seq(Frame) /\ Last(rest) = top
      <4>1. rest \in Seq(Frame)
        BY <1>3, <3>2, AppendProperties
      <4> QED BY <1>3, <3>2, <4>1, OnTop
    <3> HIDE DEF rest
    <3>5. Last(stack').do # "headers"
      BY <2>2, <3>2, <3>3, <3>4, OnTop
    <3> QED BY <3>5 DEF HeadersPending, Top
  <2>3. Top.data # <<>> /\ d.type = "trailers" => responseHeaders # Undefined
    BY <1>5, TrailersLast
  <2> QED BY <2>1, <2>2, <2>3 DEF ProcessItem, Pop, RawOnMessage
<1>6. ~closed => responseHeaders' = responseHeaders
  BY TrailersLast DEF ProcessItem, response
<1>7. closed' = closed /\ seen' = seen /\ unaryHeaders' = unaryHeaders /\ completed' = completed
  BY <1>1 DEF flags, unaryVars
<1> QED BY <1>4, <1>5, <1>6, <1>7 DEF Given

\* The top of the stack after a callback was called or has returned.
LEMMA GivenLoop ==
  ASSUME ClientTypeOK, stack # <<>>, Top.do \in Kinds, NEW n \in Nat \ {0}, NEW b \in BOOLEAN,
         NEW f, f = [Top EXCEPT !.next = n, !.busy = b], stack' = Append(Front(stack), f)
  PROVE  /\ stack' # <<>> /\ Top' = f
         /\ f.do = Top.do /\ f.val = Top.val /\ f.last = Top.last /\ f.next = n
<1>1. Top \in LoopFrame /\ Front(stack) \in Seq(Frame)
  BY OfStack DEF Frame, LoopFrame, ChunkFrame, FailFrame, Kinds
<1>2. f \in Frame /\ f.do = Top.do /\ f.val = Top.val /\ f.last = Top.last /\ f.next = n
  BY <1>1 DEF LoopFrame, Frame
<1> QED BY <1>2, NewTop

LEMMA GivenInvoke ==
  ASSUME Call!CallInv, ClientTypeOK, Given, UnaryCallback, UNCHANGED seen,
         Clean!OkEnd' => unaryHeaders' = seen'.last
  PROVE  Given'
<1>1. /\ Top.do \in Kinds /\ Top.val \in Status /\ Top.next = 1 /\ Top.last = 1 /\ stack # <<>>
      /\ Top.do \in {"headers", "message"} => ~completed
  BY Hears DEF UnaryCallback
<1>2. UNCHANGED <<flags, completed, response>>
  BY DEF UnaryCallback, InvokeCallback
<1>3. stack' # <<>> /\ Top'.next = 2
  <2>1. PICK f : f = [Top EXCEPT !.next = 2, !.busy = TRUE] /\ stack' = Append(Front(stack), f)
    <3>1. Top.next + 1 = 2
      BY <1>1
    <3>2. stack' = Append(Front(stack), [Top EXCEPT !.next = Top.next + 1, !.busy = TRUE])
      BY Zenon DEF UnaryCallback, InvokeCallback
    <3>3. stack' = Append(Front(stack), [Top EXCEPT !.next = 2, !.busy = TRUE])
      BY <3>1, <3>2, Zenon
    <3> QED BY <3>3, Zenon
  <2>2. PICK n \in Nat \ {0} : n = 2
    OBVIOUS
  <2>3. f = [Top EXCEPT !.next = n, !.busy = TRUE] /\ TRUE \in BOOLEAN
    BY <2>1, <2>2, Zenon
  <2> QED BY <1>1, <2>1, <2>2, <2>3, GivenLoop
<1>4. ~HeadersPending'
  BY <1>3 DEF HeadersPending
<1>5. ~closed /\ ~completed => unaryHeaders' = seen.last
  <2>1. CASE Top.do = "headers"
    BY <1>1, <2>1 DEF UnaryCallback, Captured, Given, HeadersPending
  <2>2. CASE Top.do # "headers"
    BY <2>2 DEF UnaryCallback, Captured, Given, HeadersPending
  <2> QED BY <2>1, <2>2
<1> QED BY <1>2, <1>4, <1>5 DEF Given, flags, response

LEMMA GivenHandler ==
  ASSUME Call!CallInv, Clean!CompleteInv, TransportInv, HeadersSaid, Given,
         Handler, UNCHANGED <<seen, received, passed>>, Clean!OkEnd' => unaryHeaders' = seen'.last
  PROVE  Given'
<1>1. ClientTypeOK
  BY CleanTypes
<1>2. CASE UnaryCallback
  BY <1>1, <1>2, GivenInvoke
<1>3. CASE ProcessItem /\ UNCHANGED unaryVars
  BY <1>3, GivenItem
<1>4. CASE CallbackReturns /\ UNCHANGED unaryVars
  <2>1. stack # <<>> /\ Top.do \in Kinds /\ UNCHANGED <<flags, completed, response>>
    BY <1>4 DEF CallbackReturns, Busy
  <2>2. Top.next \in Nat \ {0} /\ stack' = Append(Front(stack), [Top EXCEPT !.next = Top.next, !.busy = FALSE])
    <3>1. Top \in LoopFrame
      BY <1>1, <2>1, OfStack DEF Frame, LoopFrame, ChunkFrame, FailFrame, Kinds
    <3>2. [Top EXCEPT !.next = Top.next, !.busy = FALSE] = [Top EXCEPT !.busy = FALSE]
      BY <3>1 DEF LoopFrame
    <3> QED BY <1>4, <3>1, <3>2 DEF CallbackReturns, LoopFrame
  <2>3. /\ stack' # <<>> /\ Top'.do = Top.do /\ Top'.val = Top.val
        /\ Top'.last = Top.last /\ Top'.next = Top.next
    BY <1>1, <2>1, <2>2, GivenLoop
  <2>4. HeadersPending' <=> HeadersPending
    BY <2>1, <2>3 DEF HeadersPending
  <2>5. ~closed /\ ~completed =>
          IF HeadersPending' THEN Top'.val = seen.last /\ Top'.last = 1 ELSE unaryHeaders' = seen.last
    <3>1. CASE HeadersPending
      BY <2>3, <2>4, <3>1 DEF Given
    <3>2. CASE ~HeadersPending
      BY <1>4, <2>4, <3>2 DEF Given, unaryVars
    <3> QED BY <3>1, <3>2
  <2> QED BY <2>1, <2>5 DEF Given, flags, response
<1>5. CASE LoopEnds /\ UNCHANGED unaryVars
  <2>1. /\ stack # <<>> /\ UNCHANGED <<flags, completed, response>> /\ stack' = Front(stack)
        /\ Top.do \in Kinds /\ (closed \/ Top.next > Top.last)
    BY <1>5 DEF LoopEnds, ClientRuns, Pop, Skips
  <2>2. ~closed /\ ~completed => ~HeadersPending
    BY <2>1 DEF Given, HeadersPending
  <2>3. ~HeadersPending'
    <3>1. Len(stack) \in 0..2 /\ (Len(stack) = 2 => stack[1].do \in {"chunk", "fail"})
      BY DEF Call!CallInv, Call!SeqInv, Call!Shape
    <3>2. /\ stack' \in Seq(Frame) /\ Len(stack') = Len(stack) - 1 /\ Len(stack) \in Nat \ {0}
          /\ \A p \in 1..(Len(stack) - 1) : stack'[p] = stack[p]
      BY <1>1, <2>1, OfStack
    <3>3. CASE Len(stack) = 1
      BY <3>2, <3>3, EmptySeq DEF HeadersPending
    <3>4. CASE Len(stack) = 2
      <4>1. Len(stack') = 1 /\ stack'[1].do \in {"chunk", "fail"}
        BY <3>1, <3>2, <3>4
      <4>2. Top' = stack'[1]
        BY <4>1 DEF Top, Last
      <4> QED BY <4>1, <4>2 DEF HeadersPending
    <3> QED BY <3>1, <3>2, <3>3, <3>4
  <2>4. closed' = closed /\ completed' = completed /\ responseHeaders' = responseHeaders
        /\ unaryHeaders' = unaryHeaders
    BY <1>5, <2>1 DEF flags, response, unaryVars
  <2> QED BY <2>2, <2>3, <2>4 DEF Given
<1>6. CASE FailAfterHeaders /\ UNCHANGED unaryVars
  <2>1. completed' = TRUE /\ closed' = closed /\ responseHeaders' = responseHeaders
    BY <1>6 DEF FailAfterHeaders, Complete, flags, response
  <2> QED BY <2>1 DEF Given
<1> QED BY <1>2, <1>3, <1>4, <1>5, <1>6 DEF Handler

LEMMA GivenNext ==
  ASSUME Call!CallInv, CleanInv, TransportInv, HeadersSaid, HeadersGiven, [Next]_vars
  PROVE  HeadersGiven'
<1> SUFFICES ASSUME ~Bad(received') PROVE Given'
  BY DEF HeadersGiven
<1>1. ~Bad(received) /\ Given /\ Clean!CompleteInv
  BY BadStays DEF HeadersGiven, CleanInv
<1>2. ClientTypeOK
  BY <1>1, CleanTypes
<1>3. CASE /\ UNCHANGED <<stack, response, completed, heard, seen, passed, unaryVars>>
           /\ closed => closed'
  <2>1. unaryHeaders' = unaryHeaders /\ seen'.last = seen.last
    BY <1>3 DEF unaryVars
  <2>2. Clean!OkEnd' => unaryHeaders' = seen'.last
    BY <1>1, <2>1, GivenOk
  <2> QED BY <1>1, <1>3, <2>1, <2>2, GivenStill
<1>4. ASSUME NEW h, NEW s, AllowedHeaders(h, s), UNCHANGED unaryVars PROVE Given'
  <2>1. ~seen.ended /\ ~seen'.ended
    BY <1>4, UpHeadersEffect DEF TransportInv, AllowedHeaders
  <2>2. Clean!OkEnd' => unaryHeaders' = seen'.last
    BY <1>1, <2>1, GivenOk
  <2> QED BY <1>1, <1>2, <1>4, <2>2, GivenHeaders
<1>5. ASSUME NEW n, AllowedChunk(n), UNCHANGED unaryVars PROVE Given'
  <2>1. unaryHeaders' = unaryHeaders /\ seen'.last = seen.last
    BY <1>5, UpChunkEffect DEF TransportInv, AllowedChunk, unaryVars
  <2>2. Clean!OkEnd' => unaryHeaders' = seen'.last
    BY <1>1, <2>1, GivenOk
  <2> QED BY <1>1, <1>2, <1>5, <2>2, GivenChunk
<1>6. ASSUME UpEnd, UNCHANGED unaryVars PROVE Given'
  <2>1. unaryHeaders' = unaryHeaders /\ seen'.last = seen.last
    BY <1>6, UpEndEffect DEF TransportInv, unaryVars
  <2>2. Clean!OkEnd' => unaryHeaders' = seen'.last
    BY <1>1, <2>1, GivenOk
  <2> QED BY <1>1, <1>6, <2>2, GivenEnd
<1>7. CASE Handler /\ UNCHANGED <<seen, received, passed>>
  <2>1. CASE UnaryCallback /\ Top.do = "headers"
    <3>1. stack # <<>> /\ ~completed
      BY <2>1, Hears DEF UnaryCallback
    <3>2. Clean!OkEnd' => unaryHeaders' = seen'.last
      BY <1>1, <3>1, GivenOk
    <3> QED BY <1>1, <1>7, <3>2, GivenHandler
  <2>2. CASE unaryHeaders' = unaryHeaders
    <3>1. Clean!OkEnd' => unaryHeaders' = seen'.last
      BY <1>1, <1>7, <2>2, GivenOk
    <3> QED BY <1>1, <1>7, <3>1, GivenHandler
  <2> QED BY <1>7, <2>1, <2>2 DEF Handler, UnaryCallback, Captured, unaryVars
<1> QED BY <1>3, <1>4, <1>5, <1>6, <1>7, Steps DEF AllowedUpcall

LEMMA HeadersGivenHolds == Spec => []HeadersGiven
<1>1. Init => HeadersGiven
  <2> SUFFICES ASSUME Init, ~Bad(received) PROVE Given
    BY DEF HeadersGiven
  <2>1. /\ responseHeaders = Undefined /\ seen.last = Undefined /\ unaryHeaders = Undefined
        /\ ~completed /\ stack = <<>>
    BY DEF Init, ClientInit, UpcallsInit
  <2>2. ~Clean!OkEnd
    BY <2>1, CleanInit, OkEnds DEF CleanInv
  <2> QED BY <2>1, <2>2 DEF Given, HeadersPending
<1>2. Call!CallInv /\ CleanInv /\ TransportInv /\ HeadersInv /\ HeadersGiven /\ [Next]_vars
      => HeadersGiven'
  BY GivenNext DEF HeadersInv
<1> QED BY <1>1, <1>2, CallShaped, CleanHolds, TransportsInOrder, AnswersHold, PTL DEF Spec
-----------------------------------------------------------------------------
(* What unary reports with OK *)

\* unary's callback for the end is the only one; OK has come to it.
LEMMA OkOutput ==
  ASSUME Call!CallInv, UnaryInv, NEW n \in 1..Len(outputs), outputs[n].status = OK
  PROVE  /\ Clean!OkEnd
         /\ outputs[n].headers = unaryHeaders /\ outputs[n].message = Last1(heard["message"][1])
<1>1. /\ Len(outputs) = Len(heard["end"][1]) /\ Len(heard["end"][1]) <= 1
      /\ heard["end"][1] \in Seq(Status)
  BY OneCallback DEF UnaryInv, Kinds
<1>2. n = 1 /\ Len(heard["end"][1]) = 1
  <2>1. PICK s \in Seq(Status) : s = heard["end"][1]
    BY <1>1
  <2>2. Len(s) \in Nat /\ n \in 1..Len(s) /\ Len(s) <= 1
    <3>1. Len(s) \in Nat
      BY LenProperties
    <3>2. Len(outputs) = Len(s) /\ Len(s) <= 1
      BY <1>1, <2>1
    <3> QED BY <3>1, <3>2
  <2>3. n = 1 /\ Len(s) = 1
    <3>1. PICK l \in Nat : l = Len(s)
      BY <2>2
    <3>2. \A j \in 1..l : l <= 1 => j = 1 /\ l = 1
      OBVIOUS
    <3> QED BY <2>2, <3>1, <3>2
  <2> QED BY <2>1, <2>3
<1>3. /\ outputs[n].status = heard["end"][1][n]
      /\ outputs[n].headers = unaryHeaders /\ outputs[n].message = unaryMessage
      /\ unaryMessage = Last1(heard["message"][1])
  <2>1. PICK st : st = heard["end"][1][n]
    OBVIOUS
  <2>2. PICK m : m = Last1(heard["message"][1])
    OBVIOUS
  <2>3. outputs[n] = [status |-> st, headers |-> unaryHeaders, message |-> unaryMessage]
    BY <2>1, Zenon DEF UnaryInv
  <2>4. unaryMessage = m
    BY <2>2 DEF UnaryInv
  <2> QED BY <2>1, <2>2, <2>3, <2>4
<1>4. heard["end"][1] = <<OK>>
  <2>1. PICK s \in Seq(Status) : s = heard["end"][1]
    BY <1>1
  <2>2. Len(s) = 1 /\ s[1] = OK
    BY <1>2, <1>3, <2>1
  <2>3. s = <<OK>>
    BY <2>2
  <2> QED BY <2>1, <2>3
<1>5. 1 \in Clean!Callbacks("end")
  BY UnaryAssumption DEF Clean!Callbacks, Kinds
<1> QED BY <1>3, <1>4, <1>5 DEF Clean!OkEnd, Clean!Reports, OK, Clean!OK

\* Then the response is complete, and the messages of it were all handed over.
LEMMA OkIsComplete ==
  ASSUME TransportInv, AnswerInv, HeadersInv, ~Bad(received), StatusHanded = OK
  PROVE  /\ kind # "fake" => wire \in {"complete", "aborted"}
         /\ MessagesHanded \in Nat /\ Messages = 1..MessagesHanded
<1>1. /\ IsBody(received) /\ passed \in 0..Len(received) /\ Len(received) \in Nat
      /\ IsBody(body) /\ Len(body) \in Nat
  BY UnaryAssumption, LenProperties DEF TransportInv, UpTypes, IsBody
<1>2. CASE HandedTrailers
  <2>1. passed = Len(received) /\ passed \in Nat \ {0} /\ received[passed].type = "trailers"
    BY <1>1, <1>2 DEF HandedTrailers, IsBody
  <2>2. \A i \in 1..(passed - 1) : received[i].type = "message"
    <3> TAKE i \in 1..(passed - 1)
    <3>1. i \in 1..Len(received) /\ i # Len(received)
      BY <2>1
    <3>2. received[i] \in Item
      BY <1>1, <3>1, ElementOfSeq DEF IsBody
    <3>3. received[i].type # "bad" /\ received[i].type # "trailers"
      BY <1>1, <3>1 DEF Bad, IsBody
    <3> QED BY <3>2, <3>3 DEF Item
  <2>3. Messages = 1..(passed - 1)
    BY <2>1, <2>2 DEF Messages
  <2>4. kind # "fake" => wire \in {"complete", "aborted"}
    <3> SUFFICES ASSUME kind # "fake" PROVE wire \in {"complete", "aborted"}
      OBVIOUS
    <3>1. Len(received) <= Len(body) /\ body[passed] = received[passed]
      BY <2>1 DEF TransportInv, Arrives
    <3>2. Len(received) = Len(body)
      BY <1>1, <2>1, <3>1 DEF IsBody
    <3> QED BY <2>1, <3>2 DEF AnswerInv
  <2> QED BY <1>2, <2>1, <2>3, <2>4 DEF MessagesHanded
<1>3. CASE ~HandedTrailers
  <2>1. seen.last = OK /\ OK # Undefined
    BY <1>3, ClientAssumption DEF StatusHanded, OK
  <2>2. kind # "fake" /\ answer # NoResponse /\ answer.status = OK
    BY <2>1 DEF HeadersInv, HeadersSaid
  <2>3. body = <<>> /\ wire \in {"complete", "aborted"}
    BY <2>2 DEF AnswerInv
  <2>4. Len(received) = 0 /\ passed = 0
    BY <1>1, <2>2, <2>3, EmptySeq DEF TransportInv, Arrives
  <2>5. MessagesHanded = 0
    BY <1>3, <2>4 DEF MessagesHanded
  <2> QED BY <2>3, <2>4, <2>5 DEF Messages
<1> QED BY <1>2, <1>3

\* The last of the first messages.
LEMMA LastOfFirst ==
  ASSUME NEW m \in Nat
  PROVE  Last1(Clean!FirstMessages(m)) = IF m = 0 THEN Undefined ELSE m
<1>1. PICK s : s = [j \in 1..m |-> j]
  OBVIOUS
<1>2. s \in Seq(Nat) /\ Len(s) = m
  BY <1>1
<1>3. CASE m = 0
  <2>1. s = <<>>
    BY <1>2, <1>3
  <2> QED BY <1>1, <1>3, <2>1 DEF Last1, Clean!FirstMessages
<1>4. CASE m # 0
  <2>1. s # <<>> /\ s[Len(s)] = m
    BY <1>1, <1>2, <1>4
  <2> QED BY <1>1, <1>4, <2>1 DEF Last1, Last, Clean!FirstMessages
<1> QED BY <1>3, <1>4

LEMMA OkIsTheResponse ==
  ASSUME Call!CallInv, CleanInv, UnaryInv, TransportInv, AnswerInv, HeadersInv, HeadersGiven
  PROVE  OutputIsTheResponse
<1> SUFFICES ASSUME NEW n \in 1..Len(outputs), outputs[n].status = OK, ~Bad(received)
             PROVE  /\ kind # "fake" => wire \in {"complete", "aborted"}
                    /\ outputs[n].message =
                         IF Messages = {} THEN Undefined ELSE Cardinality(Messages)
                    /\ outputs[n].headers = seen.last
  BY Zenon DEF OutputIsTheResponse
<1>1. /\ Clean!OkEnd
      /\ outputs[n].headers = unaryHeaders /\ outputs[n].message = Last1(heard["message"][1])
  BY OkOutput
<1>2. outputs[n].headers = seen.last
  BY <1>1 DEF HeadersGiven, Given
<1>3. Clean!OkDone
  BY DEF CleanInv, Clean!CompleteInv
<1>4. /\ started /\ StatusHanded = OK
      /\ \A i \in 1..callbacks["message"] : Clean!Heard(i) = Clean!FirstMessages(MessagesHanded)
  BY <1>1, <1>3, Zenon DEF Clean!OkDone, OK, Clean!OK
<1>5. heard["message"][1] = Clean!FirstMessages(MessagesHanded)
  <2>1. callbacks["message"] = 1
    BY <1>4 DEF TransportInv, Attached, Kinds
  <2> QED BY <1>4, <2>1 DEF Clean!Heard
<1>6. /\ kind # "fake" => wire \in {"complete", "aborted"}
      /\ MessagesHanded \in Nat /\ Messages = 1..MessagesHanded
  BY <1>4, OkIsComplete
<1>7. outputs[n].message = IF MessagesHanded = 0 THEN Undefined ELSE MessagesHanded
  BY <1>1, <1>5, <1>6, LastOfFirst
<1>8. (Messages = {} <=> MessagesHanded = 0) /\ Cardinality(Messages) = MessagesHanded
  <2>1. PICK m \in Nat : m = MessagesHanded
    BY <1>6
  <2>2. Cardinality(1..m) = IF 1 > m THEN 0 ELSE m - 1 + 1
    BY FS_Interval
  <2>3. 1..m = {} <=> m = 0
    OBVIOUS
  <2> QED BY <1>6, <2>1, <2>2, <2>3
<1> QED BY <1>2, <1>6, <1>7, <1>8

\* What unary reports with OK is the response, if its messages deserialize: over
\* each HTTP transport the response was complete, and with any transport
\* props.onEnd is given the last message that came and the headers handed over last.
THEOREM OutputIsTheResponseHolds == Spec => []OutputIsTheResponse
<1>1. /\ Call!CallInv /\ CleanInv /\ UnaryInv /\ TransportInv /\ AnswerInv /\ HeadersInv
      /\ HeadersGiven
      => OutputIsTheResponse
  BY OkIsTheResponse
<1> QED BY <1>1, CallShaped, CleanHolds, UnaryInvHolds, TransportsInOrder, AnswersHold,
           HeadersGivenHolds, PTL
-----------------------------------------------------------------------------
(* What unary reports over the fake transport *)

\* What a frame reports is what the script says.
ByScript(f) ==
  /\ f.do = "fail" => f.code = ScriptedCode /\ ~MessagesSent
  /\ f.do = "end" => f.val = ScriptedCode

\* An error of onTransportHeaders is about to be reported.
FailPending == \E p \in 1..Len(stack) : stack[p].do = "fail"

\* An error that the headers carry completes the call with them, before any
\* message; without one the call completes after the messages.
Told ==
  /\ \A p \in 1..Len(stack) : ByScript(stack[p])
  /\ \A n \in 1..Len(heard["end"][1]) : heard["end"][1][n] = ScriptedCode
  /\ ~MessagesSent =>
       /\ heard["message"][1] = <<>>
       /\ ~closed /\ seen.headers = ScriptHeaders => completed \/ FailPending
  /\ MessagesSent /\ completed => heard["message"][1] = Clean!FirstMessages(script.messages)

ScriptTold == kind = "fake" => Told

\* The script does not change.
LEMMA ToldLater ==
  ASSUME script' = script,
         \A p \in 1..Len(stack') : ByScript(stack'[p]),
         \A n \in 1..Len(heard'["end"][1]) : heard'["end"][1][n] = ScriptedCode,
         ~MessagesSent => heard'["message"][1] = <<>>,
         ~MessagesSent /\ ~closed' /\ seen'.headers = ScriptHeaders => completed' \/ FailPending',
         MessagesSent /\ completed' => heard'["message"][1] = Clean!FirstMessages(script.messages)
  PROVE  Told'
<1>1. ScriptedCode' = ScriptedCode
  BY DEF ScriptedCode
<1>2. (MessagesSent' <=> MessagesSent) /\ ScriptHeaders' = ScriptHeaders
  BY SamePlan
<1>3. \A p \in 1..Len(stack') : ByScript(stack[p])'
  BY <1>1, <1>2 DEF ByScript
<1> QED BY <1>1, <1>2, <1>3 DEF Told

LEMMA FakeSteps ==
  ASSUME TransportInv, kind = "fake", [Next]_vars
  PROVE  /\ script' = script
         /\ \/ UNCHANGED <<stack, completed, heard, seen>> /\ (closed => closed')
            \/ FakeUpcall
            \/ Handler /\ UNCHANGED <<seen, received, passed>>
<1>1. CASE Application
  <2>1. UNCHANGED <<stack, completed, heard, seen, script>>
    BY <1>1 DEF Application, AttachCallback, Connect, SendMessage, SendFinish, Returns, Cancel,
          Register, Start, Send, FinishSend, Close, upcallVars, clientVars, fakeVars, HttpStart,
          HttpSend, HttpCancel, FakeFinishSend
  <2>2. closed' = closed \/ closed' = TRUE
    BY <1>1 DEF Application, AttachCallback, Connect, SendMessage, SendFinish, Returns, Cancel,
          Register, Start, Send, FinishSend, Close, clientVars, flags
  <2> QED BY <2>1, <2>2
<1>2. CASE Handler /\ UNCHANGED <<upcallVars, httpVars, fakeVars, returned>>
  BY <1>2 DEF upcallVars, fakeVars
<1>3. UNCHANGED clientVars => UNCHANGED <<stack, completed, heard>> /\ (closed => closed')
  BY DEF clientVars, flags
<1>4. CASE returned /\ TransportEvent /\ UNCHANGED <<fakeVars, returned, unaryVars>>
  BY <1>4 DEF TransportEvent, OnStateChange, OnProgressEvent, OnErrorEvent, OnLoadEvent,
     OnLoadEventArrayBuffer, XhrEvent, DetachedRuns, NodeResponse, NodeData, NodeEnd, NodeError,
     Resumes, FetchResponse, Pump, ReadValue, ReadDone, Catch
<1>5. CASE kind = "fake" /\ FakeUpcall /\ UNCHANGED <<httpVars, returned, unaryVars>>
  BY <1>5 DEF FakeUpcall, fakeVars
<1>6. CASE Test
  BY <1>3, <1>6 DEF Test, Trigger
<1>7. CASE Network /\ UNCHANGED <<fakeVars, returned, unaryVars>>
  BY <1>3, <1>7 DEF Network, ResponseStarts, BodyArrives, ConnectionBreaks, upcallVars, fakeVars
<1>8. CASE UNCHANGED vars
  <2>1. UNCHANGED <<clientVars, seen, script>>
    BY <1>8 DEF vars, upcallVars, fakeVars
  <2> QED BY <1>3, <2>1
<1> QED BY <1>1, <1>2, <1>4, <1>5, <1>6, <1>7, <1>8 DEF Next, JavaScript

\* Nothing happens to the call object, or it ignores the upcall.
LEMMA ToldStill ==
  ASSUME Told, script' = script, UNCHANGED <<stack, completed, heard>>, closed => closed',
         closed \/ seen'.headers = seen.headers
  PROVE  Told'
<1>1. FailPending' <=> FailPending
  BY DEF FailPending
<1>2. ~MessagesSent /\ ~closed' /\ seen'.headers = ScriptHeaders => completed' \/ FailPending'
  BY <1>1 DEF Told
<1>3. /\ \A p \in 1..Len(stack') : ByScript(stack'[p])
      /\ \A n \in 1..Len(heard'["end"][1]) : heard'["end"][1][n] = ScriptedCode
  BY DEF Told
<1> QED BY <1>2, <1>3, ToldLater DEF Told

-----------------------------------------------------------------------------
(* The upcalls of a script *)

\* The headers carry the first error of the script, or none.
LEMMA ScriptHeaderCode ==
  ASSUME script \in Scripts, NEW i \in 1..ScriptHeaders, NEW c, c = ScriptUpcall(i)
  PROVE  LET code == HeaderCode(c.status, c.http)
         IN  \/ code = OK /\ (MessagesSent \/ i # ScriptHeaders)
             \/ code # OK /\ code = ScriptedCode /\ code \in Int /\ ~MessagesSent
<1>1. /\ script.preHeadersErrorCode \in (Nat \ {0, 200}) \cup {Null}
      /\ script.preMessagesError \in (Nat \ {OK}) \cup {Null}
      /\ Null \notin Nat
  BY UnaryAssumption DEF IsScript
<1>2. CASE i = 1 /\ HeadersSent
  <2>1. c.status = NoStatus /\ c.http = 200
    BY <1>2 DEF ScriptUpcall, HeadersCall
  <2>2. HeaderCode(c.status, c.http) = OK
    BY <2>1, ClientAssumption DEF HeaderCode, HttpStatusToCode, OK
  <2>3. MessagesSent \/ i # ScriptHeaders
    BY <1>2 DEF ScriptHeaders
  <2> QED BY <2>2, <2>3
<1>3. CASE i = 1 /\ ~HeadersSent
  <2>1. c.status = NoStatus /\ c.http = script.preHeadersErrorCode
    BY <1>3 DEF ScriptUpcall, HeadersCall
  <2>2. script.preHeadersErrorCode \in Nat \ {0, 200} /\ script.preHeadersErrorCode # Null
    BY <1>1, <1>3 DEF HeadersSent
  <2>3. HeaderCode(c.status, c.http) = HttpStatusToCode(script.preHeadersErrorCode)
    BY <2>1, ClientAssumption DEF HeaderCode
  <2>4. ScriptedCode = HttpStatusToCode(script.preHeadersErrorCode)
    BY <2>2 DEF ScriptedCode
  <2>5. HttpStatusToCode(script.preHeadersErrorCode) \in Nat \ {0}
    BY <2>2 DEF HttpStatusToCode
  <2> QED BY <1>3, <2>3, <2>4, <2>5 DEF OK, MessagesSent
<1>4. CASE i # 1
  <2>1. i = 2 /\ ScriptHeaders = 2 /\ HeadersSent /\ ~MessagesSent
    BY <1>4, PlanNumbers
  <2>2. c.status = script.preMessagesError
    BY <2>1 DEF ScriptUpcall, HeadersCall
  <2>3. script.preMessagesError \in Nat \ {0} /\ script.preMessagesError # Null
    BY <1>1, <2>1 DEF MessagesSent, OK
  <2>4. HeaderCode(c.status, c.http) = script.preMessagesError
    BY <2>2, <2>3 DEF HeaderCode
  <2>5. ScriptedCode = script.preMessagesError
    BY <2>1, <2>3 DEF ScriptedCode, HeadersSent
  <2> QED BY <2>1, <2>3, <2>4, <2>5 DEF OK
<1> QED BY <1>2, <1>3, <1>4

LEMMA ScriptHttp ==
  ASSUME script \in Scripts, NEW i \in 1..ScriptHeaders, NEW c, c = ScriptUpcall(i)
  PROVE  c.status \in Status /\ c.http # 0
<1>1. /\ script.preHeadersErrorCode \in (Nat \ {0, 200}) \cup {Null}
      /\ script.preMessagesError \in (Nat \ {OK}) \cup {Null}
  BY UnaryAssumption DEF IsScript
<1>2. \/ c.status = NoStatus /\ c.http = 200
      \/ ~HeadersSent /\ c.status = NoStatus /\ c.http = script.preHeadersErrorCode
      \/ ~MessagesSent /\ HeadersSent /\ c.status = script.preMessagesError /\ c.http = 200
  <2>1. ScriptHeaders = 2 => HeadersSent /\ ~MessagesSent
    BY PlanNumbers
  <2>2. ScriptHeaders \in {1, 2}
    BY PlanNumbers
  <2>3. CASE i = 1
    BY <2>3 DEF ScriptUpcall, HeadersCall
  <2>4. CASE i # 1
    BY <2>1, <2>2, <2>4 DEF ScriptUpcall, HeadersCall
  <2> QED BY <2>3, <2>4
<1> QED BY <1>1, <1>2 DEF Status, HeadersSent, MessagesSent

-----------------------------------------------------------------------------
(* The upcalls of a script, made *)

LEMMA OneAndTwo ==
  ASSUME NEW S, NEW f \in S, NEW g \in S, NEW r, r = Append(<<>>, f), NEW t, t = Append(r, g)
  PROVE  Len(t) = 2 /\ t[1] = f /\ t[2] = g
<1>1. r \in Seq(S) /\ Len(r) = 1 /\ r[1] = f
  <2>1. <<>> \in Seq(S)
    OBVIOUS
  <2> QED BY <2>1
<1>2. PICK u \in Seq(S) : u = r
  BY <1>1
<1>3. PICK v : v = Append(u, g)
  OBVIOUS
<1>4. Len(v) = Len(u) + 1 /\ (\A p \in 1..Len(u) : v[p] = u[p]) /\ v[Len(u) + 1] = g
  BY <1>3, QueuePush
<1>5. Len(u) = 1 /\ u[1] = f /\ t = v
  BY <1>1, <1>2, <1>3
<1> QED BY <1>4, <1>5

LEMMA ToldHeaders ==
  ASSUME TransportInv, ClientTypeOK, kind = "fake", Told, FakeUpcall, upcalls[1].do = "headers",
         UpHeaders(upcalls[1].status, upcalls[1].http)
  PROVE  Told'
<1> DEFINE c == upcalls[1]
           code == HeaderCode(c.status, c.http)
           fail == [do |-> "fail", code |-> code]
           loop == Loop("headers", c.status)
<1>1. /\ RunUpcall /\ script' = script /\ stack = <<>> /\ started
      /\ seen.headers < ScriptHeaders /\ seen.chunks = 0 /\ ~seen.ended
      /\ OnTransportHeaders(c.status, c.http)
  BY NextOfScript, UnaryAssumption
     DEF FakeUpcall, fakeVars, RunUpcall, UpHeaders, OnTransportHeaders, TransportRuns
<1>2. /\ seen.headers \in Nat /\ script \in Scripts /\ Scripted /\ UpTypes
      /\ seen'.headers = seen.headers + 1 /\ UNCHANGED flags
  BY UpHeadersEffect DEF TransportInv, UpTypes
<1>3. ScriptHeaders \in {1, 2}
  BY <1>2, PlanNumbers
<1> DEFINE i == seen.headers + 1
<1>4. i \in 1..ScriptHeaders /\ c = ScriptUpcall(i)
  <2>1. Made + 1 = i
    BY <1>1, <1>2 DEF Made
  <2>2. c = ScriptUpcall(Made + 1)
    <3>1. 1 \in 1..Len(upcalls)
      BY <1>1, RunsHead
    <3> QED BY <1>2, <3>1 DEF Scripted
  <2> QED BY <1>1, <1>2, <1>3, <2>1, <2>2
<1>5. \/ code = OK /\ (MessagesSent \/ seen'.headers # ScriptHeaders)
      \/ code # OK /\ code = ScriptedCode /\ code \in Int /\ ~MessagesSent
  BY <1>2, <1>4, ScriptHeaderCode
<1> HIDE DEF code, i
<1>6. CASE closed
  BY <1>1, <1>6, ToldStill DEF OnTransportHeaders, clientVars, flags
<1>7. CASE ~closed
  <2> DEFINE rest == IF code = OK THEN stack ELSE Append(stack, fail)
  <2>1. /\ stack' = IF completed THEN rest ELSE Append(rest, loop)
        /\ completed' = completed /\ heard' = heard
    <3>1. c.http # 0
      BY <1>2, <1>4, ScriptHttp
    <3> QED BY <1>1, <1>7, <3>1 DEF OnTransportHeaders, RawOnHeaders, code
  <2>2. loop \in Frame /\ loop.do = "headers"
    <3>1. c.status \in Status /\ callbacks["headers"] \in Nat
      BY <1>2, <1>4, ScriptHttp DEF ClientTypeOK, TransportInv, Attached, Kinds
    <3> QED BY <3>1 DEF Loop, Frame, LoopFrame, Kinds
  <2>3. ByScript(loop)
    BY <2>2 DEF ByScript
  <2> HIDE DEF loop
  <2>4. CASE code = OK
    <3>1. \A p \in 1..Len(stack') : ByScript(stack'[p])
      <4>1. CASE completed
        BY <1>1, <2>1, <2>4, <4>1
      <4>2. CASE ~completed
        <5>1. <<>> \in Seq(Frame) /\ stack' = Append(<<>>, loop)
          BY <1>1, <2>1, <2>4, <4>2
        <5>2. Len(stack') = 1 /\ stack'[1] = loop
          BY <2>2, <5>1
        <5> QED BY <2>3, <5>2
      <4> QED BY <4>1, <4>2
    <3>2. ~MessagesSent /\ ~closed' /\ seen'.headers = ScriptHeaders => completed' \/ FailPending'
      BY <1>5, <2>4
    <3> QED BY <1>1, <2>1, <3>1, <3>2, ToldLater DEF Told
  <2>5. CASE code # OK
    <3>1. fail \in Frame /\ fail.do = "fail" /\ ByScript(fail)
      BY <1>5, <2>5 DEF Frame, FailFrame, ByScript
    <3> HIDE DEF fail
    <3>2. PICK r : r = Append(<<>>, fail)
      OBVIOUS
    <3>3. r \in Seq(Frame) /\ Len(r) = 1 /\ r[1] = fail
      <4>1. <<>> \in Seq(Frame)
        OBVIOUS
      <4> QED BY <3>1, <3>2, <4>1
    <3>4. rest = r
      BY <1>1, <2>5, <3>2
    <3> HIDE DEF rest
    <3>5. /\ \A p \in 1..Len(stack') : ByScript(stack'[p])
          /\ 1 \in 1..Len(stack') /\ stack'[1] = fail
      <4>1. CASE completed
        <5>1. Len(stack') = 1 /\ stack'[1] = fail
          <6>1. stack' = r
            BY <2>1, <3>4, <4>1
          <6> QED BY <3>3, <6>1
        <5> QED BY <3>1, <5>1
      <4>2. CASE ~completed
        <5>1. stack' = Append(r, loop)
          BY <2>1, <3>4, <4>2
        <5>2. Len(stack') = 2 /\ stack'[1] = fail /\ stack'[2] = loop
          BY <2>2, <3>1, <3>2, <5>1, OneAndTwo
        <5> QED BY <2>3, <3>1, <5>2
      <4> QED BY <4>1, <4>2
    <3>6. FailPending'
      BY <3>1, <3>5 DEF FailPending
    <3> QED BY <1>1, <2>1, <3>5, <3>6, ToldLater DEF Told
  <2> QED BY <2>4, <2>5
<1> QED BY <1>6, <1>7

LEMMA ToldChunk ==
  ASSUME TransportInv, ClientTypeOK, Told, FakeUpcall, NEW n \in passed..Len(received),
         UpChunk(n)
  PROVE  Told'
<1> DEFINE data == SubSeq(received, passed + 1, n)
           f == [do |-> "chunk", data |-> data]
<1>1. /\ script' = script /\ stack = <<>> /\ seen'.headers = seen.headers /\ OnTransportChunk(data)
  BY UpChunkEffect DEF TransportInv, UpChunk, FakeUpcall, fakeVars, RunUpcall
<1>2. data \in Seq(Item)
  <2>1. passed \in Nat /\ n \in passed..Len(received) /\ received \in Seq(Item) /\ Len(received) \in Nat
    BY LenProperties DEF TransportInv, UpTypes, IsBody
  <2>2. \A i \in passed + 1 .. n : received[i] \in Item
    BY <2>1, ElementOfSeq
  <2> QED BY <2>1, <2>2, SubSeqProperties
<1> HIDE DEF data
<1>3. CASE closed
  BY <1>1, <1>3, ToldStill DEF OnTransportChunk, clientVars, flags
<1>4. CASE ~closed
  <2>1. UNCHANGED <<flags, completed, heard>> /\ stack' = Append(stack, f)
    BY <1>1, <1>4 DEF OnTransportChunk
  <2>2. f \in Frame /\ ByScript(f)
    BY <1>2 DEF Frame, ChunkFrame, ByScript
  <2> HIDE DEF f
  <2>3. Len(stack') = 1 /\ stack'[1] = f
    <3>1. <<>> \in Seq(Frame) /\ stack' = Append(<<>>, f)
      BY <1>1, <2>1
    <3> QED BY <2>2, <3>1
  <2>4. \A p \in 1..Len(stack') : ByScript(stack'[p])
    BY <2>2, <2>3
  <2>5. ~FailPending
    <3>1. Len(stack) = 0
      BY <1>1
    <3> QED BY <3>1 DEF FailPending
  <2>6. ~MessagesSent /\ ~closed' /\ seen'.headers = ScriptHeaders => completed' \/ FailPending'
    BY <1>1, <2>1, <2>5 DEF Told, flags
  <2> QED BY <1>1, <2>1, <2>4, <2>6, ToldLater DEF Told
<1> QED BY <1>3, <1>4

\* When the end of the script is called the code that completes the call is in
\* the trailers, and unary has heard all the messages.
LEMMA ScriptEnds ==
  ASSUME Clean!CompleteInv, TransportInv, kind = "fake", started, ~closed, ~completed,
         stack = <<>>, MessagesSent, seen.chunks = ScriptChunks
  PROVE  /\ EndCode = ScriptedCode /\ ScriptedCode \in Int
         /\ heard["message"][1] = Clean!FirstMessages(script.messages)
<1>1. /\ script \in Scripts /\ received = ScriptedBody /\ passed = script.messages + 1
      /\ script.messages \in Nat
  <2>1. script \in Scripts /\ Scripted
    BY DEF TransportInv, UpTypes
  <2> QED BY <2>1, PlanNumbers DEF Scripted
<1>2. HandedTrailers /\ MessagesHanded = script.messages /\ StatusHanded = ScriptedCode
  <2>1. /\ received[passed].type = "trailers"
        /\ received[passed].val = IF script.preTrailersError # Null THEN script.preTrailersError ELSE OK
    BY <1>1, ScriptIsBody
  <2>2. HandedTrailers
    BY <1>1, <2>1 DEF HandedTrailers
  <2>3. ScriptedCode = IF script.preTrailersError # Null THEN script.preTrailersError ELSE OK
    BY DEF ScriptedCode, MessagesSent, HeadersSent
  <2> QED BY <1>1, <2>1, <2>2, <2>3 DEF MessagesHanded, StatusHanded
<1>3. ScriptedCode \in Int /\ ScriptedCode \notin {Undefined, NoStatus}
  <2>1. script.preTrailersError \in (Nat \ {OK}) \cup {Null}
    BY <1>1, UnaryAssumption DEF IsScript
  <2>2. ScriptedCode \in Int
    BY <2>1 DEF ScriptedCode, MessagesSent, HeadersSent, OK
  <2> QED BY <2>2, ClientAssumption
<1>4. Clean!LeftOf(stack) = <<>> /\ Clean!Taken = MessagesHanded /\ ~Clean!MessageLoop
  <2>1. Clean!ClientTypeOK /\ MessagesHanded \in Nat
    BY <1>1, <1>2, CleanTypes
  <2> QED BY <2>1, CleanConstants, ClientAssumption, Clean!AllTaken
       DEF Status, Clean!Status, Kinds, Clean!Kinds
<1>5. EndCode = ScriptedCode
  <2>1. ScriptedCode = IF responseTrailers # Undefined THEN responseTrailers ELSE responseHeaders
    BY <1>2, <1>4 DEF Clean!CompleteInv, Clean!StatusKnown, Clean!Said, Clean!EndsInTrailers
  <2>2. CASE responseTrailers # Undefined
    <3>1. responseTrailers = ScriptedCode /\ responseTrailers \notin {Undefined, NoStatus}
      BY <1>3, <2>1, <2>2
    <3> QED BY <3>1 DEF EndCode
  <2>3. CASE responseTrailers = Undefined
    <3>1. responseHeaders = ScriptedCode /\ responseHeaders \notin {Undefined, NoStatus}
      BY <1>3, <2>1, <2>3
    <3> QED BY <2>3, <3>1, ClientAssumption DEF EndCode
  <2> QED BY <2>2, <2>3
<1>6. heard["message"][1] = Clean!FirstMessages(script.messages)
  <2>1. callbacks["message"] = 1 /\ 1 \in 1..callbacks["message"]
    BY DEF TransportInv, Attached, Kinds
  <2>2. Clean!Heard(1) = Clean!FirstMessages(Clean!Upto(1))
    BY <2>1 DEF Clean!CompleteInv, Clean!MessagesInv, Clean!UpToDate
  <2>3. Clean!Upto(1) = script.messages
    BY <1>2, <1>4 DEF Clean!Upto
  <2> QED BY <2>2, <2>3 DEF Clean!Heard
<1> QED BY <1>3, <1>5, <1>6

LEMMA ToldEnd ==
  ASSUME Clean!CompleteInv, TransportInv, ClientTypeOK, kind = "fake", Told, FakeUpcall,
         upcalls[1].do = "end", UpEnd
  PROVE  Told'
<1>1. /\ RunUpcall /\ script' = script /\ stack = <<>> /\ OnTransportEnd
      /\ seen.headers = ScriptHeaders /\ seen.chunks = ScriptChunks /\ seen'.headers = seen.headers
  BY NextOfScript, UpEndEffect DEF FakeUpcall, fakeVars, RunUpcall, UpEnd, TransportInv
<1>2. CASE closed
  BY <1>1, <1>2, ToldStill DEF OnTransportEnd, clientVars, flags
<1>3. CASE ~closed /\ completed
  <2>1. UNCHANGED <<stack, heard>> /\ completed' = TRUE /\ closed' = closed
    BY <1>1, <1>3 DEF OnTransportEnd, Complete, flags
  <2>2. completed' = completed
    BY <1>3, <2>1 DEF ClientTypeOK
  <2> QED BY <1>1, <2>1, <2>2, ToldStill
<1>4. CASE ~closed /\ ~completed
  <2> DEFINE f == Loop("end", EndCode)
  <2>1. /\ heard' = heard /\ completed' = TRUE /\ closed' = closed /\ started
        /\ stack' = Append(<<>>, f)
    BY <1>1, <1>4 DEF OnTransportEnd, TransportRuns, Complete, flags
  <2>2. MessagesSent
    <3>1. Len(stack) = 0
      BY <1>1
    <3> QED BY <1>1, <1>4, <3>1 DEF Told, FailPending
  <2>3. /\ EndCode = ScriptedCode /\ ScriptedCode \in Int
        /\ heard["message"][1] = Clean!FirstMessages(script.messages)
    BY <1>1, <1>4, <2>1, <2>2, ScriptEnds
  <2>4. f \in Frame /\ ByScript(f)
    <3>1. callbacks["end"] \in Nat
      BY DEF TransportInv, Attached, Kinds
    <3> QED BY <2>3, <3>1 DEF Loop, Frame, LoopFrame, Kinds, Status, ByScript
  <2> HIDE DEF f
  <2>5. Len(stack') = 1 /\ stack'[1] = f
    <3>1. <<>> \in Seq(Frame)
      OBVIOUS
    <3> QED BY <2>1, <2>4, <3>1
  <2>6. \A p \in 1..Len(stack') : ByScript(stack'[p])
    BY <2>4, <2>5
  <2> QED BY <1>1, <2>1, <2>2, <2>3, <2>6, ToldLater DEF Told
<1> QED BY <1>2, <1>3, <1>4

LEMMA ToldUpcall ==
  ASSUME Clean!CompleteInv, TransportInv, ClientTypeOK, kind = "fake", Told, FakeUpcall
  PROVE  Told'
<1>1. upcalls[1] \in Upcall /\ Make(upcalls[1])
  BY RunsHead DEF FakeUpcall
<1>2. upcalls[1].do = "chunk" => upcalls[1].upto \in passed..Len(received)
  <2>1. upcalls[1].do = "chunk" => seen.chunks < ScriptChunks /\ upcalls[1].upto = seen.chunks + 1
    BY NextOfScript DEF FakeUpcall
  <2>2. script \in Scripts /\ passed = seen.chunks /\ seen.chunks \in Nat /\ received = ScriptedBody
    BY DEF TransportInv, UpTypes, Scripted
  <2>3. ScriptChunks \in Nat /\ (ScriptChunks > 0 => ScriptChunks = Len(received))
    BY <2>2, PlanNumbers, ScriptIsBody
  <2> QED BY <2>1, <2>2, <2>3
<1> QED BY <1>1, <1>2, MakeOne, ToldHeaders, ToldChunk, ToldEnd

-----------------------------------------------------------------------------
(* The steps of the handlers *)

\* A message callback is called with a message that was handed over.
LEMMA NothingToHear ==
  ASSUME Call!CallInv, InvokeCallback, MessagesHanded = 0
  PROVE  Top.do # "message"
<1> SUFFICES ASSUME Top.do = "message" PROVE FALSE
  OBVIOUS
<1>1. Call!MessageLoop
  <2>1. Call!Top.do = "message" => Call!MessageLoop
    BY SameInvoke, TransportConstants, ClientAssumption, Call!RunningLoop
       DEF Status, Call!Status, Kinds, Call!Kinds
  <2>2. Call!Top = Top
    BY Zenon DEF Top, Call!Top, Last, Call!Last
  <2> QED BY <2>1, <2>2
<1>2. Call!Taken \in Nat /\ Call!Taken > 0
  BY <1>1 DEF Call!CallInv, Call!SeqInv, Call!InOrder
<1>3. ClientTypeOK
  BY SameType DEF Call!CallInv, Call!TypeOK
<1>4. Call!LeftOf(stack) \in Seq(Item)
  <2>1. /\ Len(stack) = 2 /\ stack[2].do = "message" /\ stack[1].do \in {"chunk", "fail"}
        /\ stack[1].do # "fail"
    BY <1>1 DEF Call!MessageLoop, Call!CallInv, Call!SeqInv, Call!Shape
  <2>2. stack[1] \in Frame
    <3>1. stack \in Seq(Frame) /\ 1 \in 1..Len(stack)
      BY <1>3, <2>1 DEF ClientTypeOK
    <3> QED BY <3>1, ElementOfSeq
  <2>3. stack[1].data \in Seq(Item)
    BY <2>1, <2>2 DEF Frame, LoopFrame, ChunkFrame, FailFrame, Kinds
  <2> QED BY <2>1, <2>3 DEF Call!LeftOf
<1>5. PICK d \in Seq(Item) : d = Call!LeftOf(stack)
  BY <1>4
<1>6. Call!MessagesIn(d) \in Nat
  <2>1. Len(d) \in Nat /\ (d # <<>> => Len(d) # 0)
    BY EmptySeq, LenProperties
  <2> QED BY <2>1 DEF Call!MessagesIn
<1> QED BY <1>2, <1>5, <1>6 DEF Call!Taken

\* A loop goes on with the same code.
LEMMA ToldLoop ==
  ASSUME Call!CallInv, Told, InvokeCallback \/ CallbackReturns
  PROVE  /\ \A p \in 1..Len(stack') : ByScript(stack'[p])
         /\ FailPending => FailPending'
         /\ UNCHANGED <<closed, completed>>
<1>1. /\ stack # <<>> /\ Call!Top = stack[Len(stack)] /\ Call!Top.do \in Kinds
      /\ Len(stack) \in Nat \ {0} /\ Len(stack') = Len(stack)
      /\ stack'[Len(stack)].do = Call!Top.do /\ stack'[Len(stack)].val = Call!Top.val
      /\ \A p \in 1..(Len(stack) - 1) : stack'[p] = stack[p]
  <2>1. Call!InvokeCallback \/ Call!CallbackReturns
    BY SameInvoke, SameReturns
  <2> QED BY <2>1, TransportConstants, ClientAssumption, Call!LoopGoesOn
             DEF Status, Call!Status, Kinds, Call!Kinds
<1>2. UNCHANGED <<closed, completed>>
  BY DEF InvokeCallback, CallbackReturns, flags
<1>3. PICK l \in Nat \ {0} : l = Len(stack)
  BY <1>1
<1>4. \A p \in 1..l : p = l \/ p \in 1..(l - 1)
  BY <1>3
<1>5. ASSUME NEW p \in 1..l
      PROVE  /\ stack'[p].do = stack[p].do
             /\ stack[p].do \in Kinds => stack'[p].val = stack[p].val
             /\ stack[p].do \notin Kinds => stack'[p] = stack[p]
  BY <1>1, <1>3, <1>4
<1>6. ASSUME NEW p \in 1..Len(stack') PROVE ByScript(stack'[p])
  <2>1. p \in 1..l /\ ByScript(stack[p])
    BY <1>1, <1>3 DEF Told
  <2>2. CASE stack[p].do \in Kinds
    <3>1. stack[p].do # "fail"
      BY <2>2 DEF Kinds
    <3> QED BY <1>5, <2>1, <2>2, <3>1 DEF ByScript
  <2>3. CASE stack[p].do \notin Kinds
    BY <1>5, <2>1, <2>3
  <2> QED BY <2>2, <2>3
<1>7. FailPending => FailPending'
  BY <1>1, <1>3, <1>5 DEF FailPending
<1> QED BY <1>2, <1>6, <1>7

LEMMA ToldInvoke ==
  ASSUME Call!CallInv, TransportInv, kind = "fake", Told, script' = script,
         InvokeCallback, UNCHANGED seen
  PROVE  Told'
<1>1. /\ \A p \in 1..Len(stack') : ByScript(stack'[p])
      /\ FailPending => FailPending'
      /\ UNCHANGED <<closed, completed>>
  BY ToldLoop
<1>2. /\ Top.do \in Kinds /\ Top.val \in Status
      /\ stack # <<>> /\ Top = stack[Len(stack)] /\ Len(stack) \in Nat \ {0}
      /\ heard'[Top.do][1] = Append(heard[Top.do][1], Top.val)
      /\ \A k \in Kinds \ {Top.do} : heard'[k] = heard[k]
      /\ Top.do \in {"headers", "message"} => ~completed
  BY Hears
<1>3. \A n \in 1..Len(heard'["end"][1]) : heard'["end"][1][n] = ScriptedCode
  <2>1. CASE Top.do # "end"
    <3>1. heard'["end"] = heard["end"]
      BY <1>2, <2>1 DEF Kinds
    <3> QED BY <3>1 DEF Told
  <2>2. CASE Top.do = "end"
    <3>1. PICK s \in Seq(Status) : s = heard["end"][1]
      BY OneCallback DEF Kinds
    <3>2. PICK v \in Status : v = Top.val
      BY <1>2
    <3>3. v = ScriptedCode
      <4>1. Len(stack) \in 1..Len(stack)
        BY <1>2
      <4> QED BY <1>2, <2>2, <3>2, <4>1 DEF Told, ByScript
    <3>4. \A n \in 1..Len(s) : s[n] = ScriptedCode
      BY <3>1 DEF Told
    <3>5. PICK t : t = Append(s, v)
      OBVIOUS
    <3>6. Len(t) = Len(s) + 1 /\ (\A p \in 1..Len(s) : t[p] = s[p]) /\ t[Len(s) + 1] = v
          /\ Len(s) \in Nat
      BY <3>5, QueuePush, LenProperties
    <3>7. \A n \in 1..Len(t) : n \in 1..Len(s) \/ n = Len(s) + 1
      BY <3>6
    <3>8. \A n \in 1..Len(t) : t[n] = ScriptedCode
      BY <3>3, <3>4, <3>6, <3>7
    <3> QED BY <1>2, <2>2, <3>1, <3>2, <3>5, <3>8
  <2> QED BY <2>1, <2>2
<1>4. ~MessagesSent => Top.do # "message"
  <2> SUFFICES ASSUME ~MessagesSent PROVE Top.do # "message"
    OBVIOUS
  <2>1. ScriptChunks = 0 /\ seen.chunks \in Nat /\ seen.chunks <= ScriptChunks /\ passed = seen.chunks
    BY PlanNumbers DEF TransportInv, UpTypes, Scripted
  <2>2. passed = 0
    BY <2>1
  <2>3. MessagesHanded = 0
    BY <2>2 DEF MessagesHanded, HandedTrailers
  <2> QED BY <2>3, NothingToHear
<1>5. Top.do # "message" => heard'["message"] = heard["message"]
  BY <1>2 DEF Kinds
<1>6. ~MessagesSent => heard'["message"][1] = <<>>
  BY <1>4, <1>5 DEF Told
<1>7. MessagesSent /\ completed' => heard'["message"][1] = Clean!FirstMessages(script.messages)
  BY <1>1, <1>2, <1>5 DEF Told
<1>8. ~MessagesSent /\ ~closed' /\ seen'.headers = ScriptHeaders => completed' \/ FailPending'
  BY <1>1 DEF Told
<1> QED BY <1>1, <1>3, <1>6, <1>7, <1>8, ToldLater

LEMMA ToldHandler ==
  ASSUME Call!CallInv, TransportInv, kind = "fake", Told, script' = script,
         Handler, UNCHANGED seen
  PROVE  Told'
<1>1. ClientTypeOK /\ Call!ClientTypeOK /\ Call!SeqInv /\ Call!Top = Top
  <2>1. Call!ClientTypeOK /\ Call!SeqInv
    BY DEF Call!CallInv, Call!TypeOK
  <2>2. Call!Top = Top
    BY Zenon DEF Top, Call!Top, Last, Call!Last
  <2> QED BY <2>1, <2>2, SameType
<1>2. CASE InvokeCallback
  BY <1>2, ToldInvoke
<1>3. CASE CallbackReturns
  <2>1. /\ \A p \in 1..Len(stack') : ByScript(stack'[p])
        /\ FailPending => FailPending'
        /\ UNCHANGED <<closed, completed>>
    BY <1>3, ToldLoop
  <2>2. heard' = heard
    BY <1>3 DEF CallbackReturns
  <2>3. ~MessagesSent /\ ~closed' /\ seen'.headers = ScriptHeaders => completed' \/ FailPending'
    BY <2>1 DEF Told
  <2> QED BY <2>1, <2>2, <2>3, ToldLater DEF Told
<1>4. CASE ProcessItem
  <2>1. /\ Len(stack) = 1 /\ UNCHANGED <<flags, completed, heard>>
        /\ \A p \in 1..Len(stack') : stack'[p].do \in {"chunk", "headers", "message"}
    <3>1. /\ Len(stack) = 1 /\ UNCHANGED <<Call!flags, completed, callbacks, heard>>
          /\ \A p \in 1..Len(stack') : stack'[p].do \in {"chunk", "headers", "message"}
      BY <1>1, <1>4, SameProcessItem, TransportConstants, ClientAssumption, Call!ItemView
         DEF Status, Call!Status, Kinds, Call!Kinds
    <3>2. UNCHANGED <<flags, completed, heard>>
      BY <1>4 DEF ProcessItem
    <3> QED BY <3>1, <3>2
  <2>2. ~FailPending
    <3>1. stack # <<>> /\ Top = stack[1] /\ Top.do = "chunk"
      BY <1>1, <1>4, <2>1, OfStack DEF ProcessItem, ClientRuns
    <3>2. \A p \in 1..Len(stack) : p = 1
      BY <2>1
    <3> QED BY <3>1, <3>2 DEF FailPending
  <2>3. \A p \in 1..Len(stack') : ByScript(stack'[p])
    BY <2>1 DEF ByScript
  <2>4. ~MessagesSent /\ ~closed' /\ seen'.headers = ScriptHeaders => completed' \/ FailPending'
    BY <2>1, <2>2 DEF Told, flags
  <2> QED BY <2>1, <2>3, <2>4, ToldLater DEF Told
<1>5. CASE LoopEnds
  <2>1. /\ stack # <<>> /\ Top.do \in Kinds /\ stack' = Front(stack)
        /\ UNCHANGED <<closed, completed, heard>>
    BY <1>5 DEF LoopEnds, ClientRuns, Pop, flags
  <2>2. /\ Len(stack') = Len(stack) - 1 /\ Len(stack) \in Nat \ {0} /\ Top = stack[Len(stack)]
        /\ \A p \in 1..(Len(stack) - 1) : stack'[p] = stack[p]
    BY <1>1, <2>1, OfStack
  <2>3. PICK l \in Nat \ {0} : l = Len(stack)
    BY <2>2
  <2>4. \A p \in 1..l : p = l \/ p \in 1..(l - 1)
    BY <2>3
  <2>5. \A p \in 1..(l - 1) : p \in 1..l
    BY <2>3
  <2>6. \A p \in 1..Len(stack') : ByScript(stack'[p])
    BY <2>2, <2>3, <2>5 DEF Told
  <2>7. FailPending => FailPending'
    <3>1. stack[l].do # "fail"
      BY <2>1, <2>2, <2>3 DEF Kinds
    <3> QED BY <2>2, <2>3, <2>4, <3>1 DEF FailPending
  <2>8. ~MessagesSent /\ ~closed' /\ seen'.headers = ScriptHeaders => completed' \/ FailPending'
    BY <2>1, <2>7 DEF Told
  <2> QED BY <2>1, <2>6, <2>8, ToldLater DEF Told
<1>6. CASE FailAfterHeaders
  <2> DEFINE f == Loop("end", Top.code)
  <2>1. /\ stack # <<>> /\ Top.do = "fail" /\ completed' = TRUE /\ heard' = heard
        /\ stack' = IF completed THEN Front(stack) ELSE Append(Front(stack), f)
    BY <1>6 DEF FailAfterHeaders, ClientRuns, Complete
  <2>2. Front(stack) = <<>> /\ Top = stack[1] /\ Len(stack) = 1 /\ Top \in FailFrame
    <3>1. Len(stack) = 1
      <4>1. 0 \in Nat
        OBVIOUS
      <4> QED BY <1>1, <1>6, <2>1, OfStack DEF Call!SeqInv, Call!Shape
    <3> QED BY <1>1, <2>1, <3>1, OfStack, EmptySeq DEF Frame, LoopFrame, ChunkFrame, FailFrame, Kinds
  <2>3. Top.code = ScriptedCode /\ ~MessagesSent
    BY <2>1, <2>2 DEF Told, ByScript
  <2>4. f \in Frame /\ ByScript(f)
    <3>1. callbacks["end"] \in Nat
      BY DEF TransportInv, Attached, Kinds
    <3> QED BY <2>2, <2>3, <3>1 DEF Loop, Frame, LoopFrame, FailFrame, Kinds, Status, ByScript
  <2> HIDE DEF f
  <2>5. \A p \in 1..Len(stack') : ByScript(stack'[p])
    <3>1. CASE completed
      BY <2>1, <2>2, <3>1
    <3>2. CASE ~completed
      <4>1. <<>> \in Seq(Frame) /\ stack' = Append(<<>>, f)
        BY <2>1, <2>2, <3>2
      <4>2. Len(stack') = 1 /\ stack'[1] = f
        BY <2>4, <4>1
      <4> QED BY <2>4, <4>2
    <3> QED BY <3>1, <3>2
  <2> QED BY <2>1, <2>3, <2>5, ToldLater DEF Told
<1> QED BY <1>2, <1>3, <1>4, <1>5, <1>6 DEF Handler, UnaryCallback

LEMMA KindStays == ASSUME [Next]_vars PROVE kind' = kind
<1>1. CASE Application
  BY <1>1 DEF Application, AttachCallback, Connect, SendMessage, SendFinish, Returns, Cancel,
        httpVars, HttpStart, HttpSend, HttpCancel
<1>2. CASE TransportEvent
  BY <1>2 DEF TransportEvent, OnStateChange, OnProgressEvent, OnErrorEvent, OnLoadEvent,
     OnLoadEventArrayBuffer, XhrEvent, DetachedRuns, NodeResponse, NodeData, NodeEnd, NodeError,
     FetchResponse, Pump, ReadValue, ReadDone, Catch, httpVars
<1>3. CASE Network
  BY <1>3 DEF Network, ResponseStarts, BodyArrives, ConnectionBreaks
<1>4. UNCHANGED vars => kind' = kind
  BY DEF vars, httpVars
<1> QED BY <1>1, <1>2, <1>3, <1>4 DEF Next, JavaScript, Test, httpVars

LEMMA ToldNext ==
  ASSUME Call!CallInv, CleanInv, TransportInv, ScriptTold, [Next]_vars
  PROVE  ScriptTold'
<1> SUFFICES ASSUME kind' = "fake" PROVE Told'
  BY DEF ScriptTold
<1>1. kind = "fake" /\ Told
  BY KindStays DEF ScriptTold
<1>2. Clean!CompleteInv
  <2>1. script \in Scripts /\ received = ScriptedBody
    BY <1>1 DEF TransportInv, UpTypes, Scripted
  <2>2. ~Bad(received)
    <3>1. /\ Len(received) = script.messages + 1 /\ script.messages \in Nat
          /\ \A i \in 1..script.messages : received[i] = [type |-> "message", val |-> i]
          /\ received[script.messages + 1].type = "trailers"
      BY <2>1, ScriptIsBody, PlanNumbers
    <3>2. PICK m \in Nat : m = script.messages
      BY <3>1
    <3>3. ASSUME NEW i \in 1..Len(received) PROVE received[i].type # "bad"
      <4>1. i \in 1..m \/ i = m + 1
        BY <3>1, <3>2
      <4>2. CASE i \in 1..m
        <5>1. received[i] = [type |-> "message", val |-> i]
          BY <3>1, <3>2, <4>2
        <5> QED BY <5>1
      <4>3. CASE i = m + 1
        BY <3>1, <3>2, <4>3
      <4> QED BY <4>1, <4>2, <4>3
    <3> QED BY <3>3 DEF Bad
  <2> QED BY <2>2 DEF CleanInv
<1>3. ClientTypeOK
  BY <1>2, CleanTypes
<1>4. script' = script
  BY <1>1, FakeSteps
<1>5. CASE UNCHANGED <<stack, completed, heard, seen>> /\ (closed => closed')
  BY <1>1, <1>4, <1>5, ToldStill
<1>6. CASE FakeUpcall
  BY <1>1, <1>2, <1>3, <1>6, ToldUpcall
<1>7. CASE Handler /\ UNCHANGED <<seen, received, passed>>
  BY <1>1, <1>4, <1>7, ToldHandler
<1> QED BY <1>1, <1>5, <1>6, <1>7, FakeSteps

LEMMA ScriptToldHolds == Spec => []ScriptTold
<1>1. Init => ScriptTold
  <2> SUFFICES ASSUME Init PROVE Told
    BY DEF ScriptTold
  <2>1. stack = <<>> /\ seen.headers = 0 /\ ~completed
    BY DEF Init, ClientInit, UpcallsInit
  <2>2. heard["end"][1] = <<>> /\ heard["message"][1] = <<>>
    <3>1. MaxCallbacks["end"] = 1 /\ MaxCallbacks["message"] = 1
      BY UnaryAssumption DEF Kinds
    <3>2. heard = [k \in Kinds |-> [i \in 1..MaxCallbacks[k] |-> <<>>]]
      BY DEF Init, ClientInit
    <3> QED BY <3>1, <3>2 DEF Kinds
  <2>3. ScriptHeaders # 0
    BY DEF ScriptHeaders
  <2>4. \A p \in 1..Len(stack) : FALSE
    BY <2>1
  <2>5. \A n \in 1..Len(heard["end"][1]) : FALSE
    BY <2>2
  <2> QED BY <2>1, <2>2, <2>3, <2>4, <2>5 DEF Told
<1>2. Call!CallInv /\ CleanInv /\ TransportInv /\ ScriptTold /\ [Next]_vars => ScriptTold'
  BY ToldNext
<1> QED BY <1>1, <1>2, CallShaped, CleanHolds, TransportsInOrder, PTL DEF Spec

LEMMA ToldIsTheScript ==
  ASSUME Call!CallInv, UnaryInv, TransportInv, ScriptTold
  PROVE  TellsTheScript
<1> SUFFICES ASSUME kind = "fake", outputs # <<>>
             PROVE  /\ outputs[1].status = ScriptedCode
                    /\ outputs[1].message =
                         IF MessagesSent /\ script.messages > 0 THEN script.messages ELSE Undefined
  BY DEF TellsTheScript
<1>1. /\ Len(outputs) = Len(heard["end"][1]) /\ heard["end"][1] \in Seq(Status)
      /\ heard["end"][1] # <<>> => completed
  BY OneCallback DEF UnaryInv, Kinds
<1>2. 1 \in 1..Len(outputs)
  BY EmptySeq, LenProperties DEF UnaryInv
<1>3. PICK st : st = heard["end"][1][1]
  OBVIOUS
<1>4. PICK m : m = Last1(heard["message"][1])
  OBVIOUS
<1>5. outputs[1].status = st /\ outputs[1].message = m
  <2>1. outputs[1] = [status |-> st, headers |-> unaryHeaders, message |-> unaryMessage]
    BY <1>2, <1>3, Zenon DEF UnaryInv
  <2>2. unaryMessage = m
    BY <1>4 DEF UnaryInv
  <2> QED BY <2>1, <2>2
<1>6. Told
  BY DEF ScriptTold
<1>7. st = ScriptedCode
  <2>1. 1 \in 1..Len(heard["end"][1])
    BY <1>1, <1>2
  <2> QED BY <1>3, <1>6, <2>1 DEF Told
<1>8. completed
  <2>1. heard["end"][1] # <<>>
    <3>1. Len(heard["end"][1]) # 0
      BY <1>1, <1>2
    <3> QED BY <3>1
  <2> QED BY <1>1, <2>1
<1>9. m = IF MessagesSent /\ script.messages > 0 THEN script.messages ELSE Undefined
  <2>1. CASE ~MessagesSent
    BY <1>4, <1>6, <2>1 DEF Told, Last1
  <2>2. CASE MessagesSent
    <3>1. script.messages \in Nat
      BY PlanNumbers DEF TransportInv, UpTypes
    <3>2. PICK j \in Nat : j = script.messages
      BY <3>1
    <3>3. m = Last1(Clean!FirstMessages(j))
      BY <1>4, <1>6, <1>8, <2>2, <3>2 DEF Told
    <3>4. m = IF j = 0 THEN Undefined ELSE j
      BY <3>3, LastOfFirst
    <3> QED BY <2>2, <3>2, <3>4
  <2> QED BY <2>1, <2>2
<1> QED BY <1>5, <1>7, <1>9

\* A test with the fake transport sees the error of the script that comes first,
\* or OK and the last message: whichever error the script has, with any number of
\* messages, triggered by the test as by finishSend, and whenever the application
\* closes the call.
THEOREM TellsTheScriptHolds == Spec => []TellsTheScript
<1>1. Call!CallInv /\ UnaryInv /\ TransportInv /\ ScriptTold => TellsTheScript
  BY ToldIsTheScript
<1> QED BY <1>1, CallShaped, UnaryInvHolds, TransportsInOrder, ScriptToldHolds, PTL

=============================================================================
