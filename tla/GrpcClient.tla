----------------------------- MODULE GrpcClient -----------------------------
(***************************************************************************)
(* The call object of the TypeScript client: class GrpcClient of           *)
(* src/client/grpc-web/src/client.ts.  One call, its callbacks and what a   *)
(* Transport may do to it.  The module has the state and the actions; a    *)
(* module that EXTENDS it says which transport makes the upcalls           *)
(* (AnyTransportCall: any transport that keeps the Transport contract).    *)
(*                                                                         *)
(* JavaScript runs one thing at a time, but the client gives control to    *)
(* the application in the middle of its handlers, once per callback, and   *)
(* the application may call the client back (close, send, register         *)
(* another callback) before the handler goes on.  The unfinished part of   *)
(* every running handler is therefore kept on "stack" (last element = top) *)
(* and each action is one stretch of code between two changes of control:  *)
(*   - a loop frame is a forEach over the callbacks of one kind;           *)
(*   - a chunk frame is data.forEach of onTransportChunk;                  *)
(*   - a fail frame is the end of onTransportHeaders, the call of          *)
(*     rawOnError after rawOnHeaders.                                      *)
(*                                                                         *)
(* A Metadata object is abstracted to what getStatusFromHeaders makes of   *)
(* it: an integer, NaN (parseInt of a non-number) or NoStatus (null).      *)
(***************************************************************************)
EXTENDS Integers, Sequences, SequencesExt

CONSTANTS
  RequestStream,  \* methodDefinition.requestStream
  Reentrant,      \* TRUE if the transport makes upcalls from inside a callback
  MaxCallbacks,   \* bound: MaxCallbacks[k] callbacks of kind k are registered
  Undefined,      \* responseHeaders or responseTrailers before it is assigned
  NoStatus,       \* null: metadata without grpc-status
  NaN             \* parseInt of a grpc-status that is no number

Kinds == {"headers", "message", "end"}

ASSUME ClientAssumption ==
  /\ RequestStream \in BOOLEAN
  /\ Reentrant \in BOOLEAN
  /\ MaxCallbacks \in [Kinds -> Nat]
  /\ {Undefined, NoStatus, NaN} \cap Int = {}
  /\ Undefined \notin {NoStatus, NaN} /\ NoStatus # NaN

VARIABLES
  started, sentFirstMessage, finishedSending, closed, completed,
  responseHeaders, responseTrailers,
  callbacks,      \* callbacks[k]: how many callbacks of kind k are registered
  stack,          \* the unfinished handlers, the running one last
  heard           \* history: heard[k][i] lists what callback i of kind k was given

flags == <<started, sentFirstMessage, finishedSending, closed>>
response == <<responseHeaders, responseTrailers>>
clientVars == <<flags, completed, response, callbacks, stack, heard>>

-----------------------------------------------------------------------------
(* Data *)

Status == Int \cup {NoStatus, NaN}

OK == 0
Unknown == 2
Internal == 13

\* Mutant of HttpStatusToCode: every success is OK.
HttpStatusToCodeLoose(s) ==
  CASE s \in 200..299 -> 0 [] s = 404 -> 5 [] s = 503 -> 14 [] OTHER -> 2

HttpStatusToCode(s) ==
  CASE s = 0   -> 13 [] s = 200 -> 0  [] s = 400 -> 3  [] s = 401 -> 16
    [] s = 403 -> 7  [] s = 404 -> 5  [] s = 409 -> 10 [] s = 412 -> 9
    [] s = 429 -> 8  [] s = 499 -> 1  [] s = 500 -> 2  [] s = 501 -> 12
    [] s = 503 -> 14 [] s = 504 -> 4  [] OTHER -> 2

\* gRPCStatus && gRPCStatus >= 0 ? gRPCStatus : httpStatusToCode(status):
\* null, NaN and 0 are falsy, and a negative status fails the comparison.
HeaderCode(h, s) == IF h \in Nat \ {0} THEN h ELSE HttpStatusToCode(s)

\* Mutants of EndCode: no test for a call without headers; a missing status is
\* taken for OK; headers before trailers.
EndCodeOfNothing == IF responseTrailers = Undefined THEN responseHeaders ELSE responseTrailers
EndCodeDefaultOK ==
  IF responseTrailers \in Int THEN responseTrailers
  ELSE IF responseHeaders \in Int THEN responseHeaders ELSE OK
EndCodeOfHeaders ==
  IF responseHeaders \in Int THEN responseHeaders
  ELSE IF responseTrailers \in Int THEN responseTrailers ELSE Unknown

\* The code onTransportEnd completes the call with.
EndCode ==
  CASE responseTrailers = NoStatus -> Internal
    [] responseTrailers \notin {Undefined, NoStatus} -> responseTrailers
    [] responseTrailers = Undefined /\ responseHeaders \in {Undefined, NoStatus} -> Unknown
    [] OTHER -> responseHeaders

\* What parse returns: messages, ending in the trailers if it holds any.  A
\* message of type "bad" is one deserializeBinary throws on.
Item == [type: {"message", "bad"}, val: Nat] \cup [type: {"trailers"}, val: Status]

LoopFrame == [do: Kinds, val: Status, next: Nat \ {0}, last: Nat, busy: BOOLEAN]
ChunkFrame == [do: {"chunk"}, data: Seq(Item)]
FailFrame == [do: {"fail"}, code: Int]
Frame == LoopFrame \cup ChunkFrame \cup FailFrame

\* Mutant of Loop: the last callback is left out.
LoopShort(k, v) == [do |-> k, val |-> v, next |-> 1, last |-> callbacks[k] - 1, busy |-> FALSE]

\* forEach visits the callbacks that are registered when it starts.
Loop(k, v) == [do |-> k, val |-> v, next |-> 1, last |-> callbacks[k], busy |-> FALSE]

-----------------------------------------------------------------------------
(* Who runs *)

Busy(f) == f.do \in Kinds /\ f.busy
Top == Last(stack)
ApplicationRuns == stack # <<>> => Busy(Top)

\* Mutant of TransportRuns: a handler that waits lets the next upcall in.
TransportOverlaps == started

TransportRuns == started /\ (stack # <<>> => Reentrant /\ Busy(Top))
ClientRuns == stack # <<>> /\ ~Busy(Top)

-----------------------------------------------------------------------------
ClientInit ==
  /\ started = FALSE /\ sentFirstMessage = FALSE /\ finishedSending = FALSE
  /\ closed = FALSE /\ completed = FALSE
  /\ responseHeaders = Undefined /\ responseTrailers = Undefined
  /\ callbacks = [k \in Kinds |-> 0]
  /\ stack = <<>>
  /\ heard = [k \in Kinds |-> [i \in 1..MaxCallbacks[k] |-> <<>>]]

(* Calls of the application.  A call whose guard fails throws and changes   *)
(* nothing.                                                                *)

Register(k) ==
  /\ ApplicationRuns
  /\ callbacks[k] < MaxCallbacks[k]
  /\ callbacks' = [callbacks EXCEPT ![k] = @ + 1]
  /\ UNCHANGED <<flags, completed, response, stack, heard>>

Start ==
  /\ ApplicationRuns
  /\ ~started
  /\ started' = TRUE
  /\ UNCHANGED <<sentFirstMessage, finishedSending, closed, completed, response,
                 callbacks, stack, heard>>

Send ==
  /\ ApplicationRuns
  /\ started /\ ~closed /\ ~finishedSending
  /\ RequestStream \/ ~sentFirstMessage
  /\ sentFirstMessage' = TRUE
  /\ UNCHANGED <<started, finishedSending, closed, completed, response,
                 callbacks, stack, heard>>

FinishSend ==
  /\ ApplicationRuns
  /\ started /\ ~closed /\ ~finishedSending
  /\ finishedSending' = TRUE
  /\ UNCHANGED <<started, sentFirstMessage, closed, completed, response,
                 callbacks, stack, heard>>

Close ==
  /\ ApplicationRuns
  /\ started /\ ~closed
  /\ closed' = TRUE
  /\ UNCHANGED <<started, sentFirstMessage, finishedSending, completed, response,
                 callbacks, stack, heard>>

-----------------------------------------------------------------------------
(* The raw... methods.  "rest" is the stack of the caller.                 *)

RawOnHeaders(h, rest) ==
  stack' = IF completed THEN rest ELSE Append(rest, Loop("headers", h))

\* Mutant of RawOnMessage: the test of completed is left out.
RawOnMessageLate(m, rest) ==
  stack' = IF closed THEN rest ELSE Append(rest, Loop("message", m))

RawOnMessage(m, rest) ==
  stack' = IF completed \/ closed THEN rest ELSE Append(rest, Loop("message", m))

\* Mutant of Complete: the test of completed is left out.
CompleteAgain(code, rest) ==
  /\ stack' = Append(rest, Loop("end", code))
  /\ completed' = TRUE

\* rawOnEnd and rawOnError
Complete(code, rest) ==
  /\ stack' = IF completed THEN rest ELSE Append(rest, Loop("end", code))
  /\ completed' = TRUE

(* Upcalls of the transport *)

OnTransportHeaders(h, s) ==
  /\ TransportRuns
  /\ IF closed \/ s = 0
       THEN UNCHANGED clientVars
       ELSE LET code == HeaderCode(h, s)
            IN  /\ responseHeaders' = h
                /\ RawOnHeaders(h, IF code = OK THEN stack
                                   ELSE Append(stack, [do |-> "fail", code |-> code]))
                /\ UNCHANGED <<flags, completed, responseTrailers, callbacks, heard>>

\* data is what parser.parse returned for the chunk, a sequence of Item.
OnTransportChunk(data) ==
  /\ TransportRuns
  /\ IF closed
       THEN UNCHANGED clientVars
       ELSE /\ stack' = Append(stack, [do |-> "chunk", data |-> data])
            /\ UNCHANGED <<flags, completed, response, callbacks, heard>>

\* parser.parse threw.
OnUnparsableChunk ==
  /\ TransportRuns
  /\ IF closed
       THEN UNCHANGED clientVars
       ELSE /\ Complete(Internal, stack)
            /\ UNCHANGED <<flags, response, callbacks, heard>>

OnTransportEnd ==
  /\ TransportRuns
  /\ IF closed
       THEN UNCHANGED clientVars
       ELSE /\ Complete(EndCode, stack)
            /\ UNCHANGED <<flags, response, callbacks, heard>>

-----------------------------------------------------------------------------
(* Steps of the handler on top of the stack *)

Pop == stack' = Front(stack)

\* The next item of data.forEach, or the end of the forEach.
ProcessItem ==
  /\ ClientRuns
  /\ Top.do = "chunk"
  /\ UNCHANGED <<flags, completed, callbacks, heard>>
  /\ IF Top.data = <<>>
       THEN Pop /\ UNCHANGED response
       ELSE LET d == Head(Top.data)
                rest == Append(Front(stack), [Top EXCEPT !.data = Tail(@)])
            IN \/ /\ d.type = "message"
                  /\ RawOnMessage(d.val, rest)
                  /\ UNCHANGED response
               \/ /\ d.type = "bad"          \* the exception ends the forEach
                  /\ Pop
                  /\ UNCHANGED response
               \/ /\ d.type = "trailers" /\ responseHeaders = Undefined
                  /\ responseHeaders' = d.val
                  /\ RawOnHeaders(d.val, rest)
                  /\ UNCHANGED responseTrailers
               \/ /\ d.type = "trailers" /\ responseHeaders # Undefined
                  /\ responseTrailers' = d.val
                  /\ stack' = rest
                  /\ UNCHANGED responseHeaders

\* Mutant of Skips: the loops do not look at closed.
SkipsNothing(f) == FALSE /\ f.busy

\* The loops over message and end callbacks skip the rest once closed is set;
\* the loop over headers callbacks does not look at it.
Skips(f) == closed /\ f.do # "headers"

InvokeCallback ==
  /\ ClientRuns
  /\ Top.do \in Kinds
  /\ Top.next <= Top.last /\ ~Skips(Top)
  /\ heard' = [heard EXCEPT ![Top.do][Top.next] = Append(@, Top.val)]
  /\ stack' = Append(Front(stack), [Top EXCEPT !.next = @ + 1, !.busy = TRUE])
  /\ UNCHANGED <<flags, completed, response, callbacks>>

\* Mutant of CallbackReturns: an exception is not caught and ends the loop.
CallbackThrowsOut ==
  /\ stack # <<>> /\ Busy(Top)
  /\ stack' \in {Front(stack), Append(Front(stack), [Top EXCEPT !.busy = FALSE])}
  /\ UNCHANGED <<flags, completed, response, callbacks, heard>>

\* The callback returns, or throws: the catch defers the exception.
CallbackReturns ==
  /\ stack # <<>> /\ Busy(Top)
  /\ stack' = Append(Front(stack), [Top EXCEPT !.busy = FALSE])
  /\ UNCHANGED <<flags, completed, response, callbacks, heard>>

LoopEnds ==
  /\ ClientRuns
  /\ Top.do \in Kinds
  /\ Top.next > Top.last \/ Skips(Top)
  /\ Pop
  /\ UNCHANGED <<flags, completed, response, callbacks, heard>>

FailAfterHeaders ==
  /\ ClientRuns
  /\ Top.do = "fail"
  /\ Complete(Top.code, Front(stack))
  /\ UNCHANGED <<flags, response, callbacks, heard>>

HandlerStep == ProcessItem \/ InvokeCallback \/ LoopEnds \/ FailAfterHeaders

-----------------------------------------------------------------------------
(* The end callback hears NaN or a negative number when the server sends   *)
(* such a grpc-status.                                                     *)
ClientTypeOK ==
  /\ started \in BOOLEAN /\ sentFirstMessage \in BOOLEAN /\ finishedSending \in BOOLEAN
  /\ closed \in BOOLEAN /\ completed \in BOOLEAN
  /\ responseHeaders \in Status \cup {Undefined}
  /\ responseTrailers \in Status \cup {Undefined}
  /\ DOMAIN callbacks = Kinds /\ DOMAIN heard = Kinds
  /\ \A k \in Kinds : /\ callbacks[k] \in 0..MaxCallbacks[k]
                     /\ heard[k] \in [1..MaxCallbacks[k] -> Seq(Status)]
  /\ stack \in Seq(Frame)
  /\ \A p \in 1..Len(stack) :
       stack[p].do \in Kinds => stack[p].last <= MaxCallbacks[stack[p].do]

=============================================================================
