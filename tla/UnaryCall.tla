----------------------------- MODULE UnaryCall -----------------------------
(***************************************************************************)
(* grpc.unary (src/client/grpc-web/src/unary.ts) over each HTTP transport   *)
(* and over the fake transport.  grpc.invoke (invoke.ts) makes the same     *)
(* calls with callbacks of the application in place of unary's.  Both       *)
(* refuse a method with a stream of requests: RequestStream is FALSE.       *)
(***************************************************************************)
EXTENDS HttpTransports, FakeTransport, FiniteSets

CONSTANTS
  TransportKinds,  \* the transports to choose from: "xhr", "fetch", "node", "rn", "fake"
  Scripts,         \* the scripts of the fake transport
  MaxBody          \* bound: items in a body

\* Trailers end a body, and message n of it is numbered n.
IsBody(b) ==
  /\ b \in Seq(Item) /\ Len(b) <= MaxBody
  /\ \A i \in 1..Len(b) : IF b[i].type = "trailers" THEN i = Len(b) ELSE b[i].val = i

\* An error of a script is one: HTTP does not say 200, nor gRPC OK.
IsScript(s) ==
  /\ s \in [preHeadersErrorCode : (Nat \ {0, 200}) \cup {Null},
            preMessagesError : (Nat \ {OK}) \cup {Null},
            preTrailersError : (Nat \ {OK}) \cup {Null},
            messages : Nat, autoTrigger : BOOLEAN]
  /\ s.messages < MaxBody

\* unary registers one callback of each kind and refuses a stream of requests;
\* no upcall is made while a callback runs.
ASSUME UnaryAssumption ==
  /\ RequestStream = FALSE /\ Reentrant = FALSE
  /\ MaxCallbacks = [k \in Kinds |-> 1]
  /\ TransportKinds \subseteq {"xhr", "fetch", "node", "rn", "fake"}
  /\ Responses \subseteq [status : Status, http : Nat \ {0}, body : BOOLEAN]
  /\ NoResponse \notin Responses /\ Null \notin Nat
  /\ MaxBody \in Nat
  /\ \A b \in Bodies : IsBody(b)
  /\ \A s \in Scripts : IsScript(s)

VARIABLES
  returned,        \* unary has returned the Request, which has close()
  unaryHeaders,    \* the variables responseHeaders and responseMessage of unary,
  unaryMessage,    \*   Undefined for null
  outputs          \* what props.onEnd was called with

unaryVars == <<unaryHeaders, unaryMessage, outputs>>
vars == <<clientVars, upcallVars, httpVars, fakeVars, returned, unaryVars>>

Bad(items) == \E i \in 1..Len(items) : items[i].type = "bad"

\* An exception in an event listener of node ends the process: no such message.
Init ==
  /\ kind \in TransportKinds
  /\ script \in Scripts
  /\ ClientInit /\ UpcallsInit /\ HttpInit
  /\ kind = "node" => ~Bad(body)
  /\ IF kind = "fake"
       THEN FakeInit /\ body = CHOOSE b \in Bodies : TRUE
       ELSE received = <<>> /\ triggered = 0 /\ script = CHOOSE s \in Scripts : TRUE
  /\ returned = FALSE
  /\ unaryHeaders = Undefined /\ unaryMessage = Undefined
  /\ outputs = <<>>

-----------------------------------------------------------------------------
(* unary and the application *)

AttachCallback ==
  /\ \/ Register("headers")
     \/ callbacks["headers"] = 1 /\ Register("message")
     \/ callbacks["message"] = 1 /\ Register("end")
  /\ UNCHANGED <<upcallVars, httpVars, fakeVars, returned, unaryVars>>

Connect ==
  /\ callbacks["end"] = 1
  /\ Start
  /\ IF kind = "fake" THEN UNCHANGED <<upcallVars, httpVars>> ELSE HttpStart
  /\ UNCHANGED <<fakeVars, returned, unaryVars>>

SendMessage ==
  /\ Send
  /\ IF kind = "fake" THEN UNCHANGED <<upcallVars, httpVars>> ELSE HttpSend
  /\ UNCHANGED <<fakeVars, returned, unaryVars>>

SendFinish ==
  /\ sentFirstMessage
  /\ FinishSend
  /\ IF kind = "fake" THEN FakeFinishSend ELSE UNCHANGED <<upcallVars, fakeVars>>
  /\ UNCHANGED <<httpVars, returned, unaryVars>>

\* The fake transport makes its upcalls before finishSend returns.
Returns ==
  /\ finishedSending /\ ~returned
  /\ stack = <<>> /\ upcalls = <<>>
  /\ returned' = TRUE
  /\ UNCHANGED <<clientVars, upcallVars, httpVars, fakeVars, unaryVars>>

\* close of the Request, at any time: "loadend" comes in one go with "error".
Cancel ==
  /\ returned
  /\ stack = <<>> => told # "error"
  /\ Close
  /\ IF kind = "fake" THEN UNCHANGED <<upcallVars, httpVars>> ELSE HttpCancel
  /\ UNCHANGED <<fakeVars, returned, unaryVars>>

-----------------------------------------------------------------------------
(* The callbacks of unary *)

\* Mutant of Captured: the first message is kept.
CapturedFirst ==
  IF Top.do = "message" /\ unaryMessage # Undefined THEN UNCHANGED unaryVars
  ELSE
  \/ Top.do = "headers" /\ unaryHeaders' = Top.val /\ UNCHANGED <<unaryMessage, outputs>>
  \/ Top.do = "message" /\ unaryMessage' = Top.val /\ UNCHANGED <<unaryHeaders, outputs>>
  \/ /\ Top.do = "end"
     /\ outputs' = Append(outputs, [status |-> Top.val, headers |-> unaryHeaders, message |-> unaryMessage])
     /\ UNCHANGED <<unaryHeaders, unaryMessage>>

Captured ==
  \/ Top.do = "headers" /\ unaryHeaders' = Top.val /\ UNCHANGED <<unaryMessage, outputs>>
  \/ Top.do = "message" /\ unaryMessage' = Top.val /\ UNCHANGED <<unaryHeaders, outputs>>
  \/ /\ Top.do = "end"
     /\ outputs' = Append(outputs, [status |-> Top.val, headers |-> unaryHeaders, message |-> unaryMessage])
     /\ UNCHANGED <<unaryHeaders, unaryMessage>>

UnaryCallback == InvokeCallback /\ Captured

Handler ==
  \/ UnaryCallback
  \/ (ProcessItem \/ LoopEnds \/ FailAfterHeaders \/ CallbackReturns) /\ UNCHANGED unaryVars

-----------------------------------------------------------------------------
Application == AttachCallback \/ Connect \/ SendMessage \/ SendFinish \/ Returns \/ Cancel

JavaScript ==
  \/ Handler /\ UNCHANGED <<upcallVars, httpVars, fakeVars, returned>>
  \/ returned /\ TransportEvent /\ UNCHANGED <<fakeVars, returned, unaryVars>>
  \/ kind = "fake" /\ FakeUpcall /\ UNCHANGED <<httpVars, returned, unaryVars>>

Test == returned /\ kind = "fake" /\ Trigger /\ UNCHANGED <<httpVars, returned, unaryVars>>

Next ==
  \/ Application
  \/ JavaScript
  \/ Test
  \/ Network /\ UNCHANGED <<fakeVars, returned, unaryVars>>

Spec == Init /\ [][Next]_vars

\* JavaScript runs, unary runs to its end and events are dispatched.  Nothing is
\* assumed of the server, the network, the test and when close is called.
FairSpec == Spec /\ WF_vars(JavaScript) /\ WF_vars(SendFinish \/ Returns)

-----------------------------------------------------------------------------
(* Properties *)

\* Every variable has its type.
TypeOK ==
  /\ ClientTypeOK
  /\ received \in Seq(Item) /\ passed \in 0..Len(received)
  /\ kind \in TransportKinds /\ script \in Scripts /\ triggered \in 0..3
  /\ wire \in {"idle", "opened", "sent", "open", "complete", "broken", "aborted"}
  /\ answer \in Responses \cup {NoResponse}
  /\ told \in {"nothing", "headers", "error", "end"}
  /\ await \in {"none", "response", "pump", "read", "catch", "caught"}
  /\ unaryMessage \in Nat \cup {Undefined} /\ unaryHeaders \in Status \cup {Undefined}

\* What the server and the scripts may say.
SaidInHeaders ==
  { r.status : r \in Responses } \cup ({ s.preMessagesError : s \in Scripts } \ {Null}) \cup {NoStatus}
SaidInTrailers ==
  { b[Len(b)].val : b \in { c \in Bodies : c # <<>> /\ c[Len(c)].type = "trailers" } }
    \cup ({ s.preTrailersError : s \in Scripts } \ {Null}) \cup {OK}
HttpCodes ==
  { r.http : r \in Responses } \cup ({ s.preHeadersErrorCode : s \in Scripts } \ {Null}) \cup {200}
SomeBad == \E b \in Bodies : Bad(b)

\* What the transport has handed over: messages, and the status said last.
HandedTrailers == passed > 0 /\ received[passed].type = "trailers"
MessagesHanded == IF HandedTrailers THEN passed - 1 ELSE passed
StatusHanded == IF HandedTrailers THEN received[passed].val ELSE seen.last

AnyTransport == INSTANCE AnyTransportCall WITH
  HeadersFirst <- FALSE,
  MaxHeaders <- 2,
  MaxChunks <- MaxBody + 1,
  MaxMessages <- MaxBody,
  HeaderStatuses <- SaidInHeaders,
  TrailerStatuses <- SaidInTrailers,
  HttpStatuses <- HttpCodes,
  BadMessages <- SomeBad,
  Unparsable <- FALSE,
  Sends <- TRUE,
  headersSeen <- seen.headers,
  chunksSeen <- seen.chunks,
  transportEnded <- seen.ended,
  arrived <- MessagesHanded,
  lastStatus <- StatusHanded,
  early <- callbacks

\* Every transport is one of those that AnyTransportCall describes; what holds
\* there holds for it, above all that the end is told at most once.
IsATransport == AnyTransport!Spec

\* unary gives one output, however often the transport reports the end.
OneOutput == Len(outputs) <= 1

\* If the status of the output is OK, the response was complete and said so, and
\* the output carries its last message and its headers.
Messages == { i \in 1..Len(received) : received[i].type = "message" }

OutputIsTheResponse ==
  \A n \in 1..Len(outputs) : outputs[n].status = OK /\ ~Bad(received) =>
    /\ kind # "fake" => wire \in {"complete", "aborted"}
    /\ outputs[n].message = IF Messages = {} THEN Undefined ELSE Cardinality(Messages)
    /\ outputs[n].headers = seen.last

ScriptedCode ==
  IF script.preHeadersErrorCode # Null THEN HttpStatusToCode(script.preHeadersErrorCode)
  ELSE IF script.preMessagesError # Null THEN script.preMessagesError
  ELSE IF script.preTrailersError # Null THEN script.preTrailersError
  ELSE OK

\* The fake transport: the application is told the error of the script that
\* comes first, or OK and the last message, by triggers as by finishSend.
TellsTheScript ==
  kind = "fake" /\ outputs # <<>> =>
    /\ outputs[1].status = ScriptedCode
    /\ outputs[1].message = IF MessagesSent /\ script.messages > 0 THEN script.messages ELSE Undefined

\* The code never tells these ends (see README): node hears nothing of a connection
\* that breaks in the middle of the response, and Fetch reads no body that is null,
\* so that a good start is all it tells.
EndIsNotSeen ==
  \/ kind = "node" /\ wire = "broken" /\ told = "headers"
  \/ /\ kind = "fetch" /\ answer # NoResponse /\ ~answer.body
     /\ answer.http = 200 /\ answer.status \notin Nat \ {OK}

\* The end is told once the response is complete or the connection has broken,
\* unless the application closes the call.
EndIsReported ==
  wire \in {"complete", "broken"} ~> outputs # <<>> \/ closed \/ EndIsNotSeen

\* A closed call does not keep its response open, whichever of the promises of
\* Fetch is under way, unless an exception in onChunk has ended it (see README).
CloseStopsTheResponse ==
  closed /\ wire = "open" /\ await # "caught" ~> wire # "open"

=============================================================================
