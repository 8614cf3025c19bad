--------------------------- MODULE FakeTransport ---------------------------
(***************************************************************************)
(* The transport for tests of applications, FakeTransportBuilder of         *)
(* src/client/grpc-web-fake-transport/src/index.ts.  The script is what the *)
(* with... methods of the builder have set.  A trigger makes its upcalls    *)
(* one after the other before it returns.                                   *)
(***************************************************************************)
EXTENDS TransportUpcalls

CONSTANT Null   \* an error that the script does not have

VARIABLES
  script,       \* preHeadersErrorCode, preMessagesError, preTrailersError, messages, autoTrigger
  triggered     \* withManualTrigger: the triggers the test has called

fakeVars == <<script, triggered>>

-----------------------------------------------------------------------------
(* What a trigger sends; the next one is called only if it returned true *)

SendHeaders ==
  IF script.preHeadersErrorCode # Null
    THEN <<HeadersCall(NoStatus, script.preHeadersErrorCode), EndCall>>
    ELSE <<HeadersCall(NoStatus, 200)>>

SendMessages ==
  IF script.preMessagesError # Null
    THEN <<HeadersCall(script.preMessagesError, 200), EndCall>>
    ELSE [n \in 1..script.messages |-> ChunkCall(n)]

SendTrailers == <<ChunkCall(script.messages + 1), EndCall>>

\* Mutant of ScriptedBody: "Explicit status OK" comes before the error.
ScriptedBodyOK ==
  [n \in 1..script.messages |-> [type |-> "message", val |-> n]] \o <<[type |-> "trailers", val |-> OK]>>

\* The body of the response: the trailers say OK unless the script has an error.
ScriptedBody ==
  [n \in 1..script.messages |-> [type |-> "message", val |-> n]]
    \o <<[type |-> "trailers",
          val |-> IF script.preTrailersError # Null THEN script.preTrailersError ELSE OK]>>

HeadersSent == script.preHeadersErrorCode = Null
MessagesSent == HeadersSent /\ script.preMessagesError = Null

SendAll ==
  SendHeaders \o (IF HeadersSent THEN SendMessages ELSE <<>>)
              \o (IF MessagesSent THEN SendTrailers ELSE <<>>)

-----------------------------------------------------------------------------
FakeInit ==
  /\ received = ScriptedBody
  /\ triggered = 0

\* finishSend
FakeFinishSend ==
  /\ upcalls' = IF script.autoTrigger THEN SendAll ELSE <<>>
  /\ UNCHANGED <<fakeVars, received, passed, seen>>

\* The test calls sendHeaders, sendMessages and sendTrailers in this order.
Trigger ==
  /\ ~script.autoTrigger /\ upcalls = <<>> /\ stack = <<>>
  /\ \/ triggered = 0 /\ upcalls' = SendHeaders
     \/ triggered = 1 /\ HeadersSent /\ upcalls' = SendMessages
     \/ triggered = 2 /\ MessagesSent /\ upcalls' = SendTrailers
  /\ triggered' = triggered + 1
  /\ UNCHANGED <<script, received, passed, seen, clientVars>>

FakeUpcall == RunUpcall /\ UNCHANGED fakeVars
=============================================================================
