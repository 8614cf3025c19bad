---------------------------- MODULE HealthCheck ----------------------------
(***************************************************************************)
(* The health check of the proxy: ClientHealthCheck of                     *)
(* src/go/grpcweb/health.go, run in a goroutine by runHealthChecker of     *)
(* src/go/grpcwebproxy/main.go, against a backend that goes up and down,   *)
(* changes its status and may not implement the health service.            *)
(*                                                                         *)
(* External, modelled from their use: grpc-go's Watch stream and the       *)
(* health server behind it (it sends the current status when a stream      *)
(* opens and the latest one after a change), and cenkalti/backoff:         *)
(* NextBackOff returns a positive duration until MaxElapsedTime (default   *)
(* 15 minutes) has passed since the last Reset, then Stop = -1, and        *)
(* time.After(-1) fires at once.                                           *)
(*                                                                         *)
(* Bounds: MaxChanges changes of the backend, MaxBreaks broken connections.*)
(***************************************************************************)
EXTENDS Integers

CONSTANTS MaxChanges, MaxBreaks

ASSUME BoundsAssumption == MaxChanges \in Nat /\ MaxBreaks \in Nat

VARIABLES
  pc,               \* where ClientHealthCheck is
  shouldBackoff,
  wait,             \* what NextBackOff returned: "positive", "stop" or "none"
  status,           \* healthChecker.status
  cancelled,        \* ctx is done
  elapsed,          \* MaxElapsedTime has passed since backoffSrc.Reset
  resp,             \* the status message that was received last
  backend,          \* "serving", "notServing", "unimplemented" or "down"
  pending,          \* the status the stream has not delivered yet
  fruitless,        \* history: the last attempt failed without a message
  changes, breaks

vars == <<pc, shouldBackoff, wait, status, cancelled, elapsed, resp, backend,
          pending, fruitless, changes, breaks>>

StatusOK == 200
StatusServiceUnavailable == 503

Reported == {"serving", "notServing"}   \* what a health server answers
Backends == Reported \cup {"unimplemented", "down"}
None == "none"

\* Mutant of Init: runHealthChecker does not set a first status.
InitNoStatus ==
  /\ pc = "loop" /\ shouldBackoff = FALSE /\ wait = None /\ status = 0
  /\ cancelled = FALSE /\ elapsed = FALSE /\ resp = None /\ pending = None
  /\ backend \in Backends /\ fruitless = FALSE /\ changes = 0 /\ breaks = 0

Init ==
  /\ pc = "loop"
  /\ shouldBackoff = FALSE
  /\ wait = None
  /\ status = StatusServiceUnavailable
  /\ cancelled = FALSE /\ elapsed = FALSE
  /\ resp = None /\ pending = None
  /\ backend \in Backends
  /\ fruitless = FALSE
  /\ changes = 0 /\ breaks = 0

-----------------------------------------------------------------------------
(* ClientHealthCheck *)

\* Mutant of SetServing: only failures are recorded.
SetServingOnce(serving) ==
  status' = IF serving \/ status = StatusOK THEN StatusOK ELSE StatusServiceUnavailable

SetServing(serving) ==
  status' = IF serving THEN StatusOK ELSE StatusServiceUnavailable

\* The head of the outer loop.
Loop ==
  /\ pc = "loop"
  /\ IF shouldBackoff
       THEN /\ wait' = IF elapsed THEN "stop" ELSE "positive"
            /\ pc' = "select"
            /\ UNCHANGED shouldBackoff
       ELSE /\ shouldBackoff' = TRUE
            /\ pc' = "watch"
            /\ wait' = None
  /\ UNCHANGED <<status, cancelled, elapsed, resp, backend, pending, fruitless, changes, breaks>>

TimerFires ==
  /\ pc = "select"
  /\ pc' = "watch"
  /\ shouldBackoff' = TRUE
  /\ UNCHANGED <<wait, status, cancelled, elapsed, resp, backend, pending, fruitless, changes, breaks>>

\* Mutant of ContextDone: the select waits for the timer only.
ContextIgnored == FALSE /\ UNCHANGED vars

ContextDone ==
  /\ pc = "select"
  /\ cancelled
  /\ pc' = "returned"
  /\ UNCHANGED <<shouldBackoff, wait, status, cancelled, elapsed, resp, backend, pending,
                 fruitless, changes, breaks>>

\* Watch opens a stream, or fails: always when the context is done.
WatchOpens ==
  /\ pc = "watch"
  /\ backend # "down" /\ ~cancelled
  /\ pc' = "recv"
  /\ pending' = IF backend \in Reported THEN backend ELSE None
  /\ resp' = None
  /\ fruitless' = FALSE
  /\ UNCHANGED <<shouldBackoff, wait, status, cancelled, elapsed, backend, changes, breaks>>

WatchFails ==
  /\ pc = "watch"
  /\ backend = "down" \/ cancelled
  /\ pc' = "loop"
  /\ fruitless' = TRUE
  /\ UNCHANGED <<shouldBackoff, wait, status, cancelled, elapsed, resp, backend, pending,
                 changes, breaks>>

RecvMessage ==
  /\ pc = "recv"
  /\ pending # None
  /\ resp' = pending /\ pending' = None
  /\ shouldBackoff' = FALSE
  /\ elapsed' = FALSE              \* backoffSrc.Reset()
  /\ pc' = "report"
  /\ UNCHANGED <<wait, status, cancelled, backend, fruitless, changes, breaks>>

Report ==
  /\ pc = "report"
  /\ SetServing(resp = "serving")
  /\ pc' = "recv"
  /\ UNCHANGED <<shouldBackoff, wait, cancelled, elapsed, resp, backend, pending, fruitless,
                 changes, breaks>>

\* RecvMsg fails: the backend is gone, the context is done, the service is not
\* implemented, or the connection breaks.
RecvFails ==
  /\ pc = "recv"
  /\ \/ backend = "down" /\ UNCHANGED breaks
     \/ cancelled /\ UNCHANGED breaks
     \/ backend = "unimplemented" /\ UNCHANGED breaks
     \/ breaks < MaxBreaks /\ breaks' = breaks + 1
  /\ pc' = IF backend = "unimplemented" /\ ~cancelled /\ breaks' = breaks
             THEN "unimplemented" ELSE "failed"
  /\ fruitless' = (resp = None)
  /\ pending' = None
  /\ UNCHANGED <<shouldBackoff, wait, status, cancelled, elapsed, resp, backend, changes>>

\* Mutant of ReportFailure: the status is left as it was.
ReportNothing ==
  /\ pc \in {"failed", "unimplemented"}
  /\ pc' = IF pc = "unimplemented" THEN "returned" ELSE "loop"
  /\ UNCHANGED <<shouldBackoff, wait, status, cancelled, elapsed, resp, backend, pending,
                 fruitless, changes, breaks>>

ReportFailure ==
  /\ pc \in {"failed", "unimplemented"}
  /\ SetServing(FALSE)
  /\ pc' = IF pc = "unimplemented" THEN "returned" ELSE "loop"
  /\ UNCHANGED <<shouldBackoff, wait, cancelled, elapsed, resp, backend, pending, fruitless,
                 changes, breaks>>

Check == Loop \/ TimerFires \/ WatchOpens \/ WatchFails \/ RecvMessage \/ Report
           \/ RecvFails \/ ReportFailure

-----------------------------------------------------------------------------
(* The rest of the world *)

\* The status changes; an open stream will deliver the latest one.  A backend
\* that comes back is a new process, so that its old streams fail first.
BackendChanges ==
  /\ changes < MaxChanges
  /\ changes' = changes + 1
  /\ \E b \in Backends \ {backend} :
       /\ b = "down" \/ backend = "down" \/ {b, backend} \subseteq Reported
       /\ backend = "down" => pc \notin {"recv", "report"}
       /\ backend' = b
       /\ pending' = IF pc \in {"recv", "report"} /\ b \in Reported THEN b ELSE pending
  /\ UNCHANGED <<pc, shouldBackoff, wait, status, cancelled, elapsed, resp, fruitless, breaks>>

Cancel ==
  /\ ~cancelled
  /\ cancelled' = TRUE
  /\ UNCHANGED <<pc, shouldBackoff, wait, status, elapsed, resp, backend, pending, fruitless,
                 changes, breaks>>

\* A quarter of an hour goes by without a message.
TimePasses ==
  /\ ~elapsed
  /\ pc \in {"select", "recv"}
  /\ elapsed' = TRUE
  /\ UNCHANGED <<pc, shouldBackoff, wait, status, cancelled, resp, backend, pending, fruitless,
                 changes, breaks>>

\* ClientHealthCheck has returned.
Returned == pc = "returned" /\ UNCHANGED vars

Next == Check \/ ContextDone \/ BackendChanges \/ Cancel \/ TimePasses \/ Returned

Spec == Init /\ [][Next]_vars

\* The goroutine is scheduled, timers fire and calls return; of two ready
\* cases select takes each again and again.  The world is under no obligation.
FairSpec == Spec /\ WF_vars(Check) /\ SF_vars(ContextDone)

-----------------------------------------------------------------------------
(* Properties *)

\* Every variable has its type; the endpoint never answers anything but 200 or 503.
TypeOK ==
  /\ pc \in {"loop", "select", "watch", "recv", "report", "failed", "unimplemented", "returned"}
  /\ shouldBackoff \in BOOLEAN /\ cancelled \in BOOLEAN /\ elapsed \in BOOLEAN
  /\ fruitless \in BOOLEAN
  /\ wait \in {None, "positive", "stop"}
  /\ status \in {StatusOK, StatusServiceUnavailable}
  /\ resp \in Reported \cup {None} /\ pending \in Reported \cup {None}
  /\ backend \in Backends
  /\ changes \in 0..MaxChanges /\ breaks \in 0..MaxBreaks

\* The health endpoint answers 200 only while a stream is open on which the
\* backend has said it serves: never while connecting, backing off or after
\* ClientHealthCheck has returned, although a failing Watch reports nothing.
ServingOnlyOnStream ==
  status = StatusOK =>
    \/ pc = "report"
    \/ pc \in {"recv", "failed", "unimplemented"} /\ resp = "serving"

\* Cancelling the context ends ClientHealthCheck, wherever it is.
CancelReturns == cancelled ~> pc = "returned"

\* When the backend settles, so does the endpoint, and on the right answer,
\* after any number of failures before.
StatusConverges ==
  \A b \in Reported \cup {"down"} :
    <>[](backend = b /\ ~cancelled /\ pc # "returned")
      => <>[](status = IF b = "serving" THEN StatusOK ELSE StatusServiceUnavailable)

\* health.go: "Backs off if the connection has failed in some way without
\* receiving a message in the previous retry": a new attempt after such a
\* failure comes after a wait.
BacksOff == [][ pc' = "watch" /\ pc # "watch" /\ fruitless => wait' = "positive" ]_vars

=============================================================================
