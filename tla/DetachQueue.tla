---------------------------- MODULE DetachQueue ----------------------------
(***************************************************************************)
(* How the React Native transport leaves the XMLHttpRequest's event        *)
(* handlers: detach and runCallbacks of                                    *)
(* src/client/grpc-web-react-native-transport/src/index.ts.  A callback is *)
(* put on the module's queue awaitingExecution and a timer runs the queue. *)
(* A callback may detach others and may throw; the exception must leave    *)
(* runCallbacks, yet the callbacks behind it must still run, in order.     *)
(*                                                                         *)
(* Callbacks are numbered in the order in which they are detached.         *)
(*                                                                         *)
(* Bounds: MaxDetached callbacks in all, MaxPerCallback detached by one.   *)
(***************************************************************************)
EXTENDS Integers, Sequences, SequencesExt

CONSTANTS
  MaxDetached,
  MaxPerCallback,
  Null              \* awaitingExecution when no callback waits

ASSUME BoundsAssumption == MaxDetached \in Nat /\ MaxPerCallback \in Nat
ASSUME NullAssumption == Null \notin Seq(Nat)

VARIABLES
  awaitingExecution,   \* Null, or the callbacks that wait
  timers,              \* calls of runCallbacks that setTimeout has scheduled
  thisCallbackSet,     \* the rest of the loop in runCallbacks, Null outside it
  detached,            \* history: how many callbacks were detached
  executed             \* history: the callbacks that ran, in order

vars == <<awaitingExecution, timers, thisCallbackSet, detached, executed>>

Init ==
  /\ awaitingExecution = Null
  /\ timers = 0
  /\ thisCallbackSet = Null
  /\ detached = 0
  /\ executed = <<>>

-----------------------------------------------------------------------------
\* The callbacks that the next n calls of detach bring.
Fresh(n) == [i \in 1..n |-> detached + i]

\* Mutant of DetachAll: every call schedules a timer.
DetachAllTimed(n) ==
  [queue |-> IF n = 0 THEN awaitingExecution
             ELSE IF awaitingExecution = Null THEN Fresh(n) ELSE awaitingExecution \o Fresh(n),
   timers |-> timers + n]

\* n calls of detach: the first schedules a timer if nothing waits yet.
DetachAll(n) ==
  IF n = 0 THEN [queue |-> awaitingExecution, timers |-> timers]
  ELSE IF awaitingExecution # Null
    THEN [queue |-> awaitingExecution \o Fresh(n), timers |-> timers]
    ELSE [queue |-> Fresh(n), timers |-> timers + 1]

\* An event handler of the XMLHttpRequest.
Detach ==
  /\ thisCallbackSet = Null
  /\ detached < MaxDetached
  /\ LET after == DetachAll(1)
     IN  awaitingExecution' = after.queue /\ timers' = after.timers
  /\ detached' = detached + 1
  /\ UNCHANGED <<thisCallbackSet, executed>>

\* A timer fires and runCallbacks takes the queue.
RunCallbacks ==
  /\ thisCallbackSet = Null
  /\ timers > 0
  /\ timers' = timers - 1
  /\ thisCallbackSet' = awaitingExecution
  /\ awaitingExecution' = Null
  /\ UNCHANGED <<detached, executed>>

\* The state in which callback thisCallbackSet[i] leaves its caller, having
\* detached n others.
Execute(n) ==
  /\ thisCallbackSet # Null /\ thisCallbackSet # <<>>
  /\ detached + n <= MaxDetached
  /\ detached' = detached + n
  /\ executed' = Append(executed, Head(thisCallbackSet))

CallbackReturns(n) ==
  /\ Execute(n)
  /\ thisCallbackSet' = Tail(thisCallbackSet)
  /\ awaitingExecution' = DetachAll(n).queue /\ timers' = DetachAll(n).timers

\* Mutants of Requeue: the callbacks behind the one that threw are appended, or lost.
RequeueLast(queue) == queue \o Tail(thisCallbackSet)
RequeueNothing(queue) == queue

\* The loop of unshift.
Requeue(queue) == Tail(thisCallbackSet) \o queue

\* Mutant of CallbackThrows: no timer for the callbacks put back.
CallbackThrowsNoTimer(n) ==
  /\ Execute(n)
  /\ awaitingExecution' = Requeue(IF DetachAll(n).queue = Null THEN <<>> ELSE DetachAll(n).queue)
  /\ timers' = DetachAll(n).timers
  /\ thisCallbackSet' = Null

CallbackThrows(n) ==
  /\ Execute(n)
  /\ LET after == DetachAll(n)
     IN  IF after.queue = Null
           THEN /\ awaitingExecution' = Requeue(<<>>)
                /\ timers' = after.timers + 1
           ELSE /\ awaitingExecution' = Requeue(after.queue)
                /\ timers' = after.timers
  /\ thisCallbackSet' = Null

LoopEnds ==
  /\ thisCallbackSet = <<>>
  /\ thisCallbackSet' = Null
  /\ UNCHANGED <<awaitingExecution, timers, detached, executed>>

Run ==
  \/ RunCallbacks
  \/ \E n \in 0..MaxPerCallback : CallbackReturns(n) \/ CallbackThrows(n)
  \/ LoopEnds

Next == Detach \/ Run

\* Timers fire, and callbacks return or throw.
Spec == Init /\ [][Next]_vars /\ WF_vars(Run)

-----------------------------------------------------------------------------
\* The queue and the running set hold callbacks that were detached.
TypeOK ==
  /\ awaitingExecution = Null \/ awaitingExecution \in Seq(1..detached)
  /\ thisCallbackSet = Null \/ thisCallbackSet \in Seq(1..detached)
  /\ timers \in 0..1
  /\ detached \in 0..MaxDetached
  /\ executed \in Seq(1..detached)

\* Callbacks run in the order in which they were detached, none twice and none
\* left out, whichever of them throw.
RunInOrder == executed = [i \in 1..Len(executed) |-> i]

\* A timer is scheduled exactly when callbacks wait in the queue: never two,
\* which would run the queue early, and never none, which would lose it.
OneTimer == timers = IF awaitingExecution = Null THEN 0 ELSE 1

\* Every detached callback runs in the end.
AllRun == \A c \in 1..MaxDetached : detached >= c ~> Len(executed) >= c

=============================================================================
