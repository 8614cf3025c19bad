-------------------------- MODULE HealthCheck_proofs --------------------------
(***************************************************************************)
(* Proofs about HealthCheck, for every number of changes of the backend    *)
(* and of broken connections.                                              *)
(***************************************************************************)
EXTENDS HealthCheck, TLAPS

USE DEF StatusOK, StatusServiceUnavailable, Reported, Backends, None, SetServing

\* The parts of TypeOK: flags, counters and the rest.
FlagsOK ==
  /\ shouldBackoff \in BOOLEAN /\ cancelled \in BOOLEAN /\ elapsed \in BOOLEAN
  /\ fruitless \in BOOLEAN

CountersOK == changes \in 0..MaxChanges /\ breaks \in 0..MaxBreaks

ValuesOK ==
  /\ pc \in {"loop", "select", "watch", "recv", "report", "failed", "unimplemented", "returned"}
  /\ wait \in {None, "positive", "stop"}
  /\ status \in {StatusOK, StatusServiceUnavailable}
  /\ resp \in Reported \cup {None} /\ pending \in Reported \cup {None}
  /\ backend \in Backends

LEMMA TypeParts == TypeOK <=> FlagsOK /\ CountersOK /\ ValuesOK
  BY DEF TypeOK, FlagsOK, CountersOK, ValuesOK

LEMMA InitType == Init => TypeOK
<1> SUFFICES ASSUME Init PROVE TypeOK
  OBVIOUS
<1>1. FlagsOK
  BY Zenon DEF Init, FlagsOK
<1>2. CountersOK
  BY BoundsAssumption DEF Init, CountersOK
<1>3. ValuesOK
  BY DEF Init, ValuesOK
<1> QED BY <1>1, <1>2, <1>3, TypeParts

LEMMA NextFlags == FlagsOK /\ [Next]_vars => FlagsOK'
  BY Zenon DEF FlagsOK, Next, Check, vars, Loop, TimerFires, WatchOpens, WatchFails, RecvMessage,
     Report, RecvFails, ReportFailure, ContextDone, BackendChanges, Cancel, TimePasses, Returned

LEMMA NextCounters == CountersOK /\ [Next]_vars => CountersOK'
  BY BoundsAssumption
  DEF CountersOK, Next, Check, vars, Loop, TimerFires, WatchOpens, WatchFails, RecvMessage,
     Report, RecvFails, ReportFailure, ContextDone, BackendChanges, Cancel, TimePasses, Returned

LEMMA NextValues == ValuesOK /\ [Next]_vars => ValuesOK'
  BY DEF ValuesOK, Next, Check, vars, Loop, TimerFires, WatchOpens, WatchFails, RecvMessage,
     Report, RecvFails, ReportFailure, ContextDone, BackendChanges, Cancel, TimePasses, Returned

LEMMA NextType == TypeOK /\ [Next]_vars => TypeOK'
<1> SUFFICES ASSUME TypeOK, [Next]_vars PROVE TypeOK'
  OBVIOUS
<1>1. FlagsOK' /\ CountersOK' /\ ValuesOK'
  BY TypeParts, NextFlags, NextCounters, NextValues
<1> QED BY <1>1 DEF TypeOK, FlagsOK, CountersOK, ValuesOK

\* Every reachable state is well typed: the status the endpoint answers with is
\* 200 or 503, and the bounds of the environment are kept.
THEOREM TypeCorrect == Spec => []TypeOK
<1>1. Init => TypeOK
  BY InitType
<1>2. TypeOK /\ [Next]_vars => TypeOK'
  BY NextType
<1> QED BY <1>1, <1>2, PTL DEF Spec

-----------------------------------------------------------------------------
(* 200 only on a stream that said so *)

\* Reaching "select" or "watch" again needs "failed", which has reported 503.
LEMMA NextServing == TypeOK /\ ServingOnlyOnStream /\ [Next]_vars => ServingOnlyOnStream'
<1> SUFFICES ASSUME TypeOK, ServingOnlyOnStream, [Next]_vars PROVE ServingOnlyOnStream'
  OBVIOUS
<1> USE DEF ServingOnlyOnStream
<1>1. CASE Loop \/ TimerFires
  BY <1>1 DEF Loop, TimerFires
<1>2. CASE WatchOpens \/ WatchFails
  BY <1>2 DEF WatchOpens, WatchFails
<1>3. CASE RecvMessage
  BY <1>3 DEF RecvMessage
<1>4. CASE Report
  BY <1>4 DEF Report
<1>5. CASE RecvFails
  BY <1>5 DEF RecvFails
<1>6. CASE ReportFailure
  BY <1>6 DEF ReportFailure
<1>7. CASE ContextDone
  BY <1>7 DEF ContextDone
<1>8. CASE BackendChanges \/ Cancel \/ TimePasses
  BY <1>8 DEF BackendChanges, Cancel, TimePasses
<1>9. CASE UNCHANGED vars
  BY <1>9 DEF vars
<1> QED BY <1>1, <1>2, <1>3, <1>4, <1>5, <1>6, <1>7, <1>8, <1>9 DEF Next, Check, Returned

\* The health endpoint answers 200 only while a stream is open on which the
\* backend has said that it serves, however the backend, the network and the
\* context behave and although a failing Watch reports nothing: the status was
\* set to 503 before the loop comes back to Watch.
THEOREM ServingOnlyOnStreamHolds == Spec => []ServingOnlyOnStream
<1>1. Init => ServingOnlyOnStream
  BY DEF Init, ServingOnlyOnStream
<1>2. TypeOK /\ ServingOnlyOnStream /\ [Next]_vars => ServingOnlyOnStream'
  BY NextServing
<1> QED BY <1>1, <1>2, TypeCorrect, PTL DEF Spec

=============================================================================
