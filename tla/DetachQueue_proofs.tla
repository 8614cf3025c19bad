-------------------------- MODULE DetachQueue_proofs --------------------------
(***************************************************************************)
(* Proofs about DetachQueue, for every number of callbacks.  The callbacks *)
(* that ran, the rest of the loop of runCallbacks and the queue are three  *)
(* pieces of the one sequence 1, 2, ..., detached: Pieces says where each  *)
(* begins.                                                                 *)
(***************************************************************************)
EXTENDS DetachQueue, SequenceTheorems, TLAPS

\* awaitingExecution or thisCallbackSet as a sequence.
Items(q) == IF q = Null THEN <<>> ELSE q

\* s is from + 1, from + 2, ...
Numbered(s, from) == s \in Seq(Nat) /\ \A i \in 1..Len(s) : s[i] = from + i

Pieces ==
  /\ Numbered(executed, 0)
  /\ Numbered(Items(thisCallbackSet), Len(executed))
  /\ Numbered(Items(awaitingExecution), Len(executed) + Len(Items(thisCallbackSet)))
  /\ detached = Len(executed) + Len(Items(thisCallbackSet)) + Len(Items(awaitingExecution))
  /\ detached \in 0..MaxDetached

IInv == Pieces /\ OneTimer

-----------------------------------------------------------------------------
(* Numbered sequences *)

LEMMA EmptyNumbered == ASSUME NEW from \in Nat PROVE Numbered(<<>>, from) /\ Len(<<>>) = 0
  BY EmptySeq DEF Numbered

LEMMA ConcatNumbered ==
  ASSUME NEW from \in Nat, NEW s, Numbered(s, from), NEW t, Numbered(t, from + Len(s))
  PROVE  Numbered(s \o t, from) /\ Len(s \o t) = Len(s) + Len(t)
<1>1. s \in Seq(Nat) /\ t \in Seq(Nat) /\ Len(s) \in Nat /\ Len(t) \in Nat
  BY LenProperties DEF Numbered
<1>2. /\ s \o t \in Seq(Nat) /\ Len(s \o t) = Len(s) + Len(t)
      /\ \A i \in 1 .. Len(s) + Len(t) : (s \o t)[i] = IF i <= Len(s) THEN s[i] ELSE t[i - Len(s)]
  BY <1>1, ConcatProperties
<1> QED BY <1>1, <1>2 DEF Numbered

LEMMA AppendNumbered ==
  ASSUME NEW from \in Nat, NEW s, Numbered(s, from)
  PROVE  Numbered(Append(s, from + Len(s) + 1), from)
<1>1. s \in Seq(Nat) /\ Len(s) \in Nat
  BY LenProperties DEF Numbered
<1> QED BY <1>1 DEF Numbered

LEMMA TailNumbered ==
  ASSUME NEW from \in Nat, NEW s, Numbered(s, from), s # <<>>
  PROVE  /\ Head(s) = from + 1
         /\ Numbered(Tail(s), from + 1)
         /\ Len(Tail(s)) = Len(s) - 1
<1>1. s \in Seq(Nat) /\ Len(s) \in Nat \ {0}
  BY EmptySeq DEF Numbered
<1>2. /\ Tail(s) \in Seq(Nat) /\ Len(Tail(s)) = Len(s) - 1
      /\ \A i \in 1 .. Len(Tail(s)) : Tail(s)[i] = s[i + 1]
  BY <1>1, HeadTailProperties
<1> QED BY <1>1, <1>2 DEF Numbered

LEMMA FreshNumbered ==
  ASSUME detached \in Nat, NEW n \in Nat
  PROVE  Numbered(Fresh(n), detached) /\ Len(Fresh(n)) = n /\ (n > 0 => Fresh(n) # Null)
<1>1. Fresh(n) \in Seq(Nat) /\ Len(Fresh(n)) = n
  BY DEF Fresh
<1> QED BY <1>1, NullAssumption DEF Numbered, Fresh

\* What is detached is numbered on, and a timer is there if anything waits.
LEMMA DetachNumbered ==
  ASSUME NEW from \in Nat, NEW n \in Nat,
         Numbered(Items(awaitingExecution), from),
         detached = from + Len(Items(awaitingExecution)),
         OneTimer
  PROVE  /\ Numbered(Items(DetachAll(n).queue), from)
         /\ Len(Items(DetachAll(n).queue)) = Len(Items(awaitingExecution)) + n
         /\ DetachAll(n).timers = IF DetachAll(n).queue = Null THEN 0 ELSE 1
<1>1. detached \in Nat /\ Len(Items(awaitingExecution)) \in Nat
  BY LenProperties DEF Numbered
<1>2. Numbered(Fresh(n), detached) /\ Len(Fresh(n)) = n /\ Fresh(n) # Null
  BY <1>1, FreshNumbered, NullAssumption DEF Numbered
<1>3. CASE n = 0
  BY <1>1, <1>3 DEF DetachAll, OneTimer
<1>4. CASE n # 0 /\ awaitingExecution # Null
  <2>1. Items(awaitingExecution) = awaitingExecution
    BY <1>4 DEF Items
  <2>2. /\ Numbered(awaitingExecution \o Fresh(n), from)
        /\ Len(awaitingExecution \o Fresh(n)) = Len(awaitingExecution) + n
    BY <1>2, <2>1, ConcatNumbered
  <2>3. awaitingExecution \o Fresh(n) # Null
    BY <2>2, NullAssumption DEF Numbered
  <2> QED BY <1>4, <2>1, <2>2, <2>3 DEF DetachAll, Items, OneTimer
<1>5. CASE n # 0 /\ awaitingExecution = Null
  <2>1. Items(awaitingExecution) = <<>> /\ Len(Items(awaitingExecution)) = 0 /\ detached = from
    BY <1>5, EmptyNumbered DEF Items
  <2> QED BY <1>2, <1>5, <2>1 DEF DetachAll, Items, OneTimer
<1> QED BY <1>3, <1>4, <1>5

-----------------------------------------------------------------------------
(* IInv is inductive *)

LEMMA InitInv == Init => IInv
<1> SUFFICES ASSUME Init PROVE IInv
  OBVIOUS
<1>1. Items(thisCallbackSet) = <<>> /\ Items(awaitingExecution) = <<>> /\ executed = <<>>
  BY DEF Init, Items
<1>2. Pieces
  BY <1>1, EmptyNumbered, BoundsAssumption DEF Init, Pieces
<1> QED BY <1>2 DEF IInv, Init, OneTimer

LEMMA Lengths ==
  ASSUME IInv
  PROVE  /\ Len(executed) \in Nat /\ executed \in Seq(Nat)
         /\ Len(Items(thisCallbackSet)) \in Nat /\ Items(thisCallbackSet) \in Seq(Nat)
         /\ Len(Items(awaitingExecution)) \in Nat /\ Items(awaitingExecution) \in Seq(Nat)
  BY LenProperties DEF IInv, Pieces, Numbered

LEMMA DetachInv == ASSUME IInv, Detach PROVE IInv'
<1> DEFINE from == Len(executed) + Len(Items(thisCallbackSet))
<1>1. from \in Nat
  BY Lengths
<1>2. /\ awaitingExecution' = DetachAll(1).queue /\ timers' = DetachAll(1).timers
      /\ detached' = detached + 1 /\ detached + 1 \in 0..MaxDetached
      /\ UNCHANGED <<thisCallbackSet, executed>>
  BY BoundsAssumption DEF Detach, IInv, Pieces
<1>3. /\ Numbered(Items(awaitingExecution'), from)
      /\ Len(Items(awaitingExecution')) = Len(Items(awaitingExecution)) + 1
      /\ OneTimer'
  BY <1>1, <1>2, DetachNumbered DEF IInv, Pieces, OneTimer
<1> QED BY <1>2, <1>3, Lengths DEF IInv, Pieces

\* The queue becomes the rest of the loop.
LEMMA RunCallbacksInv == ASSUME IInv, RunCallbacks PROVE IInv'
<1>1. /\ thisCallbackSet = Null /\ awaitingExecution # Null
      /\ timers' = 0 /\ thisCallbackSet' = awaitingExecution /\ awaitingExecution' = Null
      /\ UNCHANGED <<detached, executed>>
  BY DEF RunCallbacks, IInv, OneTimer
<1>2. /\ Len(Items(thisCallbackSet)) = 0
      /\ Items(thisCallbackSet') = Items(awaitingExecution)
      /\ Items(awaitingExecution') = <<>>
  BY <1>1, EmptyNumbered DEF Items
<1>3. Pieces'
  BY <1>1, <1>2, EmptyNumbered, Lengths DEF IInv, Pieces
<1> QED BY <1>1, <1>3 DEF IInv, OneTimer

\* What the loop still has to run after the next callback.
Rest == Tail(thisCallbackSet)

\* One callback moves from the loop to those that ran.
LEMMA ExecuteInv ==
  ASSUME IInv, NEW n \in Nat, Execute(n)
  PROVE  /\ Numbered(executed', 0) /\ Len(executed') = Len(executed) + 1
         /\ Numbered(Rest, Len(executed'))
         /\ Len(Rest) = Len(Items(thisCallbackSet)) - 1
         /\ Numbered(Items(DetachAll(n).queue), Len(executed') + Len(Rest))
         /\ Len(Items(DetachAll(n).queue)) = Len(Items(awaitingExecution)) + n
         /\ DetachAll(n).timers = IF DetachAll(n).queue = Null THEN 0 ELSE 1
         /\ detached' = detached + n /\ detached' \in 0..MaxDetached
<1>1. Items(thisCallbackSet) = thisCallbackSet /\ thisCallbackSet # <<>>
  BY DEF Execute, Items
<1>2. /\ Head(thisCallbackSet) = Len(executed) + 1
      /\ Numbered(Rest, Len(executed) + 1)
      /\ Len(Rest) = Len(Items(thisCallbackSet)) - 1
  BY <1>1, Lengths, TailNumbered DEF IInv, Pieces, Rest
<1>3. executed' = Append(executed, 0 + Len(executed) + 1)
  BY <1>2, Lengths DEF Execute
<1>4. Numbered(executed', 0) /\ Len(executed') = Len(executed) + 1
  BY <1>3, Lengths, AppendNumbered, AppendProperties DEF IInv, Pieces
<1>5. Len(executed') + Len(Rest) = Len(executed) + Len(Items(thisCallbackSet))
  BY <1>2, <1>4, Lengths
<1>6. /\ Numbered(Items(DetachAll(n).queue), Len(executed') + Len(Rest))
      /\ Len(Items(DetachAll(n).queue)) = Len(Items(awaitingExecution)) + n
      /\ DetachAll(n).timers = IF DetachAll(n).queue = Null THEN 0 ELSE 1
  BY <1>5, Lengths, DetachNumbered DEF IInv, Pieces
<1>7. detached' = detached + n /\ detached' \in 0..MaxDetached
  BY BoundsAssumption DEF Execute, IInv, Pieces
<1> QED BY <1>2, <1>4, <1>6, <1>7

LEMMA ReturnsInv == ASSUME IInv, NEW n \in Nat, CallbackReturns(n) PROVE IInv'
<1>1. /\ Execute(n) /\ thisCallbackSet' = Rest
      /\ awaitingExecution' = DetachAll(n).queue /\ timers' = DetachAll(n).timers
  BY DEF CallbackReturns, Rest
<1>2. Rest # Null
  BY <1>1, ExecuteInv, NullAssumption DEF Numbered
<1>3. Items(thisCallbackSet') = Rest
  BY <1>1, <1>2 DEF Items
<1>4. /\ Numbered(executed', 0)
      /\ Numbered(Items(thisCallbackSet'), Len(executed'))
      /\ Numbered(Items(awaitingExecution'), Len(executed') + Len(Items(thisCallbackSet')))
      /\ detached' \in 0..MaxDetached
  BY <1>1, <1>3, ExecuteInv
<1>5. /\ Len(executed') = Len(executed) + 1
      /\ Len(Items(thisCallbackSet')) = Len(Items(thisCallbackSet)) - 1
      /\ Len(Items(awaitingExecution')) = Len(Items(awaitingExecution)) + n
      /\ detached' = detached + n
  BY <1>1, <1>3, ExecuteInv
<1>6. detached' = Len(executed') + Len(Items(thisCallbackSet')) + Len(Items(awaitingExecution'))
  BY <1>5, Lengths DEF IInv, Pieces
<1> QED BY <1>1, <1>4, <1>6, ExecuteInv DEF IInv, Pieces, OneTimer

\* The callbacks behind the one that threw go back in front of what waits.
LEMMA ThrowsInv == ASSUME IInv, NEW n \in Nat, CallbackThrows(n) PROVE IInv'
<1> DEFINE q == DetachAll(n).queue
<1>1. /\ Execute(n) /\ thisCallbackSet' = Null
      /\ awaitingExecution' = Rest \o Items(q)
      /\ timers' = IF q = Null THEN DetachAll(n).timers + 1 ELSE DetachAll(n).timers
  BY DEF CallbackThrows, Requeue, Items, Rest
<1>2. /\ Numbered(awaitingExecution', Len(executed'))
      /\ Len(awaitingExecution') = Len(Rest) + Len(Items(q))
  <2>1. Len(executed') \in Nat
    BY <1>1, ExecuteInv, Lengths
  <2> QED BY <1>1, <2>1, ExecuteInv, ConcatNumbered
<1>3. awaitingExecution' # Null
  BY <1>2, NullAssumption DEF Numbered
<1>4. Items(awaitingExecution') = awaitingExecution' /\ Items(thisCallbackSet') = <<>>
  BY <1>1, <1>3 DEF Items
<1>5. OneTimer'
  BY <1>1, <1>3, ExecuteInv DEF OneTimer
<1>6. Numbered(<<>>, Len(executed')) /\ Len(<<>>) = 0
  BY <1>1, ExecuteInv, Lengths, EmptyNumbered
<1>7. /\ Numbered(executed', 0) /\ Len(executed') = Len(executed) + 1
      /\ detached' = detached + n /\ detached' \in 0..MaxDetached
      /\ Len(Rest) = Len(Items(thisCallbackSet)) - 1
      /\ Len(Items(q)) = Len(Items(awaitingExecution)) + n
  BY <1>1, ExecuteInv
<1>8. Numbered(awaitingExecution', Len(executed') + 0)
  BY <1>2, <1>7, Lengths
<1>9. detached' = Len(executed') + 0 + Len(awaitingExecution')
  BY <1>2, <1>7, Lengths DEF IInv, Pieces
<1>10. Pieces'
  BY <1>4, <1>6, <1>7, <1>8, <1>9 DEF Pieces
<1> QED BY <1>5, <1>10 DEF IInv

LEMMA LoopEndsInv == ASSUME IInv, LoopEnds PROVE IInv'
<1>1. Items(thisCallbackSet) = <<>> /\ Items(thisCallbackSet') = <<>>
  BY DEF LoopEnds, Items
<1> QED BY <1>1 DEF LoopEnds, IInv, Pieces, OneTimer

LEMMA NextInv == IInv /\ [Next]_vars => IInv'
<1> SUFFICES ASSUME IInv, [Next]_vars PROVE IInv'
  OBVIOUS
<1>1. \A n \in 0..MaxPerCallback : n \in Nat
  BY BoundsAssumption
<1>2. CASE UNCHANGED vars
  BY <1>2 DEF vars, IInv, Pieces, OneTimer
<1> QED BY <1>1, <1>2, DetachInv, RunCallbacksInv, ReturnsInv, ThrowsInv, LoopEndsInv DEF Next, Run

LEMMA InvHolds == Spec => []IInv
  BY InitInv, NextInv, PTL DEF Spec

-----------------------------------------------------------------------------
\* Callbacks run in the order in which they were detached, none twice and none
\* left out, although any of them may throw in the middle of runCallbacks and
\* detach others before that.
THEOREM RunInOrderHolds == Spec => []RunInOrder
<1>1. IInv => RunInOrder
  <2> SUFFICES ASSUME IInv PROVE RunInOrder
    OBVIOUS
  <2>1. executed \in Seq(Nat) /\ \A i \in 1..Len(executed) : executed[i] = i
    BY DEF IInv, Pieces, Numbered
  <2> QED BY <2>1, LenProperties DEF RunInOrder
<1> QED BY <1>1, InvHolds, PTL

\* setTimeout has exactly one call of runCallbacks pending while callbacks wait
\* in awaitingExecution, and none otherwise.
THEOREM OneTimerHolds == Spec => []OneTimer
<1>1. IInv => OneTimer
  BY DEF IInv
<1> QED BY <1>1, InvHolds, PTL

\* A numbered piece of 1..detached.
LEMMA PieceType ==
  ASSUME IInv, NEW s, NEW from \in Nat, Numbered(s, from), from + Len(s) <= detached
  PROVE  s \in Seq(1..detached)
<1>1. s \in Seq(Nat) /\ detached \in Nat /\ \A i \in 1..Len(s) : s[i] \in 1..detached
  BY LenProperties, BoundsAssumption DEF Numbered, IInv, Pieces
<1> QED BY <1>1, LenProperties

\* Only callbacks that were detached are in the queue, in the loop or have run.
THEOREM TypeCorrect == Spec => []TypeOK
<1>1. IInv => TypeOK
  <2> SUFFICES ASSUME IInv PROVE TypeOK
    OBVIOUS
  <2>1. /\ executed \in Seq(1..detached)
        /\ Items(thisCallbackSet) \in Seq(1..detached)
        /\ Items(awaitingExecution) \in Seq(1..detached)
    BY PieceType, Lengths DEF IInv, Pieces
  <2>2. /\ awaitingExecution = Null \/ awaitingExecution = Items(awaitingExecution)
        /\ thisCallbackSet = Null \/ thisCallbackSet = Items(thisCallbackSet)
    BY DEF Items
  <2>3. timers \in 0..1 /\ detached \in 0..MaxDetached
    BY DEF IInv, Pieces, OneTimer
  <2> QED BY <2>1, <2>2, <2>3 DEF TypeOK
<1> QED BY <1>1, InvHolds, PTL

=============================================================================
