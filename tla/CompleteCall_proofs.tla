------------------------- MODULE CompleteCall_proofs -------------------------
(***************************************************************************)
(* Proofs about AnyTransportCall for transports that make their upcalls    *)
(* one after the other and responses whose messages all deserialize: no    *)
(* gap in what a message callback hears, and what an OK means.             *)
(*                                                                         *)
(* Both assumptions are needed.  A re-entrant transport lets the end       *)
(* overtake the callbacks of a message, and a message that does not        *)
(* deserialize takes the rest of its chunk with it, the trailers included: *)
(* then the headers' OK is reported (the run UndecodableMessage).          *)
(***************************************************************************)
EXTENDS AnyTransportCall_proofs

\* The messages 1 to v.
FirstMessages(v) == [n \in 1..v |-> n]

NoneBad == \A n \in 1..Len(LeftOf(stack)) : LeftOf(stack)[n].type # "bad"

\* Before start nothing has happened, and every callback registered is early.
Unstarted ==
  ~started =>
    /\ stack = <<>> /\ arrived = 0 /\ early["message"] = callbacks["message"]
    /\ \A i \in Callbacks("message") : Heard(i) = <<>>

\* A callback hears nothing before it is registered, and a loop leaves out the
\* callbacks registered after it has started.
Registered ==
  /\ early["message"] <= callbacks["message"]
  /\ \A i \in Callbacks("message") : i > callbacks["message"] => Heard(i) = <<>>
  /\ MessageLoop =>
       /\ early["message"] <= stack[2].last /\ stack[2].last <= callbacks["message"]
       /\ \A i \in Callbacks("message") : i > stack[2].last => Heard(i) = <<>>

\* While messages are delivered, whoever has heard one has heard the last one
\* it can have heard, and an early callback has heard them all.
UpToDate ==
  ~closed /\ ~completed =>
    /\ \A i \in Callbacks("message") : Heard(i) # <<>> => Heard(i)[Len(Heard(i))] = Upto(i)
    /\ \A i \in 1..early["message"] : Heard(i) = FirstMessages(Upto(i))

MessagesInv == NoneBad /\ Unstarted /\ Registered /\ UpToDate /\ NoGapNoRepeat

-----------------------------------------------------------------------------
(* Sequences *)

LEMMA FirstNone == FirstMessages(0) = <<>>
<1>1. FirstMessages(0) \in Seq(Nat) /\ Len(FirstMessages(0)) = 0
  BY DEF FirstMessages
<1> QED BY <1>1, EmptySeq

LEMMA FirstNext ==
  ASSUME NEW v \in Nat
  PROVE  Append(FirstMessages(v), v + 1) = FirstMessages(v + 1)
<1> DEFINE f == FirstMessages(v)
           g == FirstMessages(v + 1)
           a == Append(f, v + 1)
<1>1. f \in Seq(Nat) /\ Len(f) = v /\ \A n \in 1..v : f[n] = n
  BY DEF FirstMessages
<1>2. g \in Seq(Nat) /\ Len(g) = v + 1 /\ \A n \in 1..(v + 1) : g[n] = n
  BY DEF FirstMessages
<1> HIDE DEF f, g
<1>3. a \in Seq(Nat) /\ Len(a) = v + 1 /\ a[v + 1] = v + 1 /\ \A n \in 1..v : a[n] = f[n]
  BY <1>1, AppendProperties
<1> HIDE DEF a
<1>4. \A n \in 1..(v + 1) : a[n] = g[n]
  BY <1>1, <1>2, <1>3
<1>5. a = g
  BY <1>2, <1>3, <1>4, SeqEqual
<1> QED BY <1>5 DEF a, f, g

LEMMA AppendNoGap ==
  ASSUME NEW m \in Seq(Nat), \A n \in 1..(Len(m) - 1) : m[n + 1] = m[n] + 1,
         NEW v \in Nat, m # <<>> => m[Len(m)] = v - 1,
         NEW a, a = Append(m, v)
  PROVE  \A n \in 1..(Len(a) - 1) : a[n + 1] = a[n] + 1
<1>1. /\ Len(m) \in Nat /\ Len(a) = Len(m) + 1
      /\ \A n \in 1..Len(m) : a[n] = m[n]
      /\ a[Len(m) + 1] = v
  BY AppendProperties, LenProperties
<1>2. m = <<>> => Len(m) = 0
  BY EmptySeq
<1> SUFFICES ASSUME NEW n \in 1..Len(m) PROVE a[n + 1] = a[n] + 1
  BY <1>1
<1>3. CASE n < Len(m)
  BY <1>1, <1>3
<1>4. CASE n = Len(m)
  <2>1. m[n] = v - 1
    BY <1>2, <1>4
  <2>2. a[n] = m[n] /\ a[n + 1] = v
    BY <1>1, <1>4
  <2> QED BY <2>1, <2>2
<1> QED BY <1>1, <1>3, <1>4

-----------------------------------------------------------------------------
(* What a step may do to the messages *)

LEMMA Counts ==
  ASSUME TypeOK
  PROVE  /\ MaxCallbacks["message"] \in Nat
         /\ callbacks["message"] \in Nat /\ callbacks["message"] <= MaxCallbacks["message"]
         /\ early["message"] \in Nat /\ early["message"] <= MaxCallbacks["message"]
  BY ClientAssumption DEF TypeOK, ClientTypeOK, Kinds

LEMMA LoopOnTop ==
  ASSUME TypeOK, MessageLoop
  PROVE  stack[2] \in LoopFrame /\ stack[2].next \in Nat /\ stack[2].last \in Nat
<1>1. stack[2] \in Frame /\ stack[2].do = "message"
  <2>1. stack \in Seq(Frame) /\ Len(stack) = 2 /\ 2 \in 1..Len(stack)
    BY DEF TypeOK, ClientTypeOK, MessageLoop
  <2> QED BY <2>1, ElementOfSeq DEF MessageLoop
<1> QED BY <1>1 DEF Frame, LoopFrame, ChunkFrame, FailFrame

LEMMA StillMessages ==
  ASSUME MessagesInv, Still, NoneBad', started, UNCHANGED <<flags, callbacks, early>>,
         completed => completed'
  PROVE  MessagesInv'
<1>1. /\ \A i : Heard(i)' = Heard(i)
      /\ ~MessageLoop /\ ~MessageLoop' /\ started' /\ closed' = closed
  BY DEF Still, Heard, flags
<1>2. NoGapNoRepeat'
  BY <1>1 DEF MessagesInv, NoGapNoRepeat, Heard
<1>3. Unstarted' /\ Registered'
  BY <1>1 DEF MessagesInv, Unstarted, Registered
<1>4. UpToDate'
  <2>1. ~closed' /\ ~completed' => ~closed /\ ~completed /\ Taken' = Taken
    BY <1>1 DEF Still
  <2>2. \A i : Upto(i) = Taken /\ Upto(i)' = Taken'
    BY <1>1 DEF Upto
  <2> QED BY <1>1, <2>1, <2>2 DEF MessagesInv, UpToDate
<1> QED BY <1>2, <1>3, <1>4 DEF MessagesInv

LEMMA StartsMessages ==
  ASSUME TypeOK, InOrder, MessagesInv, NoneBad', ~MessageLoop, MessageLoop', started,
         Taken' = Taken + 1, stack'[2].next = 1, stack'[2].last = callbacks["message"],
         UNCHANGED <<flags, completed, callbacks, early, heard>>
  PROVE  MessagesInv'
<1>1. (\A i : Heard(i)' = Heard(i)) /\ started' /\ closed' = closed
  BY DEF Heard, flags
<1>2. NoGapNoRepeat'
  BY <1>1 DEF MessagesInv, NoGapNoRepeat, Heard
<1>3. Unstarted'
  BY <1>1 DEF Unstarted
<1>4. Registered'
  <2>1. callbacks["message"] <= callbacks["message"] /\ early["message"] <= callbacks["message"]
    BY Counts DEF MessagesInv, Registered
  <2> QED BY <1>1, <2>1 DEF MessagesInv, Registered
<1>5. UpToDate'
  <2>1. Taken \in Nat
    BY DEF InOrder
  <2>2. \A i \in Nat \ {0} : Upto(i) = Taken /\ Upto(i)' = Taken
    BY <2>1 DEF Upto
  <2>3. Callbacks("message") \subseteq Nat \ {0} /\ 1..early["message"] \subseteq Nat \ {0}
    BY ClientAssumption DEF Callbacks
  <2> QED BY <1>1, <2>2, <2>3 DEF MessagesInv, UpToDate
<1> QED BY <1>2, <1>3, <1>4, <1>5 DEF MessagesInv

LEMMA SameMessages ==
  ASSUME MessagesInv, started, heard'["message"] = heard["message"],
         UNCHANGED <<flags, completed, callbacks, early, arrived>>,
         LeftOf(stack') = LeftOf(stack), MessageLoop' <=> MessageLoop,
         MessageLoop => stack'[2].last = stack[2].last /\ stack'[2].next = stack[2].next
  PROVE  MessagesInv'
<1>1. (\A i : Heard(i)' = Heard(i)) /\ started' /\ closed' = closed /\ Taken' = Taken
  BY DEF Heard, flags, Taken
<1>2. \A i : Upto(i)' = Upto(i)
  BY <1>1 DEF Upto
<1>3. NoGapNoRepeat'
  BY <1>1 DEF MessagesInv, NoGapNoRepeat, Heard
<1>4. Unstarted' /\ Registered' /\ NoneBad'
  BY <1>1 DEF MessagesInv, Unstarted, Registered, NoneBad
<1>5. UpToDate'
  BY <1>1, <1>2 DEF MessagesInv, UpToDate
<1> QED BY <1>3, <1>4, <1>5 DEF MessagesInv

\* The message loop ends: it has reached every callback it is about, or the
\* call is closed.
LEMMA EndsMessages ==
  ASSUME TypeOK, InOrder, MessagesInv, started, MessageLoop, ~MessageLoop',
         Taken' = Taken, LeftOf(stack') = LeftOf(stack),
         stack[2].next \in Nat, stack[2].last \in Nat,
         stack[2].next > stack[2].last \/ closed,
         UNCHANGED <<flags, completed, callbacks, early, heard>>
  PROVE  MessagesInv'
<1>1. (\A i : Heard(i)' = Heard(i)) /\ started' /\ closed' = closed
  BY DEF Heard, flags
<1>2. NoGapNoRepeat'
  BY <1>1 DEF MessagesInv, NoGapNoRepeat, Heard
<1>3. Unstarted' /\ Registered' /\ NoneBad'
  BY <1>1 DEF MessagesInv, Unstarted, Registered, NoneBad
<1>4. UpToDate'
  <2> SUFFICES ASSUME ~closed, ~completed PROVE UpToDate'
    BY <1>1 DEF UpToDate
  <2>1. \A i : Upto(i)' = Taken
    BY DEF Upto
  <2>2. \A i \in Nat : i <= stack[2].last => Upto(i) = Taken
    BY DEF Upto
  <2>3. Callbacks("message") \subseteq Nat /\ 1..early["message"] \subseteq Nat
    BY ClientAssumption DEF Callbacks
  <2>4. \A i \in Callbacks("message") : Heard(i) # <<>> => Upto(i) = Taken
    <3>1. \A i \in Callbacks("message") : i > stack[2].last => Heard(i) = <<>>
      BY DEF MessagesInv, Registered
    <3> QED BY <2>2, <2>3, <3>1
  <2>5. \A i \in 1..early["message"] : Upto(i) = Taken
    <3>1. early["message"] <= stack[2].last
      BY DEF MessagesInv, Registered
    <3> QED BY <2>2, <3>1, Counts
  <2> QED BY <1>1, <2>1, <2>4, <2>5 DEF MessagesInv, UpToDate
<1> QED BY <1>2, <1>3, <1>4 DEF MessagesInv

\* The message loop calls its next callback.
LEMMA HeardMessages ==
  ASSUME TypeOK, InOrder, MessagesInv, started, ~closed, ~completed,
         MessageLoop, MessageLoop', UNCHANGED <<flags, completed, callbacks, early, arrived>>,
         LeftOf(stack') = LeftOf(stack), NEW k \in Callbacks("message"), k = stack[2].next,
         stack[2].last \in Nat, k <= stack[2].last,
         heard'["message"] = [heard["message"] EXCEPT ![k] = Append(heard["message"][k], Taken)],
         stack'[2].last = stack[2].last, stack'[2].next = k + 1
  PROVE  MessagesInv'
<1>1. /\ \A i \in Callbacks("message") : i # k => Heard(i)' = Heard(i)
      /\ Heard(k)' = Append(Heard(k), Taken)
      /\ started' /\ closed' = closed
  BY DEF Heard, flags, TypeOK, ClientTypeOK, Callbacks, Kinds
<1>2. Taken' = Taken /\ Taken \in Nat /\ Taken > 0 /\ Heard(k) \in Seq(Nat)
  BY DEF Taken, InOrder
<1>3. k \in Nat \ {0} /\ Callbacks("message") \subseteq Nat
  BY ClientAssumption DEF Callbacks
<1>4. Upto(k) = Taken - 1 /\ Upto(k)' = Taken
  BY <1>2, <1>3 DEF Upto
<1>5. \A i \in Callbacks("message") : i # k => Upto(i)' = Upto(i)
  BY <1>2, <1>3 DEF Upto
<1>6. Heard(k) # <<>> => Heard(k)[Len(Heard(k))] = Taken - 1
  BY <1>4 DEF MessagesInv, UpToDate
<1>7. NoGapNoRepeat'
  <2>1. ASSUME NEW i \in Callbacks("message")
        PROVE  \A n \in 1..(Len(Heard(i)') - 1) : Heard(i)'[n + 1] = Heard(i)'[n] + 1
    <3>1. \A n \in 1..(Len(Heard(i)) - 1) : Heard(i)[n + 1] = Heard(i)[n] + 1
      BY DEF MessagesInv, NoGapNoRepeat, Heard
    <3>2. CASE i = k
      <4>1. \A n \in 1..(Len(Heard(k)) - 1) : Heard(k)[n + 1] = Heard(k)[n] + 1
        BY <3>1, <3>2
      <4>2. \A n \in 1..(Len(Heard(k)') - 1) : Heard(k)'[n + 1] = Heard(k)'[n] + 1
        <5>1. ASSUME NEW a, a = Append(Heard(k), Taken)
              PROVE  \A n \in 1..(Len(a) - 1) : a[n + 1] = a[n] + 1
          BY <1>2, <1>6, <4>1, <5>1, AppendNoGap
        <5> QED BY <1>1, <5>1
      <4> QED BY <3>2, <4>2
    <3>3. CASE i # k
      BY <1>1, <3>1, <3>3
    <3> QED BY <3>2, <3>3
  <2> QED BY <2>1 DEF NoGapNoRepeat, Heard, Callbacks
<1>8. Unstarted' /\ NoneBad'
  BY <1>1 DEF MessagesInv, Unstarted, NoneBad
<1>9. Registered'
  <2>1. /\ early["message"] <= callbacks["message"]
        /\ early["message"] <= stack[2].last /\ stack[2].last <= callbacks["message"]
        /\ \A i \in Callbacks("message") : i > stack[2].last => Heard(i) = <<>>
    BY DEF MessagesInv, Registered
  <2>2. \A i \in Callbacks("message") : i > stack[2].last => i # k /\ Heard(i)' = <<>>
    BY <1>1, <1>3, <2>1
  <2>3. \A i \in Callbacks("message") : i > callbacks["message"] => i > stack[2].last
    BY <1>3, <2>1, Counts
  <2> QED BY <2>1, <2>2, <2>3 DEF Registered, Callbacks
<1>10. UpToDate'
  <2>1. ASSUME NEW i \in Callbacks("message"), Heard(i)' # <<>>
        PROVE  Heard(i)'[Len(Heard(i)')] = Upto(i)'
    <3>1. CASE i = k
      <4>1. Heard(k)'[Len(Heard(k)')] = Taken
        BY <1>1, <1>2, AppendProperties, LenProperties
      <4> QED BY <1>4, <3>1, <4>1
    <3>2. CASE i # k
      BY <1>1, <1>5, <2>1, <3>2 DEF MessagesInv, UpToDate
    <3> QED BY <3>1, <3>2
  <2>2. ASSUME NEW i \in 1..early["message"]
        PROVE  Heard(i)' = FirstMessages(Upto(i)')
    <3>1. i \in Callbacks("message")
      BY Counts, ClientAssumption DEF Callbacks
    <3>2. Heard(i) = FirstMessages(Upto(i))
      BY DEF MessagesInv, UpToDate
    <3>3. CASE i = k
      <4>1. Taken - 1 \in Nat /\ (Taken - 1) + 1 = Taken
        BY <1>2
      <4>2. Append(FirstMessages(Taken - 1), Taken) = FirstMessages(Taken)
        BY <4>1, FirstNext
      <4> QED BY <1>1, <1>4, <3>2, <3>3, <4>2
    <3>4. CASE i # k
      BY <1>1, <1>5, <3>1, <3>2, <3>4
    <3> QED BY <3>3, <3>4
  <2> QED BY <2>1, <2>2 DEF UpToDate, Callbacks
<1> QED BY <1>7, <1>8, <1>9, <1>10 DEF MessagesInv

-----------------------------------------------------------------------------
(* Steps of the application *)

LEMMA BeforeStart ==
  ASSUME TypeOK, TypeOK', MessagesInv, ~started, UNCHANGED <<stack, heard, arrived>>,
         early' = callbacks'
  PROVE  MessagesInv'
<1>1. /\ stack = <<>> /\ arrived = 0 /\ stack' = <<>> /\ arrived' = 0
      /\ \A i \in Callbacks("message") : Heard(i)' = <<>>
  BY DEF MessagesInv, Unstarted, Heard
<1>2. /\ LeftOf(stack') = <<>> /\ ~MessageLoop' /\ Taken' = 0
  <2>1. Len(stack') = 0
    BY <1>1, EmptySeq
  <2> QED BY <1>1, <2>1, NothingLeft DEF LeftOf, MessageLoop, Taken
<1>3. NoneBad' /\ NoGapNoRepeat'
  <2>1. Len(<<>>) = 0
    BY EmptySeq
  <2> QED BY <1>1, <1>2, <2>1 DEF NoneBad, NoGapNoRepeat, Heard, Callbacks
<1>4. Unstarted' /\ Registered'
  <2>1. callbacks'["message"] \in Nat
    BY ClientAssumption DEF TypeOK, ClientTypeOK, Kinds
  <2> QED BY <1>1, <1>2, <2>1 DEF Unstarted, Registered, Callbacks
<1>5. UpToDate'
  <2>1. \A i : Upto(i)' = 0
    BY <1>2 DEF Upto
  <2>2. \A i \in 1..early'["message"] : i \in Callbacks("message")
    <3>1. MaxCallbacks["message"] \in Nat
      BY ClientAssumption DEF Kinds
    <3>2. callbacks'["message"] \in 0..MaxCallbacks["message"]
      BY DEF TypeOK, ClientTypeOK, Kinds
    <3> QED BY <3>1, <3>2 DEF Callbacks
  <2>3. \A i \in Callbacks("message") : Heard(i)' = <<>> /\ FirstMessages(Upto(i))' = <<>>
    BY <1>1, <2>1, FirstNone DEF FirstMessages
  <2>4. Callbacks("message")' = Callbacks("message")
    BY DEF Callbacks
  <2> QED BY <2>2, <2>3, <2>4 DEF UpToDate
<1> QED BY <1>3, <1>4, <1>5 DEF MessagesInv

LEMMA AfterStart ==
  ASSUME TypeOK, TypeOK', MessagesInv, started, started', closed => closed',
         UNCHANGED <<stack, heard, arrived, completed, early>>,
         callbacks'["message"] >= callbacks["message"]
  PROVE  MessagesInv'
<1>1. /\ \A i : Heard(i)' = Heard(i)
      /\ LeftOf(stack') = LeftOf(stack) /\ MessageLoop' = MessageLoop /\ Taken' = Taken
      /\ \A i : Upto(i)' = Upto(i)
  BY DEF Heard, LeftOf, MessageLoop, Taken, Upto
<1>2. NoneBad' /\ NoGapNoRepeat' /\ Unstarted'
  BY <1>1 DEF MessagesInv, NoneBad, NoGapNoRepeat, Unstarted, Heard, Callbacks
<1>3. Registered'
  <2>1. callbacks'["message"] \in Nat
    BY ClientAssumption DEF TypeOK, ClientTypeOK, Kinds
  <2>2. /\ early["message"] <= callbacks["message"]
        /\ \A i \in Callbacks("message") : i > callbacks["message"] => Heard(i) = <<>>
    BY DEF MessagesInv, Registered
  <2>3. early'["message"] <= callbacks'["message"]
    BY <2>1, <2>2, Counts
  <2>4. \A i \in Callbacks("message") : i > callbacks'["message"] => Heard(i)' = <<>>
    <3>1. Callbacks("message") \subseteq Nat
      BY ClientAssumption DEF Callbacks
    <3> QED BY <1>1, <2>1, <2>2, <3>1, Counts
  <2>5. ASSUME MessageLoop'
        PROVE  /\ early'["message"] <= stack'[2].last /\ stack'[2].last <= callbacks'["message"]
               /\ \A i \in Callbacks("message") : i > stack'[2].last => Heard(i)' = <<>>
    <3>1. /\ early["message"] <= stack[2].last /\ stack[2].last <= callbacks["message"]
          /\ \A i \in Callbacks("message") : i > stack[2].last => Heard(i) = <<>>
      BY <1>1, <2>5 DEF MessagesInv, Registered
    <3>2. stack[2].last \in Nat
      BY <1>1, <2>5, LoopOnTop
    <3> QED BY <1>1, <2>1, <3>1, <3>2, Counts
  <2> QED BY <2>3, <2>4, <2>5 DEF Registered, Callbacks
<1>4. UpToDate'
  BY <1>1 DEF MessagesInv, UpToDate, Callbacks
<1> QED BY <1>2, <1>3, <1>4 DEF MessagesInv

LEMMA ApplicationMessages ==
  ASSUME TypeOK, TypeOK', MessagesInv, Application
  PROVE  MessagesInv'
<1>1. UNCHANGED <<stack, heard, arrived, completed>>
  BY DEF Application, Register, Start, Close, Send, FinishSend, transportVars
<1>2. CASE ~started
  <2>1. early' = callbacks'
    BY <1>2 DEF Application
  <2> QED BY <1>1, <1>2, <2>1, BeforeStart
<1>3. CASE started
  <2>1. early' = early
    BY <1>3 DEF Application
  <2>2. started' /\ (closed => closed')
    <3>1. ASSUME NEW k \in Kinds, Register(k) PROVE started' = started /\ closed' = closed
      BY <3>1 DEF Register, flags
    <3>2. Start => started' = TRUE /\ closed' = closed
      BY DEF Start
    <3>3. Close => started' = started /\ closed' = TRUE
      BY DEF Close
    <3>4. Send \/ FinishSend => started' = started /\ closed' = closed
      BY DEF Send, FinishSend
    <3>5. (started' = started \/ started' = TRUE) /\ (closed' = closed \/ closed' = TRUE)
      BY <3>1, <3>2, <3>3, <3>4 DEF Application
    <3>6. started'
      BY <1>3, <3>5
    <3>7. closed => closed'
      BY <3>5
    <3> QED BY <3>6, <3>7
  <2>3. callbacks'["message"] >= callbacks["message"]
    <3>1. callbacks["message"] \in Nat /\ DOMAIN callbacks = Kinds
      BY Counts DEF TypeOK, ClientTypeOK
    <3>2. ASSUME NEW k \in Kinds, Register(k)
          PROVE  callbacks'["message"] >= callbacks["message"]
      BY <3>1, <3>2 DEF Register, Kinds
    <3>3. (\E k \in Kinds : Register(k)) \/ UNCHANGED callbacks
      BY DEF Application, Start, Close, Send, FinishSend
    <3> QED BY <3>1, <3>2, <3>3
  <2> QED BY <1>1, <1>3, <2>1, <2>2, <2>3, AfterStart
<1> QED BY <1>2, <1>3

-----------------------------------------------------------------------------
(* Steps of the call *)

LEMMA JoinNotBad ==
  ASSUME NEW items \in Seq(Item), \A i \in 1..Len(items) : items[i].type # "bad",
         NEW trailers \in Seq(Item), \A i \in 1..Len(trailers) : trailers[i].type # "bad",
         NEW data, data = items \o trailers
  PROVE  \A n \in 1..Len(data) : data[n].type # "bad"
<1>1. /\ Len(data) = Len(items) + Len(trailers)
      /\ \A i \in 1..(Len(items) + Len(trailers)) :
           data[i] = IF i <= Len(items) THEN items[i] ELSE trailers[i - Len(items)]
  BY ConcatProperties, Zenon
<1>2. Len(items) \in Nat /\ Len(trailers) \in Nat
  BY LenProperties
<1> QED BY <1>1, <1>2

LEMMA ChunkNotBad ==
  ASSUME ~BadMessages, arrived \in Nat, NEW run \in MessageRuns, NEW trailers \in Trailers,
         NEW data,
         data = [i \in DOMAIN run |-> [type |-> run[i], val |-> arrived + i]] \o trailers
  PROVE  \A n \in 1..Len(data) : data[n].type # "bad"
<1> DEFINE items == [i \in DOMAIN run |-> [type |-> run[i], val |-> arrived + i]]
<1>1. PICK n \in 0 .. MaxMessages - arrived : run \in [1..n -> {"message"}]
  BY TransportAssumption DEF MessageRuns
<1>2. items \in Seq(Item) /\ Len(items) = n /\ \A i \in 1..n : items[i].type # "bad"
  <2>1. \A i \in 1..n : [type |-> run[i], val |-> arrived + i] \in Item
    BY <1>1 DEF Item
  <2> QED BY <1>1, <2>1
<1>3. trailers \in Seq(Item) /\ \A i \in 1..Len(trailers) : trailers[i].type # "bad"
  <2>1. CASE trailers = <<>>
    BY <2>1
  <2>2. CASE trailers # <<>>
    <3>1. PICK g \in TrailerStatuses : trailers = <<[type |-> "trailers", val |-> g]>>
      BY <2>2 DEF Trailers
    <3>2. g \in Status /\ [type |-> "trailers", val |-> g] \in Item
      BY TransportAssumption DEF Item
    <3> QED BY <3>1, <3>2
  <2> QED BY <2>1, <2>2
<1>4. data = items \o trailers
  OBVIOUS
<1> HIDE DEF items
<1> QED BY <1>2, <1>3, <1>4, JoinNotBad

LEMMA NothingBad == ASSUME LeftOf(stack') = <<>> PROVE NoneBad'
  BY EmptySeq DEF NoneBad

LEMMA ItemMessages ==
  ASSUME CallInv, MessagesInv, started, ProcessItem, UNCHANGED <<arrived, early>>
  PROVE  MessagesInv'
<1> DEFINE d == Head(Top.data)
           left == Tail(Top.data)
<1>1. ClientTypeOK /\ SeqInv /\ InOrder
  BY DEF CallInv, TypeOK, SeqInv
<1>2. /\ Top.data \in Seq(Item) /\ LeftOf(stack) = Top.data /\ ~MessageLoop
      /\ UNCHANGED <<flags, completed, callbacks, heard>>
      /\ \/ Top.data = <<>> /\ LeftOf(stack') = <<>> /\ ~MessageLoop'
         \/ Top.data # <<>> /\ d.type = "bad"
         \/ /\ Top.data # <<>> /\ d.type = "message" /\ LeftOf(stack') = left
            /\ \/ ~MessageLoop' /\ (completed \/ closed)
               \/ /\ MessageLoop' /\ stack'[2].next = 1
                  /\ stack'[2].last = callbacks["message"]
         \/ Top.data # <<>> /\ d.type = "trailers" /\ LeftOf(stack') = left /\ ~MessageLoop'
  BY <1>1, ItemView
<1>3. NumberedItems(Top.data, Taken) /\ Taken \in Nat /\ Taken = arrived - MessagesIn(Top.data)
  BY <1>1, <1>2 DEF InOrder, Taken
<1>4. Taken' = arrived - MessagesIn(LeftOf(stack'))
  BY DEF Taken
<1>5. CASE Top.data = <<>> /\ LeftOf(stack') = <<>> /\ ~MessageLoop'
  BY <1>2, <1>3, <1>4, <1>5, NothingBad, StillMessages DEF Still
<1>6. CASE Top.data # <<>>
  <2>1. /\ d.type # "trailers" => MessagesIn(left) = MessagesIn(Top.data) - 1
        /\ d.type = "trailers" => MessagesIn(Top.data) = 0 /\ left = <<>>
    BY <1>2, <1>3, <1>6, TailItems
  <2>2. /\ Len(Top.data) \in Nat \ {0} /\ d = Top.data[1] /\ Len(left) = Len(Top.data) - 1
        /\ \A n \in 1..Len(left) : left[n] = Top.data[n + 1]
    BY <1>2, <1>6, EmptySeq, HeadTailProperties
  <2>3. MessagesIn(Top.data) \in Int /\ arrived \in Nat
    BY <1>2, MessagesLeft, TransportAssumption DEF CallInv, TypeOK
  <2> HIDE DEF d, left
  <2>4. d.type # "bad" /\ \A n \in 1..Len(left) : left[n].type # "bad"
    BY <1>2, <2>2 DEF MessagesInv, NoneBad
  <2>5. CASE d.type = "trailers" /\ LeftOf(stack') = left /\ ~MessageLoop'
    <3>1. LeftOf(stack') = <<>> /\ Taken' = Taken
      BY <1>3, <1>4, <2>1, <2>5, NothingLeft
    <3> QED BY <1>2, <2>5, <3>1, NothingBad, StillMessages DEF Still
  <2>6. CASE d.type = "message" /\ LeftOf(stack') = left
    <3>1. NoneBad'
      BY <2>4, <2>6 DEF NoneBad
    <3>2. Taken' = Taken + 1
      BY <1>3, <1>4, <2>1, <2>3, <2>6
    <3>3. CASE ~MessageLoop' /\ (completed \/ closed)
      BY <1>2, <3>1, <3>3, StillMessages DEF Still
    <3>4. CASE MessageLoop' /\ stack'[2].next = 1 /\ stack'[2].last = callbacks["message"]
      BY <1>1, <1>2, <3>1, <3>2, <3>4, StartsMessages DEF CallInv
    <3> QED BY <1>2, <1>6, <2>6, <3>3, <3>4
  <2> QED BY <1>2, <1>6, <2>4, <2>5, <2>6
<1> QED BY <1>2, <1>5, <1>6

LEMMA InvokeMessages ==
  ASSUME CallInv, MessagesInv, started, InvokeCallback, UNCHANGED <<arrived, early>>
  PROVE  MessagesInv'
<1>1. ClientTypeOK /\ SeqInv /\ InOrder /\ Shape /\ TypeOK
  BY DEF CallInv, TypeOK, SeqInv
<1>2. /\ stack # <<>> /\ Top.do \in Kinds /\ Top \in LoopFrame /\ FrameOK(Top)
      /\ Top.next <= Top.last
      /\ UNCHANGED <<flags, completed, callbacks>>
  BY <1>1, LastFrame DEF InvokeCallback, ClientRuns, FrameOK, response
<1> DEFINE top == [Top EXCEPT !.next = Top.next + 1, !.busy = TRUE]
<1>3. /\ top \in Frame /\ top.do = Top.do /\ top.val = Top.val
      /\ top.next = Top.next + 1 /\ top.last = Top.last
  BY <1>2, NextOK DEF LoopFrame, FrameOK
<1>4. stack' = Append(Front(stack), top)
  BY DEF InvokeCallback
<1> HIDE DEF top
<1>5. /\ LeftOf(stack') = LeftOf(stack)
      /\ MessageLoop <=> Top.do = "message"
      /\ MessageLoop' <=> MessageLoop
      /\ MessageLoop => Top = stack[2] /\ stack'[2] = top
  BY <1>1, <1>2, <1>3, <1>4, SameLoops
<1>6. CASE Top.do # "message"
  <2>1. heard'["message"] = heard["message"]
    BY <1>6, RunningLoop DEF Kinds
  <2> QED BY <1>2, <1>5, <1>6, <2>1, SameMessages
<1>7. CASE Top.do = "message"
  <2>1. Top.next \in Callbacks("message") /\ ~completed /\ ~closed
    BY <1>7, RunningLoop DEF InvokeCallback, Skips
  <2>2. Top.val = Taken
    BY <1>1, <1>5, <1>7 DEF InOrder
  <2>3. heard'["message"] = [heard["message"] EXCEPT ![Top.next] =
                               Append(heard["message"][Top.next], Taken)]
    BY <1>1, <1>7, <2>1, <2>2 DEF InvokeCallback, ClientTypeOK, Kinds
  <2>4. Top.last \in Nat
    BY <1>2 DEF LoopFrame
  <2> QED BY <1>1, <1>2, <1>3, <1>5, <1>7, <2>1, <2>3, <2>4, HeardMessages
<1> QED BY <1>6, <1>7

LEMMA ReturnsMessages ==
  ASSUME CallInv, MessagesInv, started, CallbackReturns, UNCHANGED <<arrived, early>>
  PROVE  MessagesInv'
<1>1. ClientTypeOK /\ Shape
  BY DEF CallInv, TypeOK, SeqInv
<1>2. /\ stack # <<>> /\ Top \in LoopFrame /\ Top.do \in Kinds
      /\ UNCHANGED <<flags, completed, callbacks, heard>>
  BY <1>1, LastFrame DEF CallbackReturns, Busy
<1> DEFINE top == [Top EXCEPT !.busy = FALSE]
<1>3. /\ top \in Frame /\ top.do = Top.do /\ top.val = Top.val
      /\ top.next = Top.next /\ top.last = Top.last
  BY <1>2 DEF Frame, LoopFrame
<1>4. stack' = Append(Front(stack), top)
  BY DEF CallbackReturns
<1> HIDE DEF top
<1>5. /\ LeftOf(stack') = LeftOf(stack)
      /\ MessageLoop' <=> MessageLoop
      /\ MessageLoop => Top = stack[2] /\ stack'[2] = top
  BY <1>1, <1>2, <1>3, <1>4, SameLoops
<1> QED BY <1>2, <1>3, <1>5, SameMessages

LEMMA LoopEndsMessages ==
  ASSUME CallInv, MessagesInv, started, LoopEnds, UNCHANGED <<arrived, early>>
  PROVE  MessagesInv'
<1>1. ClientTypeOK /\ SeqInv /\ InOrder /\ TypeOK
  BY DEF CallInv, TypeOK, SeqInv
<1>2. /\ LeftOf(stack') = LeftOf(stack) /\ ~MessageLoop' /\ Taken' = Taken
      /\ MessageLoop <=> Top.do = "message"
      /\ MessageLoop => Top = stack[2]
  BY <1>1, LoopEndsSeq
<1>3. /\ UNCHANGED <<flags, completed, callbacks, heard>>
      /\ Top.next > Top.last \/ Skips(Top)
  BY DEF LoopEnds
<1>4. NoneBad'
  BY <1>2 DEF MessagesInv, NoneBad
<1>5. CASE MessageLoop
  BY <1>1, <1>2, <1>3, <1>5, LoopOnTop, EndsMessages DEF Skips
<1>6. CASE ~MessageLoop
  BY <1>2, <1>3, <1>4, <1>6, StillMessages DEF Still
<1> QED BY <1>5, <1>6

LEMMA NextMessages ==
  ASSUME ~Reentrant, ~BadMessages, CallInv, CallInv', MessagesInv, [Next]_vars
  PROVE  MessagesInv'
<1>1. TypeOK /\ TypeOK' /\ ClientTypeOK /\ SeqInv /\ arrived \in Nat
  BY TransportAssumption DEF CallInv, TypeOK
<1>2. CASE Application
  BY <1>1, <1>2, ApplicationMessages
<1>3. ASSUME NEW h \in HeaderStatuses, NEW s \in HttpStatuses, TransportHeaders(h, s)
      PROVE  MessagesInv'
  <2>1. OnTransportHeaders(h, s) /\ UNCHANGED <<arrived, early>> /\ h \in Status /\ s \in Nat
    BY <1>3, TransportAssumption DEF TransportHeaders
  <2>2. Still /\ LeftOf(stack') = <<>>
    BY <1>1, <2>1, HeadersSeq
  <2>3. started /\ UNCHANGED <<flags, completed, callbacks>>
    BY <2>1 DEF OnTransportHeaders, TransportRuns, clientVars
  <2> QED BY <2>1, <2>2, <2>3, NothingBad, StillMessages
<1>4. ASSUME NEW run \in MessageRuns, NEW trailers \in Trailers, TransportChunk(run, trailers)
      PROVE  MessagesInv'
  <2> DEFINE data == [i \in DOMAIN run |-> [type |-> run[i], val |-> arrived + i]] \o trailers
  <2>1. data \in Seq(Item) /\ \A n \in 1..Len(data) : data[n].type # "bad"
    BY <1>1, ChunkIsItems, ChunkNotBad
  <2>2. MessagesIn(data) = Len(run) /\ NumberedItems(data, arrived)
    BY <1>1, ChunkIsNumbered
  <2>3. OnTransportChunk(data) /\ arrived' = arrived + Len(run) /\ UNCHANGED early
    BY <1>4 DEF TransportChunk
  <2> HIDE DEF data
  <2>4. Still /\ stack = <<>> /\ (~closed => LeftOf(stack') = data)
    BY <1>1, <2>1, <2>2, <2>3, ChunkSeq
  <2>5. started /\ UNCHANGED <<flags, completed, callbacks>> /\ (closed => UNCHANGED stack)
    BY <2>3 DEF OnTransportChunk, TransportRuns, clientVars
  <2>6. NoneBad'
    <3>1. CASE closed
      BY <1>1, <2>4, <2>5, <3>1, AllTaken, NothingBad
    <3>2. CASE ~closed
      BY <2>1, <2>4, <3>2 DEF NoneBad
    <3> QED BY <3>1, <3>2
  <2> QED BY <2>3, <2>4, <2>5, <2>6, StillMessages
<1>5. CASE TransportGarbage \/ TransportEnd
  <2>1. (OnUnparsableChunk \/ OnTransportEnd) /\ UNCHANGED <<arrived, early>>
    BY <1>5 DEF TransportGarbage, TransportEnd
  <2>2. Still /\ LeftOf(stack') = <<>>
    BY <1>1, <2>1, CompleteSeq
  <2>3. started /\ UNCHANGED <<flags, callbacks>>
    BY <2>1 DEF OnUnparsableChunk, OnTransportEnd, TransportRuns, clientVars
  <2>4. completed => completed'
    <3>1. UNCHANGED completed \/ completed' = TRUE
      BY <2>1 DEF OnUnparsableChunk, OnTransportEnd, Complete, clientVars
    <3> QED BY <3>1
  <2> QED BY <2>1, <2>2, <2>3, <2>4, NothingBad, StillMessages
<1>6. CASE Handler \/ Return
  <2>1. UNCHANGED <<arrived, early>>
    BY <1>6 DEF Handler, Return, transportVars
  <2>2. started
    BY <1>6 DEF Handler, HandlerStep, ProcessItem, InvokeCallback, LoopEnds, FailAfterHeaders,
                Return, CallbackReturns, ClientRuns, MessagesInv, Unstarted
  <2>3. CASE FailAfterHeaders
    <3>1. Still /\ LeftOf(stack') = <<>>
      BY <1>1, <2>1, <2>3, FailSeq
    <3>2. UNCHANGED <<flags, callbacks>> /\ (completed => completed')
      BY <2>3 DEF FailAfterHeaders, Complete
    <3> QED BY <2>1, <2>2, <3>1, <3>2, NothingBad, StillMessages
  <2> QED BY <1>6, <2>1, <2>2, <2>3, ItemMessages, InvokeMessages, LoopEndsMessages,
             ReturnsMessages DEF Handler, HandlerStep, Return
<1>7. CASE UNCHANGED vars
  <2>1. UNCHANGED <<stack, completed, heard, flags, callbacks, arrived, early>>
    BY <1>7 DEF vars, clientVars, transportVars
  <2>2. CASE started
    BY <2>1, <2>2, SameMessages DEF MessageLoop
  <2>3. CASE ~started
    <3>1. \A i : Heard(i)' = Heard(i)
      BY <2>1 DEF Heard
    <3> QED BY <2>1, <3>1 DEF MessagesInv, NoneBad, Unstarted, Registered, UpToDate, NoGapNoRepeat,
                              Upto, MessageLoop, Taken, flags, Callbacks
  <2> QED BY <2>2, <2>3
<1> QED BY <1>2, <1>3, <1>4, <1>5, <1>6, <1>7 DEF Next

LEMMA InitMessages == Init => MessagesInv
<1> SUFFICES ASSUME Init PROVE MessagesInv
  OBVIOUS
<1>1. /\ stack = <<>> /\ arrived = 0 /\ early = callbacks /\ callbacks["message"] = 0
      /\ \A i \in Callbacks("message") : Heard(i) = <<>>
  BY DEF Init, ClientInit, Kinds, Heard, Callbacks
<1>2. LeftOf(stack) = <<>> /\ ~MessageLoop
  <2>1. Len(stack) = 0
    BY <1>1, EmptySeq
  <2> QED BY <2>1 DEF LeftOf, MessageLoop
<1>3. Len(<<>>) = 0
  BY EmptySeq
<1>4. NoneBad /\ Unstarted /\ Registered /\ NoGapNoRepeat
  BY <1>1, <1>2, <1>3 DEF NoneBad, Unstarted, Registered, NoGapNoRepeat, Heard
<1>5. UpToDate
  BY <1>1 DEF UpToDate
<1> QED BY <1>4, <1>5 DEF MessagesInv

LEMMA MessagesInvHolds == ASSUME ~Reentrant, ~BadMessages PROVE Spec => []MessagesInv
<1>1. Init => MessagesInv
  BY InitMessages
<1>2. CallInv /\ CallInv' /\ MessagesInv /\ [Next]_vars => MessagesInv'
  BY NextMessages
<1>3. Spec => []CallInv
  BY CallInvHolds
<1> QED BY <1>1, <1>2, <1>3, PTL DEF Spec

\* A message callback hears consecutive messages, wherever the response is cut,
\* whenever the callback is registered and whatever another callback does: it
\* joins before a message and from then on is in every loop.
THEOREM NoGapNoRepeatHolds == ASSUME ~Reentrant, ~BadMessages PROVE Spec => []NoGapNoRepeat
<1>1. MessagesInv => NoGapNoRepeat
  BY DEF MessagesInv
<1> QED BY <1>1, MessagesInvHolds, PTL

-----------------------------------------------------------------------------
(* The status: what the server said last is in the trailers that are left, *)
(* in responseTrailers or in responseHeaders.                              *)

EndsInTrailers(d) == d # <<>> /\ d[Len(d)].type = "trailers"

Said ==
  IF EndsInTrailers(LeftOf(stack)) THEN LeftOf(stack)[Len(LeftOf(stack))].val
  ELSE IF responseTrailers # Undefined THEN responseTrailers ELSE responseHeaders

StatusKnown ==
  /\ ~closed => lastStatus = Said
  /\ LeftOf(stack) # <<>> => chunksSeen > 0
  /\ responseTrailers # Undefined => responseHeaders # Undefined /\ chunksSeen > 0

LEMMA SameStatus ==
  ASSUME StatusKnown, chunksSeen \in Nat, LeftOf(stack') = LeftOf(stack),
         UNCHANGED <<response, lastStatus>>, chunksSeen' \in {chunksSeen, chunksSeen + 1},
         closed => closed'
  PROVE  StatusKnown'
<1>1. Said' = Said
  BY DEF Said, response
<1>2. chunksSeen > 0 => chunksSeen' > 0
  OBVIOUS
<1> QED BY <1>1, <1>2 DEF StatusKnown, response

LEMMA HeadersStatus ==
  ASSUME ~Reentrant, CallInv, StatusKnown,
         NEW h \in Status, NEW s \in Nat, TransportHeaders(h, s)
  PROVE  StatusKnown'
<1>1. ClientTypeOK /\ chunksSeen \in Nat /\ chunksSeen = 0 /\ chunksSeen' = 0
  BY DEF CallInv, TypeOK, TransportHeaders
<1>2. OnTransportHeaders(h, s) /\ lastStatus' = IF s = 0 THEN lastStatus ELSE h
  BY DEF TransportHeaders
<1>3. responseTrailers = Undefined /\ LeftOf(stack) = <<>>
  BY <1>1 DEF StatusKnown
<1>4. CASE closed \/ s = 0
  <2>1. UNCHANGED <<response, stack, closed>> /\ (closed \/ lastStatus' = lastStatus)
    BY <1>2, <1>4 DEF OnTransportHeaders, clientVars, flags
  <2>2. Said' = Said
    BY <2>1 DEF Said, response
  <2> QED BY <1>1, <1>3, <2>1, <2>2 DEF StatusKnown, response
<1>5. CASE ~(closed \/ s = 0)
  <2>1. /\ LeftOf(stack') = <<>> /\ responseHeaders' = h /\ responseTrailers' = Undefined
        /\ lastStatus' = h
    BY <1>1, <1>2, <1>3, <1>5, HeadersView
  <2>2. Said' = h
    BY <2>1 DEF Said, EndsInTrailers
  <2> QED BY <2>1, <2>2 DEF StatusKnown
<1> QED BY <1>4, <1>5

LEMMA JoinTrailers ==
  ASSUME NEW items \in Seq(Item), \A i \in 1..Len(items) : items[i].type # "trailers",
         NEW trailers \in Seq(Item),
         trailers # <<>> => Len(trailers) = 1 /\ trailers[1].type = "trailers",
         NEW data, data = items \o trailers
  PROVE  IF trailers = <<>> THEN ~EndsInTrailers(data)
         ELSE EndsInTrailers(data) /\ data[Len(data)].val = trailers[1].val
<1>1. CASE trailers = <<>>
  <2>1. data = items
    BY <1>1, ConcatEmptySeq
  <2>2. items # <<>> => items[Len(items)].type # "trailers"
    BY EmptySeq
  <2> QED BY <1>1, <2>1, <2>2 DEF EndsInTrailers
<1>2. CASE trailers # <<>>
  <2>1. /\ Len(data) = Len(items) + Len(trailers)
        /\ \A i \in 1..(Len(items) + Len(trailers)) :
             data[i] = IF i <= Len(items) THEN items[i] ELSE trailers[i - Len(items)]
    BY ConcatProperties, Zenon
  <2>2. Len(items) \in Nat /\ Len(trailers) = 1
    BY <1>2, LenProperties
  <2>3. Len(data) \in Nat \ {0} /\ data[Len(data)] = trailers[1]
    BY <2>1, <2>2
  <2>4. data # <<>>
    BY <2>3, EmptySeq
  <2> QED BY <1>2, <2>3, <2>4 DEF EndsInTrailers
<1> QED BY <1>1, <1>2

\* The status of a chunk is that of its trailers.
LEMMA ChunkTrailers ==
  ASSUME arrived \in Nat, NEW run \in MessageRuns, NEW trailers \in Trailers, NEW data,
         data = [i \in DOMAIN run |-> [type |-> run[i], val |-> arrived + i]] \o trailers
  PROVE  IF trailers = <<>> THEN ~EndsInTrailers(data)
         ELSE EndsInTrailers(data) /\ data[Len(data)].val = trailers[1].val
<1> DEFINE items == [i \in DOMAIN run |-> [type |-> run[i], val |-> arrived + i]]
<1>1. PICK n \in 0 .. MaxMessages - arrived : run \in [1..n -> {"message", "bad"}]
  BY TransportAssumption DEF MessageRuns
<1>2. items \in Seq(Item) /\ Len(items) = n /\ \A i \in 1..n : items[i].type # "trailers"
  <2>1. \A i \in 1..n : [type |-> run[i], val |-> arrived + i] \in Item
    BY <1>1 DEF Item
  <2> QED BY <1>1, <2>1
<1>3. /\ trailers \in Seq(Item)
      /\ trailers # <<>> => Len(trailers) = 1 /\ trailers[1].type = "trailers"
  <2>1. CASE trailers = <<>>
    BY <2>1
  <2>2. CASE trailers # <<>>
    <3>1. PICK g \in TrailerStatuses : trailers = <<[type |-> "trailers", val |-> g]>>
      BY <2>2 DEF Trailers
    <3>2. g \in Status /\ [type |-> "trailers", val |-> g] \in Item
      BY TransportAssumption DEF Item
    <3> QED BY <3>1, <3>2
  <2> QED BY <2>1, <2>2
<1>4. data = items \o trailers
  OBVIOUS
<1> HIDE DEF items
<1> QED BY <1>2, <1>3, <1>4, JoinTrailers, Zenon

LEMMA ChunkStatus ==
  ASSUME ~Reentrant, CallInv, StatusKnown,
         NEW run \in MessageRuns, NEW trailers \in Trailers, TransportChunk(run, trailers)
  PROVE  StatusKnown'
<1> DEFINE data == [i \in DOMAIN run |-> [type |-> run[i], val |-> arrived + i]] \o trailers
<1>1. ClientTypeOK /\ SeqInv /\ arrived \in Nat /\ chunksSeen \in Nat
  BY TransportAssumption DEF CallInv, TypeOK
<1>2. /\ OnTransportChunk(data) /\ chunksSeen' = chunksSeen + 1
      /\ arrived' = arrived + Len(run)
      /\ lastStatus' = IF trailers = <<>> THEN lastStatus ELSE trailers[1].val
  BY DEF TransportChunk
<1>3. /\ data \in Seq(Item) /\ MessagesIn(data) = Len(run) /\ NumberedItems(data, arrived)
      /\ IF trailers = <<>> THEN ~EndsInTrailers(data)
         ELSE EndsInTrailers(data) /\ data[Len(data)].val = trailers[1].val
  BY <1>1, ChunkIsItems, ChunkIsNumbered, ChunkTrailers
<1> HIDE DEF data
<1>4. stack = <<>> /\ (~closed => LeftOf(stack') = data)
  BY <1>1, <1>2, <1>3, ChunkSeq
<1>5. UNCHANGED <<response, closed>>
  BY <1>2 DEF OnTransportChunk, clientVars, flags
<1>6. /\ chunksSeen' > 0
      /\ responseTrailers' # Undefined => responseHeaders' # Undefined
  BY <1>1, <1>2, <1>5 DEF StatusKnown, response
<1>7. CASE closed
  BY <1>5, <1>6, <1>7 DEF StatusKnown
<1>8. CASE ~closed
  <2>1. LeftOf(stack) = <<>> /\ LeftOf(stack') = data
    BY <1>1, <1>4, <1>8, AllTaken
  <2>2. lastStatus = IF responseTrailers # Undefined THEN responseTrailers ELSE responseHeaders
    BY <1>8, <2>1 DEF StatusKnown, Said, EndsInTrailers
  <2>3. lastStatus' = Said'
    BY <1>2, <1>3, <1>5, <2>1, <2>2 DEF Said, response
  <2> QED BY <1>6, <2>3 DEF StatusKnown
<1> QED BY <1>7, <1>8

LEMMA ItemStatus ==
  ASSUME CallInv, MessagesInv, StatusKnown, ProcessItem, UNCHANGED transportVars
  PROVE  StatusKnown'
<1> DEFINE d == Head(Top.data)
           left == Tail(Top.data)
<1>1. ClientTypeOK /\ SeqInv /\ chunksSeen \in Nat
  BY DEF CallInv, TypeOK
<1>2. /\ Top.data \in Seq(Item) /\ LeftOf(stack) = Top.data /\ closed' = closed
      /\ \/ Top.data = <<>> /\ LeftOf(stack') = <<>> /\ UNCHANGED response
         \/ Top.data # <<>> /\ d.type = "bad"
         \/ /\ Top.data # <<>> /\ d.type = "message" /\ LeftOf(stack') = left
            /\ UNCHANGED response
         \/ /\ Top.data # <<>> /\ d.type = "trailers" /\ LeftOf(stack') = left
            /\ IF responseHeaders = Undefined
                 THEN responseHeaders' = d.val /\ UNCHANGED responseTrailers
                 ELSE responseTrailers' = d.val /\ UNCHANGED responseHeaders
  BY <1>1, ItemView DEF flags
<1>3. UNCHANGED <<chunksSeen, lastStatus>>
  BY DEF transportVars
<1>4. CASE Top.data = <<>> /\ LeftOf(stack') = <<>> /\ UNCHANGED response
  BY <1>1, <1>2, <1>3, <1>4, SameStatus
<1>5. CASE Top.data # <<>>
  <2>1. NumberedItems(Top.data, Taken) /\ Taken \in Nat
    BY <1>1, <1>2 DEF SeqInv, InOrder
  <2>2. d.type = "trailers" => left = <<>>
    BY <1>2, <1>5, <2>1, TailItems
  <2>3. /\ Len(Top.data) \in Nat \ {0} /\ d = Top.data[1] /\ Len(left) = Len(Top.data) - 1
        /\ left \in Seq(Item) /\ d \in Item
        /\ \A n \in 1..Len(left) : left[n] = Top.data[n + 1]
    BY <1>2, <1>5, EmptySeq, HeadTailProperties
  <2> HIDE DEF d, left
  <2>4. left = <<>> <=> Len(Top.data) = 1
    <3>1. left = <<>> <=> Len(left) = 0
      BY <2>3, EmptySeq
    <3>2. Len(left) = 0 <=> Len(Top.data) = 1
      BY <2>3
    <3> QED BY <3>1, <3>2
  <2>5. d.type # "bad" /\ chunksSeen > 0
    BY <1>2, <1>5, <2>3 DEF MessagesInv, NoneBad, StatusKnown
  <2>6. CASE d.type = "message" /\ LeftOf(stack') = left /\ UNCHANGED response
    <3>1. CASE left = <<>>
      <4>1. ~EndsInTrailers(Top.data) /\ ~EndsInTrailers(left)
        BY <2>3, <2>4, <2>6, <3>1 DEF EndsInTrailers
      <4> QED BY <1>2, <1>3, <2>5, <2>6, <4>1 DEF StatusKnown, Said, response
    <3>2. CASE left # <<>>
      <4>1. left[Len(left)] = Top.data[Len(Top.data)]
        BY <2>3, <2>4, <3>2
      <4>2. Said' = Said
        BY <1>2, <1>5, <2>6, <3>2, <4>1 DEF Said, EndsInTrailers, response
      <4> QED BY <1>2, <1>3, <2>5, <2>6, <4>2 DEF StatusKnown, response
    <3> QED BY <3>1, <3>2
  <2>7. CASE /\ d.type = "trailers" /\ LeftOf(stack') = left
             /\ IF responseHeaders = Undefined
                  THEN responseHeaders' = d.val /\ UNCHANGED responseTrailers
                  ELSE responseTrailers' = d.val /\ UNCHANGED responseHeaders
    <3>1. EndsInTrailers(Top.data) /\ Top.data[Len(Top.data)].val = d.val
      BY <1>5, <2>2, <2>3, <2>4, <2>7 DEF EndsInTrailers
    <3>2. Said = d.val
      BY <1>2, <3>1 DEF Said
    <3>3. LeftOf(stack') = <<>>
      BY <2>2, <2>7
    <3>4. d.val # Undefined
      BY <2>3, ClientAssumption DEF Item, Status
    <3>5. /\ Said' = d.val
          /\ responseHeaders' # Undefined
      <4>1. ~EndsInTrailers(LeftOf(stack'))
        BY <3>3 DEF EndsInTrailers
      <4>2. responseTrailers # Undefined => responseHeaders # Undefined
        BY DEF StatusKnown
      <4> QED BY <2>7, <3>4, <4>1, <4>2 DEF Said
    <3> QED BY <1>2, <1>3, <2>5, <3>2, <3>3, <3>5 DEF StatusKnown
  <2> QED BY <1>2, <1>5, <2>5, <2>6, <2>7
<1> QED BY <1>2, <1>4, <1>5

LEMMA InitStatus == Init => StatusKnown
<1> SUFFICES ASSUME Init PROVE StatusKnown
  OBVIOUS
<1>1. LeftOf(stack) = <<>>
  BY EmptySeq DEF Init, ClientInit, LeftOf
<1> QED BY <1>1 DEF StatusKnown, Said, EndsInTrailers, Init, ClientInit

LEMMA NextStatus ==
  ASSUME ~Reentrant, CallInv, MessagesInv, StatusKnown, [Next]_vars
  PROVE  StatusKnown'
<1>1. ClientTypeOK /\ SeqInv /\ arrived \in Nat /\ chunksSeen \in Nat
  BY TransportAssumption DEF CallInv, TypeOK
<1>2. CASE Application \/ UNCHANGED vars
  <2>1. UNCHANGED <<stack, response, transportVars>>
    BY <1>2 DEF Application, Register, Start, Close, Send, FinishSend, vars, clientVars
  <2>2. closed => closed'
    <3>1. closed' = closed \/ closed' = TRUE
      BY <1>2 DEF Application, Register, Start, Close, Send, FinishSend, vars, clientVars, flags
    <3> QED BY <3>1
  <2> QED BY <1>1, <2>1, <2>2, SameStatus DEF transportVars
<1>3. ASSUME NEW h \in HeaderStatuses, NEW s \in HttpStatuses, TransportHeaders(h, s)
      PROVE  StatusKnown'
  <2>1. h \in Status /\ s \in Nat
    BY TransportAssumption
  <2> QED BY <1>3, <2>1, HeadersStatus
<1>4. ASSUME NEW run \in MessageRuns, NEW trailers \in Trailers, TransportChunk(run, trailers)
      PROVE  StatusKnown'
  BY <1>4, ChunkStatus
<1>5. CASE TransportGarbage \/ TransportEnd
  <2>1. /\ OnUnparsableChunk \/ OnTransportEnd
        /\ arrived' = arrived /\ lastStatus' = lastStatus
        /\ chunksSeen' \in {chunksSeen, chunksSeen + 1}
    BY <1>5 DEF TransportGarbage, TransportEnd
  <2>2. LeftOf(stack') = <<>> /\ stack = <<>>
    BY <1>1, <2>1, CompleteSeq
  <2>3. LeftOf(stack) = <<>>
    BY <1>1, <2>2, AllTaken
  <2>4. UNCHANGED <<closed, response>>
    BY <2>1 DEF OnUnparsableChunk, OnTransportEnd, clientVars, flags
  <2> QED BY <1>1, <2>1, <2>2, <2>3, <2>4, SameStatus
<1>6. CASE Handler \/ Return
  <2>1. UNCHANGED transportVars /\ UNCHANGED <<arrived, lastStatus, chunksSeen>>
    BY <1>6 DEF Handler, Return, transportVars
  <2>2. CASE ProcessItem
    BY <2>1, <2>2, ItemStatus
  <2>3. ASSUME LeftOf(stack') = LeftOf(stack), UNCHANGED <<flags, response>>
        PROVE  StatusKnown'
    BY <1>1, <2>1, <2>3, SameStatus DEF flags
  <2>4. CASE InvokeCallback \/ CallbackReturns
    BY <2>3, <2>4, LoopGoesOn
  <2>5. CASE LoopEnds
    BY <1>1, <2>1, <2>3, <2>5, LoopEndsSeq DEF LoopEnds
  <2>6. CASE FailAfterHeaders
    BY <1>1, <2>1, <2>3, <2>6, FailSeq DEF FailAfterHeaders
  <2> QED BY <1>6, <2>2, <2>4, <2>5, <2>6 DEF Handler, HandlerStep, Return
<1> QED BY <1>2, <1>3, <1>4, <1>5, <1>6 DEF Next

-----------------------------------------------------------------------------
(* What an OK means *)

\* The frame at p reports c to the end callbacks.
EndFrame(p, c) == stack[p].do = "end" /\ stack[p].val = c

FailFrameAt(p) == stack[p].do = "fail"

\* rawOnError after rawOnHeaders never reports OK.
FailsWithError == \A p \in 1..Len(stack) : FailFrameAt(p) => stack[p].code # OK

\* The call has reported c, or is about to.
Reports(c) ==
  \/ \E p \in 1..Len(stack) : EndFrame(p, c)
  \/ \E i \in Callbacks("end") : heard["end"][i] = <<c>>

OkEnd == Reports(OK)

\* From an OK on the response is complete and nothing is added to it.
OkDone ==
  OkEnd =>
    /\ started /\ completed /\ transportEnded /\ lastStatus = OK
    /\ \A i \in 1..early["message"] : Heard(i) = FirstMessages(arrived)

CompleteInv == CallInv /\ MessagesInv /\ StatusKnown /\ FailsWithError /\ OkDone

\* onTransportEnd reports c; an OK comes from nowhere else, an error from
\* onTransportHeaders too, and from a chunk that does not parse.
EndsWith(c) == TransportEnd /\ ~closed /\ ~completed /\ EndCode = c

BecomesOk == EndsWith(OK)

FailsWith(c) ==
  \/ TransportGarbage /\ c = Internal
  \/ \E p \in 1..Len(stack) : FailFrameAt(p) /\ stack[p].code = c

\* Where the frames come from that report an end, and those that will.
LEMMA FramesKept ==
  ASSUME ~Reentrant, CallInv, FailsWithError, [Next]_vars, NEW c, NEW p \in 1..Len(stack')
  PROVE  /\ FailFrameAt(p)' => /\ stack'[p].code # OK
                               /\ HeaderStatuses # {} \/ (p \in 1..Len(stack) /\ FailFrameAt(p))
         /\ EndFrame(p, c)' => EndsWith(c) \/ FailsWith(c) \/ (p \in 1..Len(stack) /\ EndFrame(p, c))
<1> DEFINE Goal == /\ FailFrameAt(p)' =>
                        /\ stack'[p].code # OK
                        /\ HeaderStatuses # {} \/ (p \in 1..Len(stack) /\ FailFrameAt(p))
                   /\ EndFrame(p, c)' =>
                        EndsWith(c) \/ FailsWith(c) \/ (p \in 1..Len(stack) /\ EndFrame(p, c))
<1>1. ClientTypeOK /\ SeqInv /\ arrived \in Nat /\ Len(stack) \in Nat
  BY TransportAssumption, Empty DEF CallInv, TypeOK
<1>2. CASE UNCHANGED stack
  BY <1>2 DEF FailsWithError, EndFrame, FailFrameAt
<1>3. Application \/ UNCHANGED vars => UNCHANGED stack
  BY DEF Application, Register, Start, Close, Send, FinishSend, vars, clientVars
<1>4. ASSUME NEW h \in HeaderStatuses, NEW s \in HttpStatuses, TransportHeaders(h, s)
      PROVE  Goal
  <2>1. OnTransportHeaders(h, s) /\ h \in Status /\ s \in Nat
    BY <1>4, TransportAssumption DEF TransportHeaders
  <2>2. CASE closed \/ s = 0
    BY <1>2, <2>1, <2>2 DEF OnTransportHeaders, clientVars
  <2>3. CASE ~(closed \/ s = 0)
    BY <1>1, <2>1, <2>3, HeadersView DEF EndFrame, FailFrameAt
  <2> QED BY <2>2, <2>3
<1>5. ASSUME NEW run \in MessageRuns, NEW trailers \in Trailers, TransportChunk(run, trailers)
      PROVE  Goal
  <2> DEFINE data == [i \in DOMAIN run |-> [type |-> run[i], val |-> arrived + i]] \o trailers
  <2>1. data \in Seq(Item) /\ MessagesIn(data) = Len(run) /\ NumberedItems(data, arrived)
    BY <1>1, ChunkIsItems, ChunkIsNumbered
  <2>2. OnTransportChunk(data) /\ arrived' = arrived + Len(run)
    BY <1>5 DEF TransportChunk
  <2> HIDE DEF data
  <2>3. CASE closed
    BY <1>2, <2>2, <2>3 DEF OnTransportChunk, clientVars
  <2>4. CASE ~closed
    BY <1>1, <2>1, <2>2, <2>4, ChunkSeq DEF EndFrame, FailFrameAt
  <2> QED BY <2>3, <2>4
<1>6. ASSUME NEW code \in Status, NEW rest \in Seq(Frame), Len(rest) = 0, Complete(code, rest),
             completed \/ EndsWith(code) \/ FailsWith(code)
      PROVE  Goal
  <2>1. \/ Len(stack') = 0 /\ completed
        \/ /\ Len(stack') = 1 /\ stack'[1].do = "end" /\ stack'[1].val = code
           /\ ~completed
    BY <1>1, <1>6, CompleteView
  <2>2. CASE Len(stack') = 0
    BY <2>2
  <2>3. CASE Len(stack') = 1 /\ stack'[1].do = "end" /\ stack'[1].val = code
    <3>1. p = 1
      BY <2>3
    <3>2. EndsWith(code) \/ FailsWith(code)
      BY <1>6, <2>1, <2>3
    <3> QED BY <2>3, <3>1, <3>2 DEF EndFrame, FailFrameAt
  <2> QED BY <2>1, <2>2, <2>3
<1>7. CASE TransportGarbage \/ TransportEnd
  <2>1. OnUnparsableChunk \/ OnTransportEnd
    BY <1>7 DEF TransportGarbage, TransportEnd
  <2>2. stack \in Seq(Frame) /\ Len(stack) = 0
    BY <1>1, <2>1, UpcallAlone, Empty DEF OnUnparsableChunk, OnTransportEnd
  <2>3. CASE closed
    BY <1>2, <2>1, <2>3 DEF OnUnparsableChunk, OnTransportEnd, clientVars
  <2>4. CASE ~closed /\ TransportGarbage
    <3>1. Complete(Internal, stack) /\ Internal \in Status
      BY <2>4 DEF TransportGarbage, OnUnparsableChunk, Internal, Status
    <3>2. FailsWith(Internal)
      BY <2>4 DEF FailsWith
    <3> QED BY <1>6, <2>2, <3>1, <3>2
  <2>5. CASE ~closed /\ TransportEnd
    <3>1. Complete(EndCode, stack) /\ EndCode \in Status
      BY <1>1, <2>5, EndCodeStatus DEF TransportEnd, OnTransportEnd
    <3>2. completed \/ EndsWith(EndCode)
      BY <2>5 DEF EndsWith
    <3> QED BY <1>6, <2>2, <3>1, <3>2
  <2> QED BY <1>7, <2>3, <2>4, <2>5
<1>8. CASE Handler \/ Return
  <2>1. arrived' = arrived
    BY <1>8 DEF Handler, Return, transportVars
  <2>2. CASE ProcessItem
    BY <1>1, <2>2, ItemView DEF EndFrame, FailFrameAt
  <2>3. CASE InvokeCallback \/ CallbackReturns
    <3>1. /\ Top = stack[Len(stack)] /\ Top.do \in Kinds
          /\ Len(stack) \in Nat \ {0} /\ Len(stack') = Len(stack)
          /\ stack'[Len(stack)].do = Top.do /\ stack'[Len(stack)].val = Top.val
          /\ \A q \in 1..(Len(stack) - 1) : stack'[q] = stack[q]
      BY <2>3, LoopGoesOn
    <3>2. CASE p = Len(stack)
      BY <3>1, <3>2 DEF EndFrame, FailFrameAt, Kinds
    <3>3. CASE p # Len(stack)
      BY <3>1, <3>3 DEF EndFrame, FailFrameAt, FailsWithError
    <3> QED BY <3>2, <3>3
  <2>4. CASE LoopEnds
    <3>1. Len(stack') = Len(stack) - 1 /\ \A q \in 1..(Len(stack) - 1) : stack'[q] = stack[q]
      BY <1>1, <2>1, <2>4, LoopEndsSeq
    <3> QED BY <1>1, <3>1 DEF EndFrame, FailFrameAt, FailsWithError
  <2>5. CASE FailAfterHeaders
    <3>1. /\ stack # <<>> /\ Top.do = "fail" /\ Top.code \in Status
          /\ Complete(Top.code, Front(stack))
      BY <1>1, <2>5, LastFrame DEF FailAfterHeaders, ClientRuns, FailFrame, Status
    <3>2. Top = stack[1] /\ Len(stack) = 1
      BY <1>1, <2>1, <2>5, FailSeq
    <3>3. Front(stack) \in Seq(Frame) /\ Len(Front(stack)) = 0
      BY <1>1, <3>1, <3>2, Popped
    <3>4. FailsWith(Top.code)
      BY <3>1, <3>2 DEF FailsWith, FailFrameAt
    <3> QED BY <1>6, <3>1, <3>3, <3>4
  <2> QED BY <1>8, <2>2, <2>3, <2>4, <2>5 DEF Handler, HandlerStep, Return
<1> QED BY <1>2, <1>3, <1>4, <1>5, <1>7, <1>8 DEF Next

LEMMA ReportIsNewOrOld ==
  ASSUME ~Reentrant, CallInv, FailsWithError, [Next]_vars, NEW c, Reports(c)'
  PROVE  Reports(c) \/ EndsWith(c) \/ FailsWith(c)
<1>1. CASE \E p \in 1..Len(stack') : EndFrame(p, c)'
  BY <1>1, FramesKept DEF Reports
<1>2. ASSUME NEW i \in Callbacks("end"), heard'["end"][i] = <<c>>
      PROVE  Reports(c)
  <2>1. CASE heard'["end"] = heard["end"]
    BY <1>2, <2>1 DEF Reports
  <2>2. CASE InvokeCallback /\ Top.do = "end"
    <3>1. /\ heard'["end"][Top.next] = <<Top.val>>
          /\ i # Top.next => heard'["end"][i] = heard["end"][i]
      BY <2>2, EndHeard DEF CallInv, TypeOK
    <3>2. CASE i # Top.next
      BY <1>2, <3>1, <3>2 DEF Reports
    <3>3. CASE i = Top.next
      <4>1. Top.val = c
        BY <1>2, <3>1, <3>3
      <4>2. Top = stack[Len(stack)] /\ Len(stack) \in Nat \ {0}
        BY <2>2, LoopGoesOn
      <4> QED BY <2>2, <4>1, <4>2 DEF Reports, EndFrame
    <3> QED BY <3>2, <3>3
  <2> QED BY <2>1, <2>2, OnlyLoopsTell, RunningLoop DEF Kinds
<1>3. Reports(c)' => (\E p \in 1..Len(stack') : EndFrame(p, c)')
                     \/ (\E i \in Callbacks("end") : heard'["end"][i] = <<c>>)
  BY DEF Reports, Callbacks
<1> QED BY <1>1, <1>2, <1>3

LEMMA OkIsNewOrOld ==
  ASSUME ~Reentrant, CallInv, FailsWithError, [Next]_vars, OkEnd'
  PROVE  OkEnd \/ BecomesOk
<1>1. ~FailsWith(OK)
  BY DEF FailsWith, FailsWithError, OK, Internal
<1>2. Reports(OK)' => Reports(OK) \/ EndsWith(OK) \/ FailsWith(OK)
  BY ReportIsNewOrOld
<1> QED BY <1>1, <1>2 DEF OkEnd, BecomesOk

LEMMA ReportedIsCompleted == ASSUME CallInv, NEW c, Reports(c) PROVE completed
<1>1. CASE \E p \in 1..Len(stack) : EndFrame(p, c)
  BY <1>1 DEF CallInv, EndInv, EndLoopOnce, EndFrames, EndFrame
<1>2. CASE \E i \in Callbacks("end") : heard["end"][i] = <<c>>
  <2>1. <<c>> # <<>>
    OBVIOUS
  <2> QED BY <1>2, <2>1 DEF CallInv, EndInv, EndLoopOnce
<1> QED BY <1>1, <1>2 DEF Reports

\* onTransportEnd reports what the server said last, or Unknown if it has not
\* said anything; and every message is delivered.
LEMMA EndsDone ==
  ASSUME ~Reentrant, CallInv, MessagesInv, StatusKnown, NEW c, EndsWith(c),
         responseTrailers # NoStatus
  PROVE  /\ started /\ started' /\ completed' /\ transportEnded'
         /\ UNCHANGED <<arrived, lastStatus, early, heard>>
         /\ c = Unknown \/ (c = lastStatus /\ c \notin {Undefined, NoStatus})
         /\ \A i \in 1..early["message"] : Heard(i) = FirstMessages(arrived)
<1>1. /\ OnTransportEnd /\ ~closed /\ ~completed /\ EndCode = c /\ transportEnded' = TRUE
      /\ UNCHANGED <<arrived, lastStatus, early>>
  BY DEF EndsWith, TransportEnd
<1>2. ClientTypeOK /\ arrived \in Nat
  BY TransportAssumption DEF CallInv, TypeOK
<1>3. /\ started /\ started' = started /\ heard' = heard /\ completed' = TRUE /\ stack = <<>>
  BY <1>1, UpcallAlone DEF OnTransportEnd, Complete, flags
<1>4. LeftOf(stack) = <<>> /\ Taken = arrived /\ ~MessageLoop
  BY <1>2, <1>3, AllTaken
<1>5. c = Unknown \/ (c = lastStatus /\ c \notin {Undefined, NoStatus})
  <2>1. lastStatus = IF responseTrailers # Undefined THEN responseTrailers ELSE responseHeaders
    BY <1>1, <1>4 DEF StatusKnown, Said, EndsInTrailers
  <2>2. CASE responseTrailers \notin {Undefined, NoStatus}
    BY <1>1, <2>1, <2>2 DEF EndCode
  <2>3. CASE responseTrailers = Undefined
    <3>1. EndCode = IF responseHeaders \in {Undefined, NoStatus} THEN Unknown ELSE responseHeaders
      BY <2>3, ClientAssumption DEF EndCode
    <3> QED BY <1>1, <2>1, <2>3, <3>1
  <2> QED BY <2>2, <2>3
<1>6. \A i \in 1..early["message"] : Heard(i) = FirstMessages(arrived)
  BY <1>1, <1>4 DEF MessagesInv, UpToDate, Upto
<1> QED BY <1>1, <1>3, <1>5, <1>6

\* OK is what the server said last, and every message is delivered.
LEMMA BecomesOkDone ==
  ASSUME ~Reentrant, CallInv, MessagesInv, StatusKnown, BecomesOk
  PROVE  /\ started' /\ completed' /\ transportEnded' /\ lastStatus' = OK
         /\ \A i \in 1..early'["message"] : Heard(i)' = FirstMessages(arrived')
<1>1. EndsWith(OK) /\ EndCode = OK
  BY DEF BecomesOk, EndsWith
<1>2. responseTrailers # NoStatus
  BY <1>1, ClientAssumption DEF EndCode, OK, Internal
<1> QED BY <1>1, <1>2, EndsDone DEF Heard, OK, Unknown

\* Once the end is reported no message callback is called.
LEMMA MessagesFinal ==
  ASSUME CallInv, [Next]_vars, completed
  PROVE  heard'["message"] = heard["message"]
<1>1. CASE UNCHANGED heard
  BY <1>1
<1>2. CASE InvokeCallback
  BY <1>2, RunningLoop DEF Kinds
<1> QED BY <1>1, <1>2, OnlyLoopsTell

\* A call that is completed and whose response has ended stays as it is.
LEMMA EndIsFinal ==
  ASSUME CallInv, [Next]_vars, started, completed, transportEnded
  PROVE  /\ started' /\ completed' /\ transportEnded'
         /\ UNCHANGED <<lastStatus, arrived, early>> /\ heard'["message"] = heard["message"]
<1>1. heard'["message"] = heard["message"]
  BY MessagesFinal
<1>2. started' \in {started, TRUE} /\ completed' \in {completed, TRUE}
      /\ transportEnded' \in {transportEnded, TRUE}
      /\ UNCHANGED <<lastStatus, arrived, early>>
  <2> DEFINE Goal == /\ started' \in {started, TRUE} /\ completed' \in {completed, TRUE}
                     /\ transportEnded' \in {transportEnded, TRUE}
                     /\ UNCHANGED <<lastStatus, arrived, early>>
  <2>1. CASE Application
    BY <2>1 DEF Application, Register, Start, Close, Send, FinishSend, flags, transportVars
  <2>2. ASSUME NEW h, NEW s, TransportHeaders(h, s) PROVE Goal
    BY <2>2 DEF TransportHeaders
  <2>3. ASSUME NEW run \in MessageRuns, NEW trailers, TransportChunk(run, trailers) PROVE Goal
    <3>1. /\ run = <<>> /\ trailers = <<>> /\ arrived' = arrived + Len(run)
          /\ lastStatus' = IF trailers = <<>> THEN lastStatus ELSE trailers[1].val
          /\ UNCHANGED <<started, completed, transportEnded, early>>
      BY <2>3 DEF TransportChunk, OnTransportChunk, clientVars, flags
    <3>2. Len(run) = 0 /\ arrived \in Nat
      BY <3>1, EmptySeq, TransportAssumption DEF CallInv, TypeOK
    <3>3. arrived' = arrived
      BY <3>1, <3>2
    <3> QED BY <3>1, <3>3
  <2>4. CASE TransportGarbage
    BY <2>4 DEF TransportGarbage
  <2>5. CASE TransportEnd
    BY <2>5 DEF TransportEnd, OnTransportEnd, Complete, clientVars, flags
  <2>6. CASE Handler
    BY <2>6 DEF Handler, HandlerStep, ProcessItem, InvokeCallback, LoopEnds, FailAfterHeaders,
                Complete, flags, transportVars
  <2>7. CASE Return
    BY <2>7 DEF Return, CallbackReturns, flags, transportVars
  <2>8. CASE UNCHANGED vars
    BY <2>8 DEF vars, clientVars, transportVars, flags
  <2> QED BY <2>1, <2>2, <2>3, <2>4, <2>5, <2>6, <2>7, <2>8 DEF Next
<1> QED BY <1>1, <1>2

LEMMA NextComplete ==
  ASSUME ~Reentrant, ~BadMessages, CompleteInv, CallInv', [Next]_vars
  PROVE  CompleteInv'
<1> USE DEF CompleteInv
<1>1. MessagesInv' /\ StatusKnown'
  BY NextMessages, NextStatus
<1>2. FailsWithError'
  <2>1. \A p \in 1..Len(stack') : FailFrameAt(p)' => stack'[p].code # OK
    BY FramesKept
  <2> QED BY <2>1 DEF FailsWithError
<1>3. ASSUME OkEnd'
      PROVE  /\ started' /\ completed' /\ transportEnded' /\ lastStatus' = OK
             /\ \A i \in 1..early'["message"] : Heard(i)' = FirstMessages(arrived')
  <2>1. CASE BecomesOk
    BY <2>1, BecomesOkDone
  <2>2. CASE OkEnd
    BY <2>2, EndIsFinal DEF OkDone, Heard
  <2> QED BY <1>3, <2>1, <2>2, OkIsNewOrOld
<1>4. OkDone'
  BY <1>3 DEF OkDone
<1> QED BY <1>1, <1>2, <1>4

LEMMA InitComplete == Init /\ CallInv => CompleteInv
<1> SUFFICES ASSUME Init, CallInv PROVE CompleteInv
  OBVIOUS
<1>1. MessagesInv /\ StatusKnown
  BY InitMessages, InitStatus
<1>2. Len(stack) = 0
  BY EmptySeq DEF Init, ClientInit
<1>3. ~OkEnd
  BY <1>2 DEF OkEnd, Reports, Init, ClientInit, Kinds, Callbacks
<1> QED BY <1>1, <1>2, <1>3 DEF CompleteInv, FailsWithError, OkDone

LEMMA CompleteInvHolds == ASSUME ~Reentrant, ~BadMessages PROVE Spec => []CompleteInv
<1>1. Init /\ CallInv => CompleteInv
  BY InitComplete
<1>2. CompleteInv /\ CallInv' /\ [Next]_vars => CompleteInv'
  BY NextComplete
<1>3. Spec => []CallInv
  BY CallInvHolds
<1> QED BY <1>1, <1>2, <1>3, PTL DEF Spec

\* A call that ends with OK has delivered every message that arrived to every
\* callback registered before start: only onTransportEnd reports OK, no handler
\* is unfinished then, and what comes after it is empty.
THEOREM OkMeansAllDeliveredHolds ==
  ASSUME ~Reentrant, ~BadMessages PROVE Spec => []OkMeansAllDelivered
<1>1. CompleteInv => OkMeansAllDelivered
  BY DEF CompleteInv, OkDone, OkEnd, Reports, OkMeansAllDelivered, FirstMessages, Heard
<1> QED BY <1>1, CompleteInvHolds, PTL

\* OK is reported only if OK is what the server said last: what onTransportEnd
\* looks at is the last metadata that came, whichever chunk it came in.
THEOREM OkIsTheServersHolds ==
  ASSUME ~Reentrant, ~BadMessages PROVE Spec => []OkIsTheServers
<1>1. CompleteInv => OkIsTheServers
  BY DEF CompleteInv, OkDone, OkEnd, Reports, OkIsTheServers
<1> QED BY <1>1, CompleteInvHolds, PTL

=============================================================================
