--------------------------- MODULE CallLifecycle ---------------------------
(***************************************************************************)
(* What a call promises the application, whatever the network does: the    *)
(* part of the client's interface that docs/client.md describes ("Lifecycle *)
(* of the client"), without saying how.  Messages come in the order the    *)
(* server sent them; the end comes after them, tells every listener the    *)
(* same code, each at most once; after close nothing comes.                 *)
(*                                                                         *)
(* AnyTransportCall implements this specification.                         *)
(***************************************************************************)
EXTENDS Integers, Sequences

CONSTANTS
  MessageListeners,
  EndListeners,
  Messages,     \* the numbers of the messages of the response
  Codes,
  NoCode        \* no end listener has been told yet

VARIABLES
  phase,    \* "open", "ended" or "closed"
  got,      \* got[l]: the numbers of the messages listener l has heard
  code,     \* the code the end listeners hear
  told      \* the end listeners that have heard it

vars == <<phase, got, code, told>>

Init ==
  /\ phase = "open"
  /\ got = [l \in MessageListeners |-> <<>>]
  /\ code = NoCode
  /\ told = {}

Follows(m, s) == s = <<>> \/ s[Len(s)] < m

Deliver(l, m) ==
  /\ phase = "open"
  /\ Follows(m, got[l])
  /\ got' = [got EXCEPT ![l] = Append(@, m)]
  /\ UNCHANGED <<phase, code, told>>

Tell(e) ==
  /\ phase \in {"open", "ended"}
  /\ e \notin told
  /\ phase' = "ended"
  /\ code' \in Codes
  /\ code \in {NoCode, code'}
  /\ told' = told \cup {e}
  /\ UNCHANGED got

Close ==
  /\ phase # "closed"
  /\ phase' = "closed"
  /\ UNCHANGED <<got, code, told>>

Next ==
  \/ \E l \in MessageListeners, m \in Messages : Deliver(l, m)
  \/ \E e \in EndListeners : Tell(e)
  \/ Close

Spec == Init /\ [][Next]_vars
=============================================================================
