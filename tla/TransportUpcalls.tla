-------------------------- MODULE TransportUpcalls --------------------------
(***************************************************************************)
(* What the HTTP transports and the fake transport share: the response they *)
(* hand over and the upcalls they make to the call object.                  *)
(*                                                                         *)
(* A response is abstracted to the items the parser makes of its body; an   *)
(* item has arrived with its last byte.  Message n of the body has val n.   *)
(***************************************************************************)
EXTENDS GrpcClient

VARIABLES
  received,   \* the body as far as the transport has it, a sequence of Item
  passed,     \* how much of it has been handed to onChunk
  upcalls,    \* upcalls the transport has detached or has still to make
  seen        \* history: what the call object was told

upcallVars == <<received, passed, upcalls, seen>>

HeadersCall(h, s) == [do |-> "headers", status |-> h, http |-> s]
ChunkCall(n) == [do |-> "chunk", upto |-> n]
EndCall == [do |-> "end"]

UpcallsInit ==
  /\ passed = 0
  /\ upcalls = <<>>
  /\ seen = [headers |-> 0, last |-> Undefined, chunks |-> 0, ended |-> FALSE]

\* options.onHeaders, onChunk and onEnd
UpHeaders(h, s) ==
  /\ OnTransportHeaders(h, s)
  /\ seen' = [seen EXCEPT !.headers = @ + 1, !.last = IF s = 0 THEN @ ELSE h]
  /\ UNCHANGED <<received, passed>>

UpChunk(n) ==
  /\ OnTransportChunk(SubSeq(received, passed + 1, n))
  /\ passed' = n
  /\ seen' = [seen EXCEPT !.chunks = @ + 1]
  /\ UNCHANGED received

UpEnd ==
  /\ OnTransportEnd
  /\ seen' = [seen EXCEPT !.ended = TRUE]
  /\ UNCHANGED <<received, passed>>

Make(call) ==
  \/ call.do = "headers" /\ UpHeaders(call.status, call.http)
  \/ call.do = "chunk" /\ UpChunk(call.upto)
  \/ call.do = "end" /\ UpEnd

\* The first of the waiting upcalls is made.
RunUpcall ==
  /\ stack = <<>> /\ upcalls # <<>>
  /\ Make(Head(upcalls))
  /\ upcalls' = Tail(upcalls)
=============================================================================
