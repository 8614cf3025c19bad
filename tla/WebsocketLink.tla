--------------------------- MODULE WebsocketLink ---------------------------
(***************************************************************************)
(* One WebSocket connection between WebsocketTransport (the browser) and    *)
(* WebsocketWrapper (the server).  External: browsers and nhooyr/websocket  *)
(* are modelled from their use.  Either direction is a FIFO of WebSocket    *)
(* messages; a close frame is the last one.  A broken connection loses what *)
(* is under way in both directions.                                         *)
(***************************************************************************)
EXTENDS Integers, Sequences, SequencesExt

VARIABLES
  up, taken,        \* what the client has sent, and how much the server has read
  down, delivered,  \* what the server has sent, and how much the client has read
  broken            \* the connection is lost

linkVars == <<up, taken, down, delivered, broken>>

\* A message upwards is a number: the n-th request, or one of these.
FinishSendFrame == 0
HeadersFrame == -1
CloseFrame == -2

\* A message downwards is the sequence of items the client's parser makes of it.
Goodbye == <<[type |-> "close", val |-> 0]>>

LinkInit ==
  /\ up = <<>> /\ taken = 0
  /\ down = <<>> /\ delivered = 0
  /\ broken = FALSE

NextUp == up[taken + 1]
NextDown == down[delivered + 1]
UpWaits == ~broken /\ taken < Len(up)
DownWaits == ~broken /\ delivered < Len(down)
=============================================================================
