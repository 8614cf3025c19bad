-------------------------- MODULE MCWebsocketCall --------------------------
(* Values for the constants of WebsocketCall. *)
EXTENDS WebsocketCall

MessageAndEnd == [k \in Kinds |-> IF k = "headers" THEN 0 ELSE 1]
=============================================================================
