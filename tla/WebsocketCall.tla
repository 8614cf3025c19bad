--------------------------- MODULE WebsocketCall ---------------------------
(***************************************************************************)
(* A whole call over WebSocket: the client's call object, its WebSocket     *)
(* transport, the connection, and the wrapper around the gRPC server.       *)
(***************************************************************************)
EXTENDS WebsocketTransport, WebsocketWrapper

\* Metadata without grpc-status is null for the client.
ASSUME WebsocketAssumption ==
  /\ MaxRequests \in Nat /\ MaxResponses \in Nat
  /\ HandlerCodes \subseteq Nat
  /\ Absent = NoStatus

vars == <<clientVars, transportVars, linkVars, serverVars>>

Init == ClientInit /\ WebsocketInit /\ LinkInit /\ WrapperInit

Application == AttachCallback \/ Connect \/ SendMessage \/ SendFinish \/ Cancel

\* The connection is lost.
Break ==
  /\ ws \in {"open", "closing"}
  /\ ~broken
  /\ broken' = TRUE
  /\ UNCHANGED <<clientVars, transportVars, serverVars, up, taken, down, delivered>>

Handler == HandlerStep \/ CallbackReturns

Client ==
  \/ (Application \/ SocketEvent) /\ UNCHANGED serverVars
  \/ Handler /\ UNCHANGED <<transportVars, linkVars, serverVars>>

Server == (ServerStep \/ HandlerWrites \/ HandlerReturns) /\ UNCHANGED <<clientVars, transportVars>>

Next == Client \/ Server \/ Break

Spec == Init /\ [][Next]_vars

\* Events, goroutines and messages are not held back for ever.  What the
\* application does, and whether the method's handler ever returns, is up to them.
FairSpec ==
  /\ Spec
  /\ WF_vars(SocketEvent /\ UNCHANGED serverVars)
  /\ WF_vars(Handler /\ UNCHANGED <<transportVars, linkVars, serverVars>>)
  /\ WF_vars((ReadFirst \/ Read \/ Transmission \/ Return) /\ UNCHANGED <<clientVars, transportVars>>)
  /\ WF_vars(Drain /\ UNCHANGED <<clientVars, transportVars>>)

-----------------------------------------------------------------------------
(* Properties *)

\* The variables of both ends have their types.
TypeOK ==
  /\ ClientTypeOK
  /\ ws \in {"none", "connecting", "open", "closing", "closed"}
  /\ sent \in 0..MaxRequests /\ sendQueue \in Seq(0..MaxRequests)
  /\ up \in Seq(-2..MaxRequests) /\ taken \in 0..Len(up) /\ delivered \in 0..Len(down)
  /\ server \in {"handshake", "aborted", "serving", "closing", "returned"}
  /\ reader \in {"more", "eof", "error"} /\ remaining \in 0..MaxRequests
  /\ requests \in Seq(1..MaxRequests) /\ responses \in 0..MaxResponses
  /\ outcome \in HandlerCodes \cup {None}

\* The handler sees the requests in the order of the send calls, none twice
\* and none left out, whether they were queued before the socket opened or
\* not; and when Read says io.EOF without the context being cancelled, it has
\* seen all of them and the client has called finishSend.
RequestsInOrder ==
  /\ requests = [i \in 1..Len(requests) |-> i]
  /\ reader = "eof" /\ ~cancelled => Len(requests) = sent /\ finishedSending

EndCodes == { heard["end"][i] : i \in { j \in 1..MaxCallbacks["end"] : heard["end"][j] # <<>> } }

\* The code the client is told is the one the handler returned, with every
\* message the handler wrote before it; if the connection gives way the client
\* is told Unknown, never OK.
CodeIsTheHandlers ==
  \A code \in EndCodes :
    \/ code = <<Unknown>>
    \/ /\ code = <<outcome>>
       /\ \A i \in 1..MaxCallbacks["message"] : heard["message"][i] = [n \in 1..responses |-> n]

\* The item of a type that was delivered last: a message is its number, trailers
\* are their status.
DeliveredAt(type) == { p \in 1..delivered : down[p] # <<>> /\ down[p][1].type = type }

LastDelivered(type, none) ==
  IF DeliveredAt(type) = {} THEN none ELSE down[Max(DeliveredAt(type))][1].val

AnyTransport == INSTANCE AnyTransportCall WITH
  HeadersFirst <- FALSE,
  MaxHeaders <- 0,
  MaxChunks <- 4 + 2 * MaxResponses,
  MaxMessages <- MaxResponses,
  HeaderStatuses <- {},
  TrailerStatuses <- HandlerCodes \cup {Absent},
  HttpStatuses <- {},
  BadMessages <- FALSE,
  Unparsable <- FALSE,
  Sends <- TRUE,
  headersSeen <- 0,
  chunksSeen <- delivered,
  transportEnded <- ws = "closed",
  arrived <- LastDelivered("message", 0),
  lastStatus <- LastDelivered("trailers", Undefined),
  early <- IF started THEN MaxCallbacks ELSE callbacks

\* Seen from the call object the WebSocket is one of the transports that
\* AnyTransportCall describes: what holds there holds here.
IsATransport == AnyTransport!Spec

\* A call that is started is told its end once the method's handler is done
\* with it, or was never reached, unless the application closes it or its
\* metadata cannot be sent: then the call hangs (see README).
EndIsReported ==
  started /\ metadata = "ascii" ~> EndCodes # {} \/ closed \/ server = "serving"

\* The method's handler learns that the client is gone: its context is
\* cancelled or its Read has failed, unless it has returned by itself.
CancelReachesHandler ==
  (closed \/ broken) /\ server = "serving" ~> cancelled \/ reader = "error" \/ server # "serving"

=============================================================================
