------------------------- MODULE WebsocketTransport -------------------------
(***************************************************************************)
(* The WebSocket transport of the client, websocketRequest of              *)
(* src/client/grpc-web/src/transports/websocket/websocket.ts, joined to the *)
(* call object that drives it.  The calls of the application are those of   *)
(* GrpcClient with what they do to the transport; the events of the socket  *)
(* make the upcalls.                                                        *)
(***************************************************************************)
EXTENDS GrpcClient, WebsocketLink

CONSTANT MaxRequests   \* bound: messages the application sends

VARIABLES
  ws,          \* readyState, "none" before start
  sendQueue,
  metadata,    \* "ascii", or "other": encodeASCII throws on the request headers
  sent         \* history: messages given to sendMessage, numbered from 1

transportVars == <<ws, sendQueue, metadata, sent>>

WebsocketInit ==
  /\ ws = "none"
  /\ sendQueue = <<>>
  /\ metadata \in {"ascii", "other"}
  /\ sent = 0

-----------------------------------------------------------------------------
(* Calls of the application *)

\* sendMessage and finishSend: queued while connecting; a socket that closes
\* or is closed drops it.
Transmit(item) ==
  CASE ws = "connecting" -> sendQueue' = Append(sendQueue, item) /\ UNCHANGED up
    [] ws = "open" -> up' = Append(up, item) /\ UNCHANGED sendQueue
    [] OTHER -> UNCHANGED <<sendQueue, up>>

\* The application registers its callbacks first.
AttachCallback ==
  /\ ~started
  /\ \E k \in Kinds : Register(k)
  /\ UNCHANGED <<transportVars, linkVars>>

Connect ==
  /\ callbacks = MaxCallbacks
  /\ Start
  /\ ws' = "connecting"
  /\ UNCHANGED <<sendQueue, metadata, sent, linkVars>>

SendMessage ==
  /\ sent < MaxRequests
  /\ Send
  /\ sent' = sent + 1
  /\ Transmit(sent + 1)
  /\ UNCHANGED <<ws, metadata, taken, down, delivered, broken>>

SendFinish ==
  /\ FinishSend
  /\ Transmit(FinishSendFrame)
  /\ UNCHANGED <<ws, metadata, sent, taken, down, delivered, broken>>

Cancel ==
  /\ Close
  /\ IF ws = "closed"
       THEN UNCHANGED <<ws, up>>
       ELSE /\ ws' = "closing"
            /\ up' = IF ws = "open" THEN Append(up, CloseFrame) ELSE up
  /\ UNCHANGED <<sendQueue, metadata, sent, taken, down, delivered, broken>>

-----------------------------------------------------------------------------
(* Events of the socket *)

\* headersToBytes throws before anything is sent if it cannot encode.
OnOpen ==
  /\ ws = "connecting" /\ stack = <<>>
  /\ ws' = "open"
  /\ up' = IF metadata = "ascii" THEN <<HeadersFrame>> \o sendQueue ELSE up
  /\ UNCHANGED <<sendQueue, metadata, sent, clientVars, taken, down, delivered, broken>>

\* A socket that is closing delivers nothing.
OnMessage ==
  /\ ws = "open"
  /\ DownWaits /\ NextDown # Goodbye
  /\ OnTransportChunk(NextDown)
  /\ delivered' = delivered + 1
  /\ UNCHANGED <<transportVars, up, taken, down, broken>>

\* The socket is closed: it did not connect (or ServeHTTP refused it), the
\* server closed it, the connection broke, or ws.close() is done.
OnClose ==
  /\ \/ ws \in {"connecting", "closing"}
     \/ ws = "open" /\ (broken \/ (DownWaits /\ NextDown = Goodbye))
  /\ OnTransportEnd
  /\ ws' = "closed"
  /\ UNCHANGED <<sendQueue, metadata, sent, linkVars>>

SocketEvent == OnOpen \/ OnMessage \/ OnClose
=============================================================================
