-------------------------- MODULE WebsocketWrapper --------------------------
(***************************************************************************)
(* The server's end of a call over WebSocket: HandleGrpcWebsocketRequest of *)
(* src/go/grpcweb/wrapper.go with webSocketWrappedReader and                *)
(* webSocketResponseWriter of websocket_wrapper.go.                         *)
(*                                                                         *)
(* External, modelled from its use: the wrapped gRPC server.  One goroutine *)
(* calls Read until it fails; the method's handler writes messages, when it *)
(* likes, and returns a status; then the server closes the request body.    *)
(* It ignores errors of Write.  The ping goroutine changes nothing here.    *)
(***************************************************************************)
EXTENDS WebsocketLink

CONSTANTS
  MaxResponses,    \* bound: messages the handler writes
  HandlerCodes,    \* the status a handler may return
  Absent           \* a header frame without grpc-status

VARIABLES
  server,          \* where HandleGrpcWebsocketRequest is
  reader,          \* what the last Read said: "more", "eof" or "error"
  remaining,       \* the request of which remainingBuffer holds the rest, or 0
  draining,        \* the goroutine that Read starts after FINISH_SEND runs
  cancelled,       \* the context is done
  writtenHeaders,
  outbox,          \* WebSocket messages of the Write or Close that is executing
  requests,        \* history: the requests Read has handed over, in order
  responses,       \* history: how many messages the handler has written
  outcome          \* history: what the handler returned

serverVars == <<server, reader, remaining, draining, cancelled, writtenHeaders, outbox,
                requests, responses, outcome>>

None == -1

WrapperInit ==
  /\ server = "handshake"
  /\ reader = "more"
  /\ remaining = 0
  /\ draining = FALSE /\ cancelled = FALSE /\ writtenHeaders = FALSE
  /\ outbox = <<>>
  /\ requests = <<>> /\ responses = 0
  /\ outcome = None

-----------------------------------------------------------------------------
(* HandleGrpcWebsocketRequest *)

\* The first message must hold the headers; every early return leaves the
\* connection as it is.
ReadFirst ==
  /\ server = "handshake"
  /\ \/ /\ UpWaits
        /\ taken' = taken + 1
        /\ server' = IF NextUp = HeadersFrame THEN "serving" ELSE "aborted"
     \/ /\ broken
        /\ server' = "aborted"
        /\ UNCHANGED taken
  /\ cancelled' = (server' = "aborted")    \* defer cancelFunc()
  /\ UNCHANGED <<reader, remaining, draining, writtenHeaders, outbox, requests, responses,
                 outcome, up, down, delivered, broken>>

\* ServeHTTP of the handler returns once the body is closed.
Return ==
  /\ server = "closing" /\ outbox = <<>>
  /\ server' = "returned"
  /\ cancelled' = TRUE
  /\ UNCHANGED <<reader, remaining, draining, writtenHeaders, outbox, requests, responses,
                 outcome, linkVars>>

-----------------------------------------------------------------------------
(* webSocketWrappedReader.Read *)

Reads == server = "serving" /\ reader = "more"

\* Mutant of ReadRest: the rest of the buffer is dropped.
ReadRestLost ==
  /\ Reads
  /\ remaining # 0
  /\ remaining' = 0
  /\ UNCHANGED <<requests, server, reader, draining, cancelled, writtenHeaders, outbox, responses,
                 outcome, linkVars>>

ReadRest ==
  /\ Reads
  /\ remaining # 0
  /\ remaining' = 0
  /\ requests' = Append(requests, remaining)
  /\ UNCHANGED <<server, reader, draining, cancelled, writtenHeaders, outbox, responses,
                 outcome, linkVars>>

\* Mutant of ReadData: FINISH_SEND is not told from a payload.
ReadDataAny ==
  /\ Reads /\ remaining = 0
  /\ UpWaits /\ NextUp >= 0
  /\ taken' = taken + 1
  /\ requests' = Append(requests, NextUp)
  /\ UNCHANGED <<server, reader, remaining, draining, cancelled, writtenHeaders, outbox, responses,
                 outcome, up, down, delivered, broken>>

\* The payload fits the caller's slice, or its rest is kept.
ReadData ==
  /\ Reads /\ remaining = 0
  /\ UpWaits /\ NextUp > 0
  /\ taken' = taken + 1
  /\ \/ requests' = Append(requests, NextUp) /\ UNCHANGED remaining
     \/ remaining' = NextUp /\ UNCHANGED requests
  /\ UNCHANGED <<server, reader, draining, cancelled, writtenHeaders, outbox, responses,
                 outcome, up, down, delivered, broken>>

\* The connection breaks inside a frame, or the frame exceeds the read limit:
\* the data so far comes with an error, and the context is not cancelled.
ReadBroken ==
  /\ Reads /\ remaining = 0
  /\ UpWaits /\ NextUp > 0
  /\ reader' = "error"
  /\ broken' = TRUE
  /\ UNCHANGED <<server, remaining, draining, cancelled, writtenHeaders, outbox, requests,
                 responses, outcome, up, taken, down, delivered>>

ReadFinish ==
  /\ Reads /\ remaining = 0
  /\ UpWaits /\ NextUp = FinishSendFrame
  /\ taken' = taken + 1
  /\ reader' = "eof"
  /\ draining' = TRUE
  /\ UNCHANGED <<server, remaining, cancelled, writtenHeaders, outbox, requests, responses,
                 outcome, up, down, delivered, broken>>

ConnectionEnded == broken \/ (UpWaits /\ NextUp = CloseFrame)

\* messageType = 0: cancel, then the same io.EOF as for FINISH_SEND.
ReadClosed ==
  /\ Reads /\ remaining = 0
  /\ ConnectionEnded
  /\ cancelled' = TRUE
  /\ reader' = "eof"
  /\ UNCHANGED <<server, remaining, draining, writtenHeaders, outbox, requests, responses,
                 outcome, linkVars>>

\* Mutant of Drain: nobody reads after FINISH_SEND.
DrainNothing == FALSE /\ UNCHANGED <<serverVars, linkVars>>

\* The goroutine behind FINISH_SEND reads on only to notice the end.
Drain ==
  /\ draining
  /\ ConnectionEnded
  /\ draining' = FALSE
  /\ cancelled' = TRUE
  /\ UNCHANGED <<server, reader, remaining, writtenHeaders, outbox, requests, responses,
                 outcome, linkVars>>

Read == ReadRest \/ ReadData \/ ReadBroken \/ ReadFinish \/ ReadClosed

-----------------------------------------------------------------------------
(* webSocketResponseWriter *)

\* The five bytes of a frame's header, from which the client's parser makes
\* nothing, and its payload are two messages.
WebsocketFrame(item) == <<<<>>, <<item>>>>

HeaderFrame(status) == WebsocketFrame([type |-> "trailers", val |-> status])

\* Mutant of HandlerWrites: behind the headers the first message is written twice.
HandlerWritesTwice ==
  /\ server = "serving" /\ outbox = <<>>
  /\ responses < MaxResponses
  /\ responses' = responses + 1
  /\ LET frame == WebsocketFrame([type |-> "message", val |-> responses + 1])
     IN  outbox' = IF writtenHeaders THEN frame ELSE HeaderFrame(Absent) \o frame \o frame
  /\ writtenHeaders' = TRUE
  /\ UNCHANGED <<server, reader, remaining, draining, cancelled, requests, outcome, linkVars>>

\* Write: the first one is preceded by WriteHeader.
HandlerWrites ==
  /\ server = "serving" /\ outbox = <<>>
  /\ responses < MaxResponses
  /\ responses' = responses + 1
  /\ outbox' = (IF writtenHeaders THEN <<>> ELSE HeaderFrame(Absent))
                 \o WebsocketFrame([type |-> "message", val |-> responses + 1])
  /\ writtenHeaders' = TRUE
  /\ UNCHANGED <<server, reader, remaining, draining, cancelled, requests, outcome, linkVars>>

\* Mutant of HandlerReturns: the connection is left open.
HandlerReturnsOpen ==
  /\ server = "serving" /\ outbox = <<>>
  /\ server' = "closing"
  /\ outcome' \in HandlerCodes
  /\ outbox' = HeaderFrame(outcome')
  /\ UNCHANGED <<reader, remaining, draining, cancelled, writtenHeaders, requests, responses,
                 linkVars>>

\* The handler returns and the body is closed: Close writes the headers that
\* were not flushed yet, the status among them, and closes the connection.
HandlerReturns ==
  /\ server = "serving" /\ outbox = <<>>
  /\ server' = "closing"
  /\ outcome' \in HandlerCodes
  /\ outbox' = HeaderFrame(outcome') \o <<Goodbye>>
  /\ UNCHANGED <<reader, remaining, draining, cancelled, writtenHeaders, requests, responses,
                 linkVars>>

\* One message of the executing call.  Nothing gets through a connection that
\* is lost, and only the close frame is sent without the context.
Transmission ==
  /\ outbox # <<>>
  /\ outbox' = Tail(outbox)
  /\ down' = IF broken \/ (cancelled /\ Head(outbox) # Goodbye)
               THEN down ELSE Append(down, Head(outbox))
  /\ UNCHANGED <<server, reader, remaining, draining, cancelled, writtenHeaders, requests,
                 responses, outcome, up, taken, delivered, broken>>

ServerStep == ReadFirst \/ Read \/ Drain \/ Transmission \/ Return
=============================================================================
