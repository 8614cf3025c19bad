--------------------------- MODULE HttpTransports ---------------------------
(***************************************************************************)
(* The four transports of the repository that make one HTTP request per     *)
(* call: "xhr" (XHR and MozChunkedArrayBufferXHR, transports/http/xhr.ts),  *)
(* "fetch" (transports/http/fetch.ts), "node" (grpc-web-node-http-transport)*)
(* and "rn" (grpc-web-react-native-transport, ArrayBufferXHR over the queue *)
(* of module DetachQueue).                                                  *)
(*                                                                         *)
(* External, modelled from their use: XMLHttpRequest, fetch and its reader, *)
(* node's http, and the server behind them.  Events come one at a time,     *)
(* when no JavaScript runs.                                                 *)
(***************************************************************************)
EXTENDS TransportUpcalls

CONSTANTS
  Responses,      \* the [status, http, body] a response may start with
  Bodies,         \* the sequences of Item a body may be
  NoResponse

VARIABLES
  kind,           \* which transport the call uses
  body,           \* what the server is going to send
  wire,           \* "idle", "opened", "sent", "open", "complete", "broken" or "aborted"
  answer,         \* the start of the response, or NoResponse
  told,           \* what the transport was told last: "nothing", "headers", "error", "end"
  await,          \* Fetch: the promise or the code that goes on: "response", "pump", "read",
                  \* "catch", "caught" (an exception ended the call) or "none"
  controller,     \* Fetch: there is an AbortController
  reader,         \* Fetch: pump has set this.reader
  cancelled       \* Fetch: this.cancelled

fetchVars == <<await, controller, reader, cancelled>>
wireVars == <<body, wire, answer>>
httpVars == <<kind, wireVars, told, fetchVars>>

HttpInit ==
  /\ body \in Bodies
  /\ wire = "idle" /\ answer = NoResponse
  /\ told = "nothing"
  /\ await = "none"
  /\ controller \in BOOLEAN /\ (kind # "fetch" => controller)
  /\ reader = FALSE /\ cancelled = FALSE

-----------------------------------------------------------------------------
(* The server and the network *)

\* With OK in its headers a response is headers alone, as finishRequest of
\* grpc_web_response.go writes it.
ResponseStarts ==
  /\ wire = "sent"
  /\ answer' \in { r \in Responses : r.status = OK => body = <<>> }
  /\ wire' = IF answer'.body /\ body # <<>> THEN "open" ELSE "complete"
  /\ UNCHANGED <<kind, body, told, fetchVars, upcallVars, clientVars>>

BodyArrives ==
  /\ wire = "open"
  /\ received' = SubSeq(body, 1, Len(received) + 1)
  /\ wire' \in IF received' = body THEN {"complete"} ELSE {"open", "complete"}
  /\ UNCHANGED <<kind, body, answer, told, fetchVars, passed, upcalls, seen, clientVars>>

ConnectionBreaks ==
  /\ wire \in {"sent", "open"}
  /\ wire' = "broken"
  /\ UNCHANGED <<kind, body, answer, told, fetchVars, upcallVars, clientVars>>

Network == ResponseStarts \/ BodyArrives \/ ConnectionBreaks

-----------------------------------------------------------------------------
(* Events of XMLHttpRequest, in XHR and in the React Native transport *)

\* XHR makes the upcalls itself, React Native detaches them.
XhrEvent(call, event) ==
  /\ stack = <<>> /\ wire # "aborted"
  /\ told' = event
  /\ UNCHANGED <<kind, wireVars, fetchVars>>
  /\ \/ /\ kind = "xhr"
        /\ Make(call)
        /\ UNCHANGED upcalls
     \/ /\ kind = "rn"
        /\ upcalls' = Append(upcalls, call)
        /\ UNCHANGED <<received, passed, seen, clientVars>>

OnStateChange ==
  /\ told = "nothing" /\ answer # NoResponse
  /\ XhrEvent(HeadersCall(answer.status, answer.http), "headers")

\* Mutant of OnProgressEvent: index is not moved.
OnProgressFromStart ==
  /\ kind = "xhr" /\ told = "headers" /\ wire # "broken"
  /\ Len(received) > passed
  /\ OnTransportChunk(received)
  /\ passed' = Len(received)
  /\ seen' = [seen EXCEPT !.chunks = @ + 1]
  /\ UNCHANGED <<httpVars, received, upcalls>>

\* Mutant of OnProgressEvent: the length of the response is added to index.
OnProgressAdded ==
  /\ kind = "xhr" /\ told = "headers" /\ wire # "broken"
  /\ Len(received) > passed
  /\ OnTransportChunk(SubSeq(received, passed + 1, Len(received)))
  /\ passed' = passed + Len(received)
  /\ seen' = [seen EXCEPT !.chunks = @ + 1]
  /\ UNCHANGED <<httpVars, received, upcalls>>

\* The response from index on.  ArrayBufferXHR has no use for this event.
OnProgressEvent ==
  /\ kind = "xhr" /\ told = "headers" /\ wire # "broken"
  /\ Len(received) > passed
  /\ XhrEvent(ChunkCall(Len(received)), "headers")

\* The "error" event; "loadend" follows at once.
OnErrorEvent ==
  /\ wire = "broken" /\ told \in {"nothing", "headers"}
  /\ XhrEvent(EndCall, "error")

OnLoadEvent ==
  /\ kind = "xhr"
  /\ \/ wire = "complete" /\ told = "headers" /\ passed = Len(received)
     \/ told = "error"
  /\ XhrEvent(EndCall, "end")

\* ArrayBufferXHR: the whole response, empty after an error, and the end.
OnLoadEventArrayBuffer ==
  /\ kind = "rn" /\ stack = <<>> /\ wire # "aborted"
  /\ \/ wire = "complete" /\ told = "headers"
     \/ told = "error"
  /\ upcalls' = upcalls \o <<ChunkCall(IF told = "error" THEN 0 ELSE Len(received)), EndCall>>
  /\ told' = "end"
  /\ UNCHANGED <<kind, wireVars, fetchVars, received, passed, seen, clientVars>>

\* runCallbacks, whose order is the subject of DetachQueue.  The headers are
\* read only now; an error leaves them, and after an abort nobody listens.
DetachedRuns ==
  /\ kind = "rn"
  /\ RunUpcall
  /\ UNCHANGED httpVars

-----------------------------------------------------------------------------
(* NodeHttp *)

NodeResponse ==
  /\ kind = "node" /\ stack = <<>> /\ told = "nothing"
  /\ answer # NoResponse /\ wire # "aborted"
  /\ UpHeaders(answer.status, answer.http)
  /\ told' = "headers"
  /\ UNCHANGED <<kind, wireVars, fetchVars, upcalls>>

\* response.on("data")
NodeData ==
  /\ kind = "node" /\ stack = <<>> /\ told = "headers" /\ wire # "aborted"
  /\ \E n \in passed + 1 .. Len(received) : UpChunk(n)
  /\ UNCHANGED <<httpVars, upcalls>>

\* response.on("end"): never emitted for a response that breaks off.
NodeEnd ==
  /\ kind = "node" /\ stack = <<>> /\ told = "headers"
  /\ wire = "complete" /\ passed = Len(received)
  /\ UpEnd
  /\ told' = "end"
  /\ UNCHANGED <<kind, wireVars, fetchVars, upcalls>>

\* request.on("error")
NodeError ==
  /\ kind = "node" /\ stack = <<>> /\ told = "nothing"
  /\ wire = "broken" /\ answer = NoResponse
  /\ UpEnd
  /\ told' = "end"
  /\ UNCHANGED <<kind, wireVars, fetchVars, upcalls>>

-----------------------------------------------------------------------------
(* Fetch *)

Resumes(promise) == kind = "fetch" /\ stack = <<>> /\ await = promise

\* The promise of fetch() resolves.
FetchResponse ==
  /\ Resumes("response")
  /\ answer # NoResponse /\ wire # "aborted"
  /\ UpHeaders(answer.status, answer.http)
  /\ await' = IF answer.body THEN "pump" ELSE "none"
  /\ UNCHANGED <<kind, wireVars, told, controller, reader, cancelled, upcalls>>

\* Mutant of Pump: the first pump does not look at cancelled.
PumpOn ==
  /\ Resumes("pump")
  /\ reader' = TRUE
  /\ await' = "read"
  /\ UNCHANGED <<wire, kind, body, answer, told, controller, cancelled, upcallVars, clientVars>>

Pump ==
  /\ Resumes("pump")
  /\ reader' = TRUE
  /\ IF cancelled
       THEN await' = "none" /\ wire' = IF wire = "open" THEN "aborted" ELSE wire
       ELSE await' = "read" /\ UNCHANGED wire
  /\ UNCHANGED <<kind, body, answer, told, controller, cancelled, upcallVars, clientVars>>

\* read() resolves with a value; an exception in onChunk goes to the catch.
ReadValue ==
  /\ Resumes("read") /\ wire # "aborted"
  /\ \E n \in passed + 1 .. Len(received) :
       /\ UpChunk(n)
       /\ await' = IF ~closed /\ \E i \in passed + 1 .. n : received[i].type = "bad"
                     THEN "catch" ELSE "pump"
  /\ UNCHANGED <<kind, wireVars, told, controller, reader, cancelled, upcalls>>

ReadDone ==
  /\ Resumes("read")
  /\ wire = "complete" /\ passed = Len(received)
  /\ UpEnd
  /\ await' = "none"
  /\ UNCHANGED <<kind, wireVars, told, controller, reader, cancelled, upcalls>>

\* fetch() or read() is rejected, or onChunk threw.
Catch ==
  /\ \/ Resumes("catch")
     \/ (Resumes("response") \/ Resumes("read")) /\ wire \in {"broken", "aborted"}
  /\ IF cancelled
       THEN UNCHANGED <<upcallVars, clientVars>>
       ELSE UpEnd /\ UNCHANGED upcalls
  /\ cancelled' = TRUE
  /\ await' = IF await = "catch" THEN "caught" ELSE "none"
  /\ UNCHANGED <<kind, wireVars, told, controller, reader>>

-----------------------------------------------------------------------------
(* Calls of the client *)

\* start.  XHR and ArrayBufferXHR open the request and listen to it, node makes
\* it with its callbacks; Fetch only keeps the metadata for later.
XhrStart == kind = "xhr" /\ wire' = "opened"
ArrayBufferXhrStart == kind = "rn" /\ wire' = "opened"
NodeStart == kind = "node" /\ wire' = "opened"
FetchStart == kind = "fetch" /\ UNCHANGED wire

HttpStart ==
  /\ XhrStart \/ ArrayBufferXhrStart \/ NodeStart \/ FetchStart
  /\ UNCHANGED <<kind, body, answer, told, fetchVars, upcallVars>>

\* sendMessage: xhr.send needs an open request, node writes and ends it, fetch()
\* makes it.
XhrSend == kind = "xhr" /\ wire = "opened" /\ UNCHANGED await
ArrayBufferXhrSend == kind = "rn" /\ wire = "opened" /\ UNCHANGED await
NodeSend == kind = "node" /\ wire = "opened" /\ UNCHANGED await
FetchSend == kind = "fetch" /\ await' = "response"

HttpSend ==
  /\ XhrSend \/ ArrayBufferXhrSend \/ NodeSend \/ FetchSend
  /\ wire' = "sent"
  /\ UNCHANGED <<kind, body, answer, told, controller, reader, cancelled, upcallVars>>

\* cancel.  XHR and node emit the end while close() runs, which the call object
\* ignores; React Native detaches it.
XhrCancel == kind = "xhr" /\ wire' = "aborted" /\ UNCHANGED <<upcalls, cancelled>>
NodeCancel == kind = "node" /\ wire' = "aborted" /\ UNCHANGED <<upcalls, cancelled>>

ArrayBufferXhrCancel ==
  /\ kind = "rn"
  /\ wire' = "aborted"
  /\ upcalls' = IF told # "end" THEN upcalls \o <<ChunkCall(0), EndCall>> ELSE upcalls
  /\ UNCHANGED cancelled

\* Fetch aborts with a controller or cancels its reader, unless its catch has
\* set cancelled before.
FetchCancel ==
  /\ kind = "fetch"
  /\ wire' = IF ~cancelled /\ (controller \/ reader) THEN "aborted" ELSE wire
  /\ cancelled' = TRUE
  /\ UNCHANGED upcalls

HttpCancel ==
  /\ XhrCancel \/ ArrayBufferXhrCancel \/ NodeCancel \/ FetchCancel
  /\ UNCHANGED <<kind, body, answer, told, await, controller, reader, received, passed, seen>>

TransportEvent ==
  \/ OnStateChange \/ OnProgressEvent \/ OnErrorEvent \/ OnLoadEvent \/ OnLoadEventArrayBuffer
  \/ DetachedRuns
  \/ NodeResponse \/ NodeData \/ NodeEnd \/ NodeError
  \/ FetchResponse \/ Pump \/ ReadValue \/ ReadDone \/ Catch
=============================================================================
