# A verification development for grpc-web

TLA+ models of `improbable-eng/grpc-web`: the TypeScript client under
`src/client/grpc-web`, its transports, and the Go wrapper and proxy under
`src/go`. TLC checks the models on small instances; TLAPS proves theorems about
them for every value of their constants. File names below are relative to `src/`.

## 1. The system

A browser application makes a gRPC call through a `GrpcClient`
(`client/grpc-web/src/client.ts`). The client frames the request and gives it to
a *transport*; the transport reports the response with three upcalls,
`onHeaders`, `onChunk` and `onEnd`. The client cuts the chunks into frames with
a `ChunkParser` and calls the application's callbacks. On the other side the Go
package `go/grpcweb` turns a gRPC-Web request, over HTTP or over a WebSocket,
into a gRPC request for a wrapped server, and writes the trailers as a last
frame of the body. `go/grpcwebproxy` is a proxy built on it, with a health
endpoint that follows the health of its backend.

### Inventory

| part | state | operations | hard behaviour | what makes it correct |
|---|---|---|---|---|
| call object, `client.ts` | `started`, `sentFirstMessage`, `finishedSending`, `closed`, `completed`, `responseHeaders`, `responseTrailers`, three callback lists, a parser | `start send finishSend close onHeaders onMessage onEnd`; upcalls `onTransportHeaders onTransportChunk onTransportEnd` | the application is called in the middle of every handler and may call back; the response may be anything, cut anywhere; a callback or a deserializer throws | one end per callback, all with the same code; nothing after it; messages in order, none missing; OK only if the server said so; silence after `close`; the end is not forgotten |
| frame parser, `ChunkParser.ts` | `buffer`, `position` | `parse` | a chunk ends anywhere, also inside a header; trailers that do not decode | frames come out whole, in order, as early as possible; an exception leaves it at a frame boundary |
| XHR, Fetch, Node transports, `transports/http`, `grpc-web-node-http-transport` | `index`, `reader`, `cancelled`, the request | `start sendMessage finishSend cancel`, browser events | cancel against the first read; errors reported twice or never; no body | headers, then chunks, then the end |
| WebSocket transport, `transports/websocket` | `sendQueue`, the socket | same | messages before the socket opens; cancel while connecting; metadata that is not ASCII | request order; the end is reported |
| React Native transport | `awaitingExecution` and one timer for the whole module | `detach`, `runCallbacks` | a callback throws or detaches others | order, each once, none lost, one timer |
| fake transport | a mock and its triggers | `sendHeaders sendMessages sendTrailers sendAll` | upcalls from inside the client's own calls | same as any transport |
| `unary.ts`, `invoke.ts` | what was received; closed or not | `close` and the four calls | close after the end | the output is reported once |
| HTTP response writer, `grpc_web_response.go`, `header.go` | `wroteHeaders`, `wroteBody`, the headers, the base64 encoder | `Write WriteHeader Flush finishRequest` | trailers known only at the end; headers-only responses; flush in the middle of a base64 group | headers once; every trailer that was not a header is in the trailers frame |
| WebSocket wrapper, `websocket_wrapper.go` | `writtenHeaders`, `flushedHeaders`, the timer, `remainingBuffer`, `remainingError`, a context | `Read Write WriteHeader FlushTrailers Close`, `ping` | three goroutines on one connection; cancel while writing | header frame, messages, trailers frame, close |
| dispatch and CORS, `wrapper.go`, `helpers.go`, `options.go` | options, the allowed headers | `ServeHTTP` and the handlers | which requests reach which handler; early returns | only permitted origins and registered methods |
| health check, `health.go`, `grpcwebproxy/main.go` | `shouldBackoff`, the backoff source, the stream, `status` | the check's loop, `GetStatus` | backend restarts, broken connections, cancellation in every state | never 200 without an open stream that said so; converges; returns when cancelled |
| proxy assembly, `grpcwebproxy` | flags, connections | start-up | origins configured once and compared in two ways | a listed origin is served over HTTP and WebSocket |

Interaction: the client calls its transport synchronously; the transport calls
back from browser events (or, the fake transport, from inside the client's
call); the health check writes `healthChecker.status` under a mutex from its own
goroutine while HTTP handlers read it. `PROJECT.json` lists the hazards of the
code, each at its line, and the properties that watch it.

## 2. Modules

| module | models | source |
|---|---|---|
| `GrpcClient` | the call object: state and actions, no transport | `client.ts`, `Code.ts` |
| `AnyTransportCall` | `GrpcClient` under the most general transport and application; the properties of a call | `transports/Transport.ts` and what all transports do |
| `CallLifecycle` | abstract: what a call promises the application | implemented by `AnyTransportCall` |
| `MCAnyTransportCall` | values of the constants for TLC | |
| `AnyTransportCall_proofs` | theorems about a call over any transport (types, one end), and over transports that do not nest upcalls (nothing after the end, the refinement of `CallLifecycle`) | |
| `CompleteCall_proofs` | theorems for responses that deserialize: no gap, OK means all delivered | |
| `ChunkParser`, `MCChunkParser` | the parser fed byte by byte | `ChunkParser.ts`, the encoder of `grpc_web_response.go` |
| `HealthCheck` | the proxy's health check against a failing backend | `health.go`, `main.go` |
| `HealthCheck_proofs` | its theorems | |
| `DetachQueue` | the React Native queue of detached callbacks | `grpc-web-react-native-transport/src/index.ts` |
| `DetachQueue_proofs` | its theorems | |
| `WebsocketTransport` | the client's WebSocket transport, on top of `GrpcClient` | `transports/websocket/websocket.ts` |
| `WebsocketLink` | one WebSocket connection (external) | |
| `WebsocketWrapper` | the server's end of the WebSocket | `websocket_wrapper.go`, `HandleGrpcWebsocketRequest` of `wrapper.go` |
| `WebsocketCall`, `MCWebsocketCall` | a whole call over WebSocket: the three above composed | |
| `WebsocketCall_proofs` | theorems: the requests at the handler, the refinement of `AnyTransportCall`, the code the client is told, types | |
| `TransportUpcalls` | the upcalls a transport makes to the call object | `transports/Transport.ts` |
| `HttpTransports` | the XHR, Fetch, Node and React Native transports and the HTTP exchange under them | `transports/http/xhr.ts`, `fetch.ts`, the two transport packages |
| `FakeTransport` | the scripted transport | `grpc-web-fake-transport/src/index.ts` |
| `UnaryCall`, `MCUnaryCall` | `unary` over each of these transports | `unary.ts`, `invoke.ts` |
| `UnaryCall_proofs` | theorems: the order of upcalls of each transport, the refinement of `AnyTransportCall`, types, one output | |
| `UnaryAnswers_proofs` | theorems about what `unary` reports: the response, or the script of the fake transport | |
| `GrpcWebResponse` | the response writer and its base64 writer | `grpc_web_response.go`, `header.go` |
| `WebServer`, `MCWebServer` | one HTTP request at the wrapped server, configured by options or by the proxy | `wrapper.go`, `helpers.go`, `options.go`, `grpcwebproxy/main.go` |
| `WebServer_proofs` | its theorems | |

`AnyTransportCall` is the hub on the client's side: it describes *any* transport,
`WebsocketCall` and `UnaryCall` show by refinement (`IsATransport`) that the six
transports of the repository are such transports, and so what is checked or
proved of `AnyTransportCall` is true of them. The refinement is proved for all six,
and the proofs about `UnaryCall` and `WebsocketCall` cite the theorems of
`AnyTransportCall`.

### GrpcClient: handlers with a stack

JavaScript runs one handler at a time, but the client hands control to the
application once per callback, inside `forEach`, and the application may
`close`, `send` or register another callback before the loop goes on. A model
with one atomic step per handler would hide all of this. The module therefore
keeps the unfinished handlers on `stack`, the running one last:

- a *loop frame* is a `forEach` over the callbacks of one kind (`rawOnHeaders`,
  `rawOnMessage`, `rawOnEnd`/`rawOnError`), with its position, the range it was
  started with (`forEach` does not visit what is added later), and `busy` while
  the application has control;
- a *chunk frame* is `data.forEach` of `onTransportChunk`, with the items left;
- a *fail frame* is the end of `onTransportHeaders`: `rawOnError` after the
  headers callbacks.

Each action is one stretch of code between two changes of control. `closed` is
read again at each callback as in the code, `completed` only where the code reads
it. An exception of a callback is caught by the code and deferred with
`setTimeout`, so returning and throwing are one action (`CallbackReturns`). An
exception of `deserializeBinary` is not caught: it ends the chunk frame
(item type `bad` in `ProcessItem`).

A `Metadata` is abstracted to what `getStatusFromHeaders` reads from it: an
integer, `NaN` or `NoStatus` (null). The truth tests of the code are kept:
`gRPCStatus && gRPCStatus >= 0` fails for null, NaN, 0 and negative numbers
(`HeaderCode`), while `onTransportEnd` tests only for null (`EndCode`), so NaN
and negative codes do reach the application.

`heard` is a history variable: what each callback was given.

### AnyTransportCall: the environment

The transport may deliver any headers and any sequence of chunks of parsed items,
split in any way, an unparsable chunk, and `onEnd`, as often as it likes. It
keeps only what all transports of the repository keep: nothing before `start`,
headers before chunks, no headers or chunks after the end. It may go on after
`close`, since no transport stops at once. `Reentrant` lets it call back from
inside a callback, as the fake transport does; `HeadersFirst` distinguishes HTTP
from WebSocket, where the first trailers frame holds the headers. Whatever is
checked and proved here holds for each transport.

`arrived` numbers the messages handed over; `lastStatus` remembers what the
server said last; `early[k]` counts callbacks registered before `start`.

### ChunkParser

The state is `buffer` and `position`; a response is encoded byte by byte and cut
anywhere; empty chunks occur too. `Scan` is the `while (true)` loop of `parse` as
a recursive function of the position. `parse` returns after a trailers frame
even if complete frames follow; the next call goes on with them.

### HealthCheck

`pc` follows `ClientHealthCheck` statement by statement between blocking points.
The backend is external: it serves, does not serve, is down, or does not
implement the service; a `Watch` stream delivers the latest status, and breaks.
The backoff source is external: positive waits until `MaxElapsedTime` has passed
since `Reset` (action `TimePasses`), then `Stop` = -1.

### DetachQueue

Callbacks are numbered in the order in which they are detached. One callback's
run is one step, in which it may detach others and then return or throw; no
event can interrupt it. An HTTP event (`Detach`) happens between steps of the
event loop only, that is when `runCallbacks` is not running.

### WebsocketCall

`WebsocketTransport` joins each call of the application (`Start`, `Send`,
`FinishSend`, `Close` of `GrpcClient`) with what the call does to the socket, in
one step, and adds the socket's events. Messages upwards are numbers, the
finish-send byte and the headers; a message downwards is the sequence of items
the client's parser makes of it, so that the two WebSocket messages of a gRPC
frame (header, then payload) are `<<>>` and `<<item>>`. The refinement reads
`arrived` and `lastStatus` off the messages that were delivered
(`LastDelivered`).

`WebsocketWrapper` has one action for each way `Read` can return, the goroutine
that `Read` starts after `FINISH_SEND` (`Drain`), `Write` (which leaves its
WebSocket messages in `outbox`, sent one by one so that a cancellation or a break
may fall between any two), and the end of the handler, where the body is closed
and with it the trailers and the close frame are written. The gRPC server behind
it is external: it reads until `Read` fails, writes when it likes, ignores write
errors, returns when it likes.

The connection may break at any moment; `ReadBroken` is a break in the middle of
a frame, or a frame beyond the read limit, which returns data and error together
and does not cancel the context.

### UnaryCall

`kind` chooses the transport for the whole behaviour. `wire` is the HTTP
exchange; the server (external) answers with the start of a response, an HTTP
error, a status in the headers or a 204 without a body, then sends the items of
`body`, and may stop early; the connection may break. `received` is what has
arrived, `passed` what the transport has handed over; an event may come late and
cover several items. XHR makes its upcalls itself; React Native appends them to
`upcalls`, which is the queue of `DetachQueue` seen from one call. Fetch is cut at
each promise: `await` says which continuation is due. A trigger of the fake
transport appends the upcalls of the script, which are made one after the other.

The order in which a script's errors count (`ScriptedCode`) is that of the
code: an error before the headers hides one before the messages, and that one
hides one in the trailers.

Events that come while `close()` itself runs (`abort` dispatches `loadend`) find
the call closed, change nothing and are left out.

### WebServer and GrpcWebResponse

A header key is a name with or without the prefix `Trailer:`. `CopyHeader` returns
every result `copyHeader` can have, because Go visits maps in any order. The body
is a sequence of numbered bytes; `out` keeps apart what the base64 encoder still
holds. The handler is any `http.Handler`: it sets, writes and flushes in any order,
and calls `WriteHeader` before it has written or not at all.

`ServeHTTP` routes one request (`Route`) under one configuration; paths are
sequences of segments, which `GetGRPCEndpoint` cuts as the regular expression
does; origins are pairs of scheme and host, and what `WebsocketRequestOrigin`
returns has no scheme. rs/cors is external.

## 3. Runs

| run | checks | bounds |
|---|---|---|
| `AnyTransportCall` | `TypeOK`, `NoGapNoRepeat`, `OkMeansAllDelivered`, `OkIsTheServers` | 1 headers upcall, 2 chunks of up to two messages and trailers, 2 messages, 2 message callbacks, statuses 0, 5, -1, NaN, none; HTTP 0, 200, 503 |
| `CallLifecycle` | `NothingAfterEnd`, refinement `KeepsLifecycle` | 2 message and 2 end callbacks, messages that do not deserialize |
| `ReentrantTransport` | `AtMostOneEnd`, liveness `EndIsReported` | upcalls nested in callbacks, 2 headers upcalls (the fake transport's `preMessagesError` makes two), `send`/`finishSend` |
| `UndecodableMessage` | `OkMeansAllDelivered` is violated | HTTP order, 2 messages |
| `ChunkParser` | `TypeOK`, `DeliversFrames`, `ThrowsOnBadTrailersOnly`, `StandsAtFrame` | all responses of one to three frames out of six, all cuts |
| `HealthCheck` | `TypeOK`, `ServingOnlyOnStream`, `CancelReturns`, `StatusConverges` | 3 changes of the backend, 2 broken connections |
| `HealthBackoff` | `BacksOff` is violated | 1 change |
| `DetachQueue` | `TypeOK`, `RunInOrder`, `OneTimer`, `AllRun` | 7 callbacks, 2 detached by each |
| `WebsocketCall` | `TypeOK`, `RequestsInOrder`, `CodeIsTheHandlers`, refinement `IsATransport`, liveness `EndIsReported` and `CancelReachesHandler` | 2 requests, 1 response, statuses 0 and 5, one message and one end callback, one break |
| `UnaryCall` | `TypeOK`, `OneOutput`, `OutputIsTheResponse`, `TellsTheScript`, refinement `IsATransport`, liveness `EndIsReported` and `CloseStopsTheResponse` | 5 transports, 8 responses, 6 bodies of up to 2 messages and trailers, 16 scripts |
| `WebServer` | `TypeOK`, `CheckedPathIsServed`, `WireIsWhatWasWritten`, `TextIsAnnounced`, `NoHeaderIsLost`, `ValuesAreTheHandlers` | 5 configurations, 86 requests with each, 4 more followed to the end of their response; 3 headers set, 4 bytes written, 1 flush |
| `AllowedOrigins` | `AllowedOriginsServed` is violated | the proxy with one listed origin URL |

Why these bounds suffice. Two chunks and two messages let an error come between
messages, messages follow an error in the same or a later chunk, and trailers
come alone, with messages, or twice (headers and trailers of a WebSocket). Two
callbacks of a kind are the least for which a loop can be interrupted in the
middle; more behave like the second. Three frames let the parser be stopped by
trailers with a complete and an incomplete frame behind; frames of zero, one and
two bytes, with the bytes 128 and 200, cover cuts everywhere and content that
looks like a header. Three changes let a backend go down, come back and change
its answer. Seven callbacks let an exception hit a queue that already holds
callbacks put back by an earlier one. Over WebSocket, two requests are the least
that can be in the wrong order, one before and one after the socket opens, and
one response lies between the headers frame and the trailers frame. Four bytes
are one base64 group and a rest; three headers allow a name to be set, flushed
and set again, or set with and without `Trailer:`, next to a name that the CORS
wrapper uses as well (`vary`).

`DetachQueue`, `WebsocketCall`, `UnaryCall` and `WebServer` may stop (everything has
run, the call is over, the request is answered), so their runs do not check
deadlock; the liveness properties say that a call does not stop too early. The other models never stop: `onEnd` may always come again, an empty
chunk may always be parsed, and a returned health check idles (`Returned`).

### Fairness

- `AnyTransportCall!FairSpec`: weak fairness of `Handler` and `Return`. The
  JavaScript engine runs a handler to its end, and a callback of the application
  returns. Nothing is assumed of the transport or the application's calls.
- `HealthCheck!FairSpec`: weak fairness of the check's own steps (the goroutine
  is scheduled, timers fire, calls return) and strong fairness of `ContextDone`,
  because `select` chooses at random among ready cases and the zero waits after
  `Stop` keep both ready again and again. The backend, the network and whoever
  cancels are under no obligation.
- `DetachQueue!Spec`: weak fairness of `Run`: timers fire.
- `WebsocketCall!FairSpec`: weak fairness of the socket's events, of JavaScript's
  handlers, of the server's own code (read, write, return) and of the draining
  goroutine. The method's handler may run for ever, so `EndIsReported` asks for an
  end only when it has returned; the application and the network owe nothing.
- `UnaryCall!FairSpec`: weak fairness of JavaScript (handlers, events, promises) and
  of the synchronous body of `unary`. The server and the network owe nothing:
  the properties start from a response that is complete or a broken connection.

### What the liveness properties leave out

Four situations in which the code never tells the end or does not stop the
response are excluded by name in the properties, since the documentation
promises nothing about them:

- WebSocket, metadata that is not ASCII: `headersToBytes` throws inside `onopen`
  (`websocket.ts:60`), nothing is sent, and the call waits for ever. If a message
  is sent afterwards, the server takes it for the headers and returns without
  closing the connection (`wrapper.go:202-208`); the model has no message of the
  application that happens to parse as headers.
- Node, the connection breaks after the response has started: `index.ts` listens
  to `data` and `end` of the response, neither of which comes.
- Fetch, a response with HTTP status 200, no error in its headers and a body that is
  null, as a service worker can make one: `fetch.ts` reads nothing and the headers
  alone are no end. The 204, and an error in the headers of a response without a
  body, are told and are not excluded. With Node's case this is `EndIsNotSeen`.
- Fetch, an exception in `onChunk` (a message that does not deserialize): the
  `catch` ends the call and sets `cancelled`, after which `close()` returns early
  (`fetch.ts:106`) and does not abort the response. `await = "caught"`.

### A header that is lost

`NoHeaderIsLost` excepts one case by name (`TakenForSent`): the handler has called
`WriteHeader` or `Write` and then sets a header, without `Trailer:`, whose name the
CORS wrapper alone has sent, `vary` say. `extractTrailingHeaders`
(`grpc_web_response.go:112`) skips all names that the wrapped writer holds, so that the
handler's value is neither among the headers nor in the trailers frame. `access-control-expose-headers`,
which `prepareHeaders` sets itself over whatever the handler has set, is lost early or
late; the model leaves this name out. `TakenForSent` is as narrow as that: a header set early replaces the
CORS wrapper's (which `ValuesAreTheHandlers` permits), and one with the prefix is always
in the frame. No document of the repository promises more.

### Three disagreements with the documentation

1. *A lost message can end in OK* (`UndecodableMessage`).
   `docs/concepts.md:34` says that `0 - OK` means the request was completed
   successfully. If `deserializeBinary` throws (`client.ts:128`), the exception
   leaves `onTransportChunk`; the message and the rest of its chunk are dropped,
   nothing is recorded, and with the XHR or WebSocket transport, whose event
   handlers swallow it, later trailers with status 0 end the call with OK. (With
   Fetch the promise's `catch` calls `onEnd`.)
2. *Backoff stops after fifteen minutes* (`HealthBackoff`). `health.go:25` says
   that the check backs off after a failure without a message. The exponential
   backoff keeps its default maximal elapsed time; afterwards `NextBackOff`
   returns -1, `time.After(-1)` fires at once and the check reconnects in a tight
   loop until a message arrives.
3. *Listed origins and WebSockets* (`AllowedOrigins`). `--allowed_origins` takes
   "origin URLs" (`go/grpcwebproxy/main.go:39`), for "Http and WebSocket
   connections" (`go/grpcwebproxy/README.md:97`). The HTTP check compares the
   `Origin` header with them; the WebSocket check compares its host alone
   (`helpers.go:40`), so a page on a listed origin is refused with 403, and a bare
   host in the list has the opposite effect.

## 4. Proofs

Eight modules hold theorems; tlapm checks every proof to its leaves. Each
theorem holds for every value of the constants that satisfies the named
assumptions of the modules it is about. Every inductive invariant below was
first checked by TLC on the constants of the run of its module.

| theorem | states | inductive invariant | beyond the assumptions |
|---|---|---|---|
| `AnyTransportCall_proofs!TypeCorrect` | `TypeOK` | itself | |
| `AnyTransportCall_proofs!AtMostOneEndHolds` | `AtMostOneEnd` | `TypeOK`, `EndInv` | |
| `AnyTransportCall_proofs!NothingAfterEndHolds` | `NothingAfterEnd` | `CallInv` | `~Reentrant` |
| `AnyTransportCall_proofs!KeepsLifecycleHolds` | refinement of `CallLifecycle` | `CallInv` | `~Reentrant` |
| `CompleteCall_proofs!NoGapNoRepeatHolds` | `NoGapNoRepeat` | `CallInv`, `MessagesInv` | `~Reentrant`, `~BadMessages` |
| `CompleteCall_proofs!OkMeansAllDeliveredHolds` | `OkMeansAllDelivered` | `CompleteInv` | the same |
| `CompleteCall_proofs!OkIsTheServersHolds` | `OkIsTheServers` | `CompleteInv` | the same |
| `UnaryCall_proofs!TransportsInOrder` | `TransportInv`, what each transport has told | itself | |
| `UnaryCall_proofs!TransportsConform` | refinement of `AnyTransportCall` (`IsATransport`) | `TransportInv` | |
| `UnaryCall_proofs!UnaryTypeCorrect` | `TypeOK` | `TransportInv`, `UnaryInv`, `CallInv` of the call | |
| `UnaryCall_proofs!UnaryGivesOneOutput` | `OneOutput` | `UnaryInv`, `CallInv` | |
| `UnaryAnswers_proofs!OutputIsTheResponseHolds` | `OutputIsTheResponse` | the above, `AnswerInv`, `HeadersInv`, `CleanInv`, `HeadersGiven` | |
| `UnaryAnswers_proofs!TellsTheScriptHolds` | `TellsTheScript` | the above, `ScriptTold` | |
| `HealthCheck_proofs!TypeCorrect` | `TypeOK` | itself | |
| `HealthCheck_proofs!ServingOnlyOnStreamHolds` | `ServingOnlyOnStream` | itself | |
| `DetachQueue_proofs!RunInOrderHolds` | `RunInOrder` | `IInv` | |
| `DetachQueue_proofs!OneTimerHolds` | `OneTimer` | `IInv` | |
| `DetachQueue_proofs!TypeCorrect` | `TypeOK` | `IInv` | |
| `WebsocketCall_proofs!RequestsInOrderHolds` | `RequestsInOrder` | `Inv` | |
| `WebsocketCall_proofs!WebsocketConforms` | refinement of `AnyTransportCall` (`IsATransport`) | `Inv`, `DownInv`, `HandshakeInv`, `HandInv` | |
| `WebsocketCall_proofs!CodeIsTheHandlersHolds` | `CodeIsTheHandlers` | the above, `CompleteInv` of the call, `OutcomeInv`, `TrailersInv`, `EndsInv` | `~Reentrant` |
| `WebsocketCall_proofs!WebsocketTypeCorrect` | `TypeOK` | `Inv`, `DownInv`, `Ranges`, `TypeOK` of the call | |
| `WebServer_proofs!TypeCorrect` | `TypeOK` | `TypeInv` | |
| `WebServer_proofs!CheckedPathIsServedHolds` | `CheckedPathIsServed` | `DispatchInv` | |
| `WebServer_proofs!TextIsAnnouncedHolds` | `TextIsAnnounced` | `DispatchInv`, `HeadersInv` | |
| `WebServer_proofs!NoHeaderIsLostHolds` | `NoHeaderIsLost` | `HeadersInv`, `FrameInv` | |
| `WebServer_proofs!ValuesAreTheHandlersHolds` | `ValuesAreTheHandlers` | `HeadersInv`, `FrameInv` | |

### The call

- *Types.* `TypeOK` is inductive because it contains the one fact about frames
  that the typing of `heard` needs: no loop runs past the number of callbacks.
- *One end.* `AtMostOneEnd` does not say why a second loop over the end callbacks
  cannot start. `EndLoopOnce` does: at most one end loop is on the stack, only
  after `completed` was set, nobody has heard an end before it, and it has told
  its own code to the callbacks below its position and to no other. Re-entrant
  transports included.
- *Nothing after the end.* A loop over message callbacks that began before the
  end loop could go on after it. `Shape` excludes this: the stack has at most two
  frames, a chunk or fail frame below a loop, and once `completed` is set no
  headers or message loop is left. This is where `~Reentrant` is needed. A
  transport that calls back from inside a callback, the fake transport alone, puts
  the end loop on top of an unfinished message loop, which then goes on; the run
  `ReentrantTransport` checks what remains true of it.
- *The life cycle.* `InOrder` numbers the messages: the items left in the chunk
  frame are those after the `Taken` ones, the message loop is at number `Taken`,
  and no callback has heard more than the loop has reached. With it each action
  maps to a step of `CallLifecycle` or to a stutter: `InvokeCallback` in a message
  loop to a delivery, in an end loop to an end, `Close` to the abstract close.
- *No gap.* `UpToDate` adds what the safety property leaves out: while the call
  is open, a callback that has heard anything has heard up to where the loop is,
  and one registered before start has heard all from the first. An item that does
  not deserialize makes this false, since the rest of its chunk is dropped; hence
  `~BadMessages`, and the run `UndecodableMessage` shows that without it
  `OkMeansAllDelivered` is false of the code.
- *OK.* `StatusKnown` ties `lastStatus` to what the client holds or will still
  process: the trailers at the end of the chunk frame, else `responseTrailers`,
  else the headers. `FailsWithError` says that `rawOnError` is never called with OK
  after the headers. `OkDone` says that once OK is on its way the response is
  complete and everything that arrived was delivered. Only `onTransportEnd` can
  make a call OK. The lemmas underneath are stated for every code (`Reports`,
  `EndsWith`, `FailsWith`: a code that is reported was reported already, or this step
  is `onTransportEnd`, or an error of the headers), since the WebSocket needs them for
  errors as well.

`~Reentrant` and `~BadMessages` are conditions on constants that the runs
`AnyTransportCall` and `WebsocketCall` set; `~Reentrant` holds of all transports of
the repository but the fake one, which nests its upcalls only when the
application triggers it from inside a callback. `UnaryCall` has it too: `unary`
gives the application control only in `props.onEnd`, and a test triggers the fake
transport from outside.

### unary over its transports

- *The transports.* `TransportInv` says for each transport what it may have told
  at each point of its own course. XHR and Node have told nothing before
  `onHeaders`, and the end last (`XhrAndNode`). Fetch waits for a promise whenever it
  has more to tell (`FetchWaits`). React Native has detached the headers first, then
  one chunk, and a chunk behind an end is empty (`Detached`): its events make
  two ends and a late chunk, and the refinement holds because that chunk carries
  nothing. The upcalls of the fake transport, made and waiting, are those of the
  script in its order (`Scripted`): at most two headers, the second only with an
  error before the messages. What has arrived is the beginning of what the server
  sends (`Arrives`).
- *The refinement.* The state of `AnyTransportCall` is read off: `arrived` counts
  the messages handed over, `lastStatus` is what was handed over last. Each upcall is
  a step of the general transport (`UpcallImplements`), whichever transport makes it;
  the headers step needs `TransportInv`'s "no chunk yet", the chunk step its "not
  ended, or empty"; `ChunkIsRun` shows that a part of a body, messages and then
  perhaps trailers, is one of the chunks `AnyTransportCall` draws. The events of the
  network, promises and detached queues are stutters. `TransportsConform` then gives
  the theorems of `AnyTransportCall` to each transport (`CallTyped`, `CallShaped`).
- *One output.* `UnaryInv` ties the variables of `unary` to what its callbacks have
  heard: it keeps the last headers and the last message, and an output is a copy
  of them together with the end's code. One end gives one output.
- *The output is the response.* As long as no message fails to deserialize, the
  steps are also steps of an `AnyTransportCall` with `~BadMessages` (`CleanInv`,
  `CleanNext`): the first message that fails ends that correspondence, and nothing is
  claimed from there on. The theorems of `CompleteCall_proofs` say then that OK is
  the last status that was handed over and that all messages were delivered. That the
  last status was the server's is `AnswerInv` and `HeadersInv`: no transport hands over
  a part of the body before the headers, a status OK in the headers belongs to a
  response without a body, and trailers come when the response is complete.
  `HeadersGiven` follows the headers from the upcall through the loop over the
  callbacks into `responseHeaders` of `unary`.
- *The script.* `ScriptTold`: every error on its way (a fail frame, an end frame) is
  `ScriptedCode`; if an error hides the messages, no message is heard, and once the
  headers of the script are through, the call has completed or is about to; if not,
  a completed call has heard messages 1 to n. That the call cannot complete before
  the messages without an error is what makes this inductive.

Three facts about the model came out of these proofs. A chunk of `AnyTransportCall`
held at most two messages, fewer than a transport can hand over at once: the bound
is now `MaxMessages` alone. A server of `HttpTransports` could put OK in its headers
and a body behind them, which `finishRequest` never writes (`ResponseStarts`): with
such a response `unary` reports OK although the body was cut off. And
`ScriptedCode` was a `CASE` whose guards overlap for a script with two errors, so that
it named no particular one; it is now the order in which the code looks at them.

### The WebSocket, from end to end

- *Requests.* `RequestsInOrder` relates two ends of a stream with
  a queue at one and a partial read at the other. `StreamInv` describes the
  client's: before the socket opens everything is in `sendQueue` (`Whole`), later
  everything is in `up` behind the headers, and after a close nothing is added but
  a close frame. `ReaderInv` describes the server's: how many messages `Read` has
  taken, and that `remaining` is the rest of the last of them. That a trusted
  io.EOF means the whole request stream follows from the place of `FINISH_SEND`
  behind all the requests.
- *Responses.* `Planned(p)` is the p-th WebSocket message of all that the handler has
  written so far: headers before the first response, two messages for each frame, the
  status and the close frame when it has returned; `Written` is their number.
  `DownInv` says that `outbox` is the end of that plan and `down` its beginning. A
  break or a cancellation loses messages between the two, and then nothing is added to
  `down` any more but the close frame: the client never sees a response with a hole in
  it, only one that stops. The plan grows when the handler writes or returns, but only
  behind what it has already put into `outbox` (`PlannedKept`).
- *What the client is handed.* `HandInv` counts: after `delivered` messages the client
  has been handed as many responses as the plan has frames up to there (`MessagesIn`).
  With it each `onmessage` is a chunk of `AnyTransportCall` with nothing, one message
  or trailers (`HandsOver`, `ChunkImplements`). There are never more chunks than the
  four of the headers and trailers and two for each response, which is the
  `MaxChunks` of the mapping. The other actions are actions of the application, of
  the client's handlers, or stutters; what the socket and the server do is hidden.
- *The code.* Under the refinement the theorems of `CompleteCall_proofs` hold here:
  `WebsocketCall` has no response that fails to deserialize (`BadMessages` is false in
  the mapping), and `~Reentrant` is what they ask for (all upcalls of this transport come from events of
  the socket, which cannot happen inside a callback; `WebsocketCall` has the constant
  only because it builds on `GrpcClient`). `OutcomeInv` says that a status that has
  been handed over is the handler's and that all its responses came before.
  `TrailersInv` follows a status through the chunk frame into `responseTrailers`:
  the headers come first and hold no status, so no frame fails with the headers'
  code, and what `onTransportEnd` finds is either the handler's status or nothing, which
  it reports as `Unknown`. `EndsInv` is then inductive: every code that is reported, or
  about to be, is `Proper`.
- *Types.* The client's variables have their types by the refinement and
  `AnyTransportCall_proofs!TypeCorrect`; `Ranges` has those of the transport and the
  wrapper.

### The other components

- *Health check.* `ServingOnlyOnStream` is inductive given the types: each way out
  of the receive loop sets 503 before the loop comes back to `Watch`.
- *Detach queue.* `Pieces`: what ran, the rest of the loop and what waits are one
  numbered sequence, in this order. `runCallbacks` moves the border between the
  last two, a callback the one between the first two, and a callback that throws
  puts the rest back in front of what waits.
- *Dispatch.* `DispatchInv` says that phase, path and content type are still those
  that `ServeHTTP` decided on. What the preflight was told is compared with that.
- *Headers and trailers.* `HeadersInv` describes the wrapped headers before and
  after `prepareHeaders`: before, only what the CORS wrapper has set; afterwards
  every name but `content-type` has a value that the handler set early for it, with or
  without `Trailer:`, or the CORS wrapper's. `EarlyAreSent`, a part of it, decides between
  the two: under a name that the handler has set early its value is sent, and every other
  name is the CORS wrapper's. So a header that `extractTrailingHeaders` skips has
  been sent with a value of the handler or is `TakenForSent`. `FrameInv` adds the
  trailers frame. Nothing is assumed of the order in
  which Go visits a map: the proofs are for every result of `CopyHeader`.

Assumptions on constants. `ClientAssumption`, `TransportAssumption` and the
`BoundsAssumption`s give the types of the bounds and alphabets. `NullAssumption` and
the second part of `ResponseAssumption` say that a null value is none of the values
it stands beside. `ResponseAssumption` also says that the CORS wrapper sets no
content type: the handlers of rs/cors set `vary` and `access-control-*` alone.
`SetupsAssumption` gives the type of the configurations and requests.
`WebsocketAssumption` gives the types of the bounds and of the handler's codes, and
says that metadata without `grpc-status` is null for the client.
`UnaryAssumption` says what `unary` is: a call with one callback of each kind (it
registers exactly these), without a request stream. It gives the types of responses,
bodies and scripts, among them that an HTTP response does not have the code 0 and
that a body is a run of messages with at most one trailers item, the last.

### Only model-checked, and why

- Liveness (`EndIsReported`, `CancelReturns`, `StatusConverges`, `AllRun`,
  `CancelReachesHandler`, `CloseStopsTheResponse`): fairness and ENABLED are out of the
  prover's reach.
- `ChunkParser`: `Scan` is a function defined by recursion over the buffer; its
  values on every input need induction over data.
- `WireIsWhatWasWritten` of `WebServer`: it is stated with `FlattenSeq` over a sequence
  of any length, whose laws need induction as well.

All other properties of the passing runs are theorems.

## 5. Plan

Done, in this order: the call object with its environment and life cycle, the
parser, the health check, the detach queue, the WebSocket call from end to end,
the HTTP and fake transports under `unary`, the response writer, dispatch and
origins. With these every component that keeps state is modelled. Proved: what
section 4 lists.

What is left is out of the reach of the tools used here: a proof about
`ChunkParser` and about the bytes of a base64 body needs induction over data, and
the liveness properties need a prover with ENABLED.

## 6. Not modelled

- Generated protobuf code, the example applications, test servers, build scripts
  and logging.
- TLS files, flags and dialling of the proxy: configuration without behaviour.
- The ping goroutine of the WebSocket wrapper: it writes control frames, which
  neither the client nor the handler sees.
- The listeners of the fake transport's builder (they only observe), and its
  triggers called out of order or before the call.
- `access-control-expose-headers`, the text of status messages and the content of
  metadata: no property is about them. `trailer.go` is a helper without state.
- Data races inside browsers, grpc-go, rs/cors and the WebSocket library: they are
  external and modelled from their use.
