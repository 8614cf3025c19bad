----------------------------- MODULE WebServer -----------------------------
(***************************************************************************)
(* One HTTP request at WrappedGrpcServer (src/go/grpcweb/wrapper.go): what  *)
(* ServeHTTP takes it for, what the handler behind it sees, and the         *)
(* response (GrpcWebResponse).  The server is configured by an application  *)
(* with the options of options.go, or by grpcwebproxy from its flags        *)
(* (src/go/grpcwebproxy/main.go).                                          *)
(*                                                                         *)
(* External, modelled from their use: rs/cors, which answers an OPTIONS     *)
(* request with Access-Control-Request-Method itself and calls the handler  *)
(* for any other; the browser; what happens to a WebSocket is the subject   *)
(* of WebsocketWrapper.                                                    *)
(***************************************************************************)
EXTENDS GrpcWebResponse

CONSTANTS
  Setups,     \* pairs of a configuration and a request
  Endpoints,  \* the paths ListGRPCResources returns
  NoOrigin    \* no Origin header

ASSUME SetupsAssumption ==
  Setups \subseteq
    [proxy : BOOLEAN, useWebsockets : BOOLEAN, registeredOnly : BOOLEAN, nonRoot : BOOLEAN,
     allowAll : BOOLEAN, allowed : SUBSET [scheme : STRING, host : STRING]]
    \X [method : STRING, upgrade : BOOLEAN, corsHeaders : BOOLEAN, corsMethod : BOOLEAN,
        type : STRING, origin : {NoOrigin} \cup [scheme : STRING, host : STRING],
        host : STRING, path : Seq(STRING)]

VARIABLES
  config,
  request,
  phase,      \* "arrived", "preflight", "forbidden", "websocket", "plain", "wrapped", "finished"
  path,       \* req.URL.Path and content-type as the handler sees them
  type

dispatchVars == <<config, request, path, type>>
vars == <<dispatchVars, phase, responseVars>>

-----------------------------------------------------------------------------
(* Options.  An origin is [scheme, host]; what a flag of the proxy lists     *)
(* may have no scheme.                                                      *)

\* allowedOrigins.IsAllowed
IsAllowed(origin) == origin \in config.allowed

\* makeHttpOriginFunc, or the function given to WithOriginFunc
OriginFunc(origin) == config.allowAll \/ IsAllowed(origin)

\* WebsocketRequestOrigin: the host alone; NoOrigin does not parse.
WebsocketRequestOrigin(r) == [scheme |-> "", host |-> r.origin.host]

\* makeWebsocketOriginFunc and defaultWebsocketOriginFunc
WebsocketOriginFunc(r) ==
  \/ config.proxy /\ config.allowAll
  \/ r.origin # NoOrigin /\ config.proxy /\ IsAllowed(WebsocketRequestOrigin(r))
  \/ r.origin # NoOrigin /\ ~config.proxy /\ WebsocketRequestOrigin(r).host = r.host

\* What main and wrapGrpc make of the configuration.
CorsForRegisteredEndpointsOnly == ~config.proxy /\ config.registeredOnly
AllowNonRootResources == ~config.proxy /\ config.nonRoot

-----------------------------------------------------------------------------
(* Requests.  A path is the sequence of its segments; "" is the last one of *)
(* a path that ends in a slash.                                             *)

TrimRight(p) == SubSeq(p, 1, Max({0} \cup { i \in 1..Len(p) : p[i] # "" }))

\* getGRPCEndpoint: the last two segments, if there are two.
GetGRPCEndpoint(p) ==
  LET trimmed == TrimRight(p)
  IN  IF Len(trimmed) < 2 THEN p ELSE SubSeq(trimmed, Len(trimmed) - 1, Len(trimmed))

EndpointFunc(p) == IF AllowNonRootResources THEN GetGRPCEndpoint(p) ELSE p

\* Mutant of IsRequestForRegisteredEndpoint: the end of the path is not compared.
IsRequestForRegisteredService(r) ==
  LET p == EndpointFunc(r.path) IN p # <<>> /\ \E e \in Endpoints : e[1] = p[1]

IsRequestForRegisteredEndpoint(r) == EndpointFunc(r.path) \in Endpoints

IsGrpcWebSocketRequest(r) == r.upgrade

\* Content types of the two formats; "text" begins like "web".
IsGrpcWebRequest(r) == r.method = "POST" /\ r.type \in {"web", "text"}

IsAcceptableGrpcCorsRequest(r) ==
  /\ r.method = "OPTIONS" /\ r.corsHeaders
  /\ CorsForRegisteredEndpointsOnly => IsRequestForRegisteredEndpoint(r)

\* ServeHTTP with the CORS handler: who answers the request.
Route(r) ==
  CASE config.useWebsockets /\ IsGrpcWebSocketRequest(r) ->
         IF /\ WebsocketOriginFunc(r)
            /\ CorsForRegisteredEndpointsOnly => IsRequestForRegisteredEndpoint(r)
           THEN "websocket" ELSE "forbidden"
    [] ~(config.useWebsockets /\ IsGrpcWebSocketRequest(r))
         /\ (IsAcceptableGrpcCorsRequest(r) \/ IsGrpcWebRequest(r)) ->
         IF r.method = "OPTIONS" /\ r.corsMethod THEN "preflight" ELSE "wrapped"
    [] OTHER -> "plain"

-----------------------------------------------------------------------------
Init ==
  /\ \E s \in Setups : config = s[1] /\ request = s[2]
  /\ phase = "arrived"
  /\ path = request.path /\ type = request.type
  /\ ResponseInit(FALSE)

HackedType(t) == IF t \in {"web", "text"} THEN "grpc" ELSE t

\* hackIntoNormalGrpcRequest
HackIntoNormalGrpcRequest ==
  /\ textFormat' = (request.type = "text")
  /\ type' = HackedType(request.type)

\* The request reaches a handler or is answered.  Over WebSocket the headers
\* come with the first message; the path is set as for HTTP.
ServeHTTP ==
  /\ phase = "arrived"
  /\ phase' = Route(request)
  /\ IF phase' \in {"wrapped", "websocket"} THEN path' = EndpointFunc(path) ELSE UNCHANGED path
  /\ IF phase' = "wrapped" THEN HackIntoNormalGrpcRequest ELSE UNCHANGED <<textFormat, type>>
  /\ UNCHANGED <<config, request, wroteHeaders, headers, wrappedHeader, out, trailers,
                 flushes, sets, written, flushed, early>>

Handler ==
  /\ phase = "wrapped"
  /\ SetHeader \/ Write \/ WriteHeader \/ Flush
  /\ UNCHANGED <<dispatchVars, phase>>

HandlerReturns ==
  /\ phase = "wrapped"
  /\ FinishRequest
  /\ phase' = "finished"
  /\ UNCHANGED dispatchVars

Next == ServeHTTP \/ Handler \/ HandlerReturns

Spec == Init /\ [][Next]_vars

-----------------------------------------------------------------------------
(* Properties *)

\* Every variable has its type; the encoder holds back two bytes at most.
TypeOK ==
  /\ <<config, request>> \in Setups
  /\ phase \in {"arrived", "preflight", "forbidden", "websocket", "plain", "wrapped", "finished"}
  /\ DOMAIN headers \subseteq Keys
  /\ Len(out.encoder) <= 2
  /\ written \in 0..MaxBytes /\ sets \in 0..MaxSets /\ flushes \in 0..MaxFlushes

PreflightOf(r) == [r EXCEPT !.method = "OPTIONS", !.corsHeaders = TRUE, !.corsMethod = TRUE]

\* If only registered endpoints are open, the handler serves the path that was
\* checked: a call whose preflight is accepted (a browser on another page asks
\* first), or a WebSocket, reaches it with a registered path, with and without
\* resources below the root.
CheckedPathIsServed ==
  CorsForRegisteredEndpointsOnly
    /\ \/ phase = "websocket"
       \/ phase \in {"wrapped", "finished"} /\ Route(PreflightOf(request)) = "preflight"
    => path \in Endpoints

\* What was written is on the wire in its order, up to two bytes that the
\* encoder keeps until the next flush; the trailers frame comes once and last,
\* and nothing is held back then.
WireIsWhatWasWritten ==
  /\ FlattenSeq(out.wire) \o out.encoder =
       [i \in 1..written |-> i] \o (IF trailers = NoTrailers THEN <<>> ELSE <<TrailersFrame>>)
  /\ wroteHeaders => Len(FlattenSeq(out.wire)) >= flushed
  /\ phase = "finished" => out.encoder = <<>>

\* The content type tells the browser how the body is encoded, and the handler
\* never sees a gRPC-Web content type.
TextIsAnnounced ==
  phase = "finished" =>
    /\ type \notin {"web", "text"}
    /\ "content-type" \in DOMAIN wrappedHeader =>
         (wrappedHeader["content-type"] = "application/grpc-web-text" <=> request.type = "text")

InTrailers == IF trailers = NoTrailers THEN {} ELSE DOMAIN trailers

EarlyNames == { k.name : k \in DOMAIN early }

\* A value that the handler had set when the headers were written is sent under
\* the name n; the content type is sent as ContentType.
HandlersHeader(n) ==
  /\ n \in DOMAIN wrappedHeader
  /\ \E k \in DOMAIN early : k.name = n /\ (n = "content-type" \/ wrappedHeader[n] = early[k])

\* extractTrailingHeaders skips every name among the headers that were sent, also
\* one that only the CORS wrapper has set: if the handler sets it late, without
\* Trailer:, what it says is sent nowhere.
TakenForSent(k) ==
  k.name \in CorsNames \ EarlyNames /\ ~k.trailer /\ trailers # NoTrailers

\* No other header of the handler is lost: it is in the trailers frame, or its name
\* is among the headers with a value of the handler, not the CORS wrapper's.  A
\* Trailer: key is in the frame whenever there is one.
NoHeaderIsLost ==
  phase = "finished" =>
    \A k \in DOMAIN headers :
      \/ k.name = "trailer"
      \/ k.name \in InTrailers
      \/ HandlersHeader(k.name) /\ (k.trailer => trailers = NoTrailers)
      \/ TakenForSent(k)

\* What arrives is what the handler said: headers as they were when they were
\* written, trailers as they are in the end.  A name comes twice only if the
\* handler set it as a trailer.  (Of X and Trailer:X that go out together, one
\* stays: header.go does not say which.)
ValuesAreTheHandlers ==
  phase = "finished" =>
    /\ \A n \in DOMAIN wrappedHeader \ {"content-type"} :
         wrappedHeader[n] \in { early[k] : k \in { j \in DOMAIN early : j.name = n } }
                                \cup (IF n \in CorsNames THEN {"cors"} ELSE {})
    /\ \A n \in InTrailers :
         /\ trailers[n] \in { headers[k] : k \in { j \in DOMAIN headers : j.name = n } }
         /\ n \in DOMAIN wrappedHeader => TrailerKey(n) \in DOMAIN headers /\ trailers[n] = headers[TrailerKey(n)]

\* A page whose origin is among the configured ones is not refused over
\* WebSocket: HTTP requests of the same page pass the CORS check.
AllowedOriginsServed ==
  phase = "forbidden" =>
    ~(config.proxy /\ request.origin # NoOrigin /\ OriginFunc(request.origin))

=============================================================================
