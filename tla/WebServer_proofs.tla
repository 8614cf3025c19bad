--------------------------- MODULE WebServer_proofs ---------------------------
(***************************************************************************)
(* Proofs about WebServer, for every set of configurations and requests,   *)
(* every set of header names and values, and every number of calls of the  *)
(* handler: a request that was let in reaches the endpoint that was        *)
(* checked, the content type fits the body, and what the handler has set   *)
(* is sent, but for a late header under a name of the CORS wrapper.        *)
(***************************************************************************)
EXTENDS WebServer, SequenceTheorems, TLAPS

\* The request goes where Route sends it, and the handler sees the path and the
\* content type that ServeHTTP has made of it.
DispatchInv ==
  /\ phase = "arrived" => path = request.path
  /\ phase \notin {"arrived", "finished"} => phase = Route(request)
  /\ phase = "finished" => Route(request) = "wrapped"
  /\ phase \in {"wrapped", "finished", "websocket"} => path = EndpointFunc(request.path)
  /\ phase \in {"wrapped", "finished"} =>
       type = HackedType(request.type) /\ textFormat = (request.type = "text")

\* Headers as the handler sets them: a function from some keys to their values.
HeaderMaps(D) == [D -> UNION { ValuesOf(k.name) : k \in Keys }]
IsHeaders(f) ==
  /\ DOMAIN f \subseteq Keys
  /\ f \in HeaderMaps(DOMAIN f)
  /\ \A k \in DOMAIN f : f[k] \in ValuesOf(k.name)

\* The values that may stand under a name in the response's headers.
Sent(n) == { early[k] : k \in { j \in DOMAIN early : j.name = n } }
             \cup (IF n \in CorsNames THEN {"cors"} ELSE {})

\* The names of the headers are those of the CORS wrapper and of what the handler
\* has set early, and the handler's value stands under the latter.
EarlyAreSent ==
  /\ DOMAIN wrappedHeader \subseteq CorsNames \cup EarlyNames
  /\ wroteHeaders => \A n \in EarlyNames \ {"trailer"} : HandlersHeader(n)

\* What the wrapped writer's headers are before and after prepareHeaders.
HeadersInv ==
  /\ IsHeaders(headers) /\ IsHeaders(early)
  /\ phase \in {"arrived", "wrapped", "preflight", "forbidden", "websocket", "plain", "finished"}
  /\ phase = "arrived" => ~wroteHeaders
  /\ phase # "finished" => trailers = NoTrailers
  /\ phase = "finished" => wroteHeaders
  /\ ~wroteHeaders => wrappedHeader = [n \in CorsNames |-> "cors"]
  /\ "content-type" \in DOMAIN wrappedHeader =>
       wroteHeaders /\ wrappedHeader["content-type"] = ContentType
  /\ \A n \in DOMAIN wrappedHeader \ {"content-type"} : wrappedHeader[n] \in Sent(n)
  /\ EarlyAreSent

\* The request's fields.
LEMMA RequestFields ==
  ASSUME <<config, request>> \in Setups
  PROVE  request = [method |-> request.method, upgrade |-> request.upgrade,
                    corsHeaders |-> request.corsHeaders, corsMethod |-> request.corsMethod,
                    type |-> request.type, origin |-> request.origin,
                    host |-> request.host, path |-> request.path]
  BY SetupsAssumption

-----------------------------------------------------------------------------
(* copyHeader *)

\* Every key that is copied has its name in the copy, with a value of that name.
LEMMA Copied ==
  ASSUME NEW src, IsHeaders(src), NEW skip, NEW h \in CopyHeader(src, skip)
  PROVE  /\ h \in [DOMAIN h -> UNION { ValuesOf(k.name) : k \in Keys }]
         /\ DOMAIN h \subseteq { k.name : k \in Keys }
         /\ \A k \in DOMAIN src : k.trailer \/ k.name \notin skip => k.name \in DOMAIN h
         /\ \A n \in DOMAIN h : \E k \in DOMAIN src :
              (k.trailer \/ k.name \notin skip) /\ k.name = n /\ h[n] = src[k]
<1> DEFINE copied == { k \in DOMAIN src : k.trailer \/ k.name \notin skip }
           names == { k.name : k \in copied }
<1>1. /\ h \in [names -> { src[k] : k \in copied }]
      /\ \A n \in names : \E k \in copied : k.name = n /\ h[n] = src[k]
  BY DEF CopyHeader
<1>2. DOMAIN h = names /\ names \subseteq { k.name : k \in Keys }
  BY <1>1 DEF IsHeaders
<1>3. \A n \in names : h[n] \in UNION { ValuesOf(k.name) : k \in Keys }
  <2> TAKE n \in names
  <2>1. PICK k \in copied : h[n] = src[k]
    BY <1>1
  <2> QED BY <2>1 DEF IsHeaders
<1>4. h \in [DOMAIN h -> UNION { ValuesOf(k.name) : k \in Keys }]
  BY <1>1, <1>2, <1>3
<1> QED BY <1>1, <1>2, <1>4

LEMMA RealTrailers ==
  ASSUME NEW src, IsHeaders(src), NEW skip, NEW h \in CopyHeader(src, skip)
  PROVE  h # NoTrailers
  BY Copied, ResponseAssumption

-----------------------------------------------------------------------------
(* The headers *)

\* prepareHeaders: the content type is replaced, every name goes out, and what
\* the CORS wrapper has set stays where the handler has set nothing.
LEMMA Prepared ==
  ASSUME IsHeaders(headers), wrappedHeader = [n \in CorsNames |-> "cors"], PrepareHeaders
  PROVE  /\ early' = headers
         /\ "content-type" \in DOMAIN wrappedHeader' => wrappedHeader'["content-type"] = ContentType
         /\ \A n \in DOMAIN wrappedHeader' \ {"content-type"} : wrappedHeader'[n] \in Sent(n)'
         /\ DOMAIN wrappedHeader' \subseteq CorsNames \cup EarlyNames'
         /\ \A n \in EarlyNames' \ {"trailer"} : HandlersHeader(n)'
<1>1. PICK h \in CopyHeader(headers, {"trailer"}) :
        wrappedHeader' = Merged(Retyped(h), wrappedHeader) /\ early' = headers
  BY DEF PrepareHeaders
<1>2. /\ DOMAIN h \subseteq { k.name : k \in Keys }
      /\ \A k \in DOMAIN headers : k.name # "trailer" => k.name \in DOMAIN h
      /\ \A n \in DOMAIN h : \E k \in DOMAIN headers : k.name = n /\ h[n] = headers[k]
  BY Copied
<1>3. DOMAIN wrappedHeader' = DOMAIN h \cup CorsNames
  BY <1>1 DEF Merged, Retyped
<1>4. ASSUME "content-type" \in DOMAIN wrappedHeader'
      PROVE  wrappedHeader'["content-type"] = ContentType
  <2>1. "content-type" \in DOMAIN h
    BY <1>3, <1>4, ResponseAssumption
  <2>2. PICK k \in DOMAIN headers : k.name = "content-type" /\ h["content-type"] = headers[k]
    BY <1>2, <2>1
  <2>3. h["content-type"] = "application/grpc"
    BY <2>2 DEF IsHeaders, ValuesOf
  <2> QED BY <1>1, <2>1, <2>3 DEF Merged, Retyped
<1>5. ASSUME NEW n \in DOMAIN wrappedHeader' \ {"content-type"}
      PROVE  wrappedHeader'[n] \in Sent(n)'
  <2>1. CASE n \in DOMAIN h
    <3>1. wrappedHeader'[n] = h[n]
      BY <1>1, <1>5, <2>1 DEF Merged, Retyped
    <3>2. PICK k \in DOMAIN headers : k.name = n /\ h[n] = headers[k]
      BY <1>2, <2>1
    <3> QED BY <1>1, <3>1, <3>2 DEF Sent
  <2>2. CASE n \notin DOMAIN h
    <3>1. n \in CorsNames /\ wrappedHeader'[n] = "cors"
      BY <1>1, <1>3, <1>5, <2>2 DEF Merged, Retyped
    <3> QED BY <3>1 DEF Sent
  <2> QED BY <2>1, <2>2
<1>6. DOMAIN wrappedHeader' \subseteq CorsNames \cup EarlyNames'
  BY <1>1, <1>2, <1>3 DEF EarlyNames
<1>7. ASSUME NEW n \in EarlyNames' \ {"trailer"} PROVE HandlersHeader(n)'
  <2>1. n \in DOMAIN h
    BY <1>1, <1>2, <1>7 DEF EarlyNames
  <2>2. PICK k \in DOMAIN headers : k.name = n /\ h[n] = headers[k]
    BY <1>2, <2>1
  <2>3. n # "content-type" => wrappedHeader'[n] = h[n]
    BY <1>1, <2>1 DEF Merged, Retyped
  <2> QED BY <1>1, <1>3, <2>1, <2>2, <2>3 DEF HandlersHeader
<1> QED BY <1>1, <1>4, <1>5, <1>6, <1>7

\* The handler sets a header.
LEMMA HeaderSet ==
  ASSUME IsHeaders(headers), SetHeader
  PROVE  IsHeaders(headers')
<1>1. PICK k \in Keys : \E v \in ValuesOf(k.name) :
        headers' = [j \in DOMAIN headers \cup {k} |-> IF j = k THEN v ELSE headers[j]]
  BY DEF SetHeader
<1>2. /\ DOMAIN headers' = DOMAIN headers \cup {k}
      /\ headers' = [j \in DOMAIN headers' |-> headers'[j]]
  BY <1>1
<1>3. \A j \in DOMAIN headers' : headers'[j] \in ValuesOf(j.name)
  BY <1>1 DEF IsHeaders
<1> QED BY <1>2, <1>3 DEF IsHeaders, HeaderMaps

LEMMA NoHeaders == IsHeaders(<<>>)
<1>1. DOMAIN <<>> = {}
  OBVIOUS
<1> QED BY <1>1 DEF IsHeaders, HeaderMaps

LEMMA InitHeaders == Init => HeadersInv
<1> SUFFICES ASSUME Init PROVE HeadersInv
  OBVIOUS
<1>1. /\ phase = "arrived" /\ headers = <<>> /\ early = <<>> /\ trailers = NoTrailers
      /\ wroteHeaders = FALSE /\ wrappedHeader = [n \in CorsNames |-> "cors"]
  BY DEF Init, ResponseInit
<1>2. DOMAIN wrappedHeader = CorsNames /\ \A n \in CorsNames : wrappedHeader[n] = "cors"
  BY <1>1
<1>3. EarlyAreSent
  BY <1>1, <1>2 DEF EarlyAreSent
<1> QED BY <1>1, <1>2, <1>3, NoHeaders, ResponseAssumption DEF HeadersInv, Sent

\* The two steps that write the headers; textFormat is what it was.
LEMMA WritesHeaders ==
  ASSUME HeadersInv, phase = "wrapped", textFormat' = textFormat, headers' = headers,
         wroteHeaders' = TRUE,
         IF wroteHeaders THEN UNCHANGED <<wrappedHeader, early>> ELSE PrepareHeaders
  PROVE  /\ IsHeaders(headers') /\ IsHeaders(early')
         /\ "content-type" \in DOMAIN wrappedHeader' =>
              wroteHeaders' /\ wrappedHeader'["content-type"] = ContentType'
         /\ \A n \in DOMAIN wrappedHeader' \ {"content-type"} : wrappedHeader'[n] \in Sent(n)'
         /\ EarlyAreSent'
<1>1. ContentType' = ContentType
  BY DEF ContentType
<1>2. CASE wroteHeaders
  BY <1>1, <1>2 DEF HeadersInv, Sent, EarlyAreSent, EarlyNames, HandlersHeader
<1>3. CASE ~wroteHeaders
  BY <1>1, <1>3, Prepared DEF HeadersInv, EarlyAreSent
<1> QED BY <1>2, <1>3

LEMMA NextHeaders == HeadersInv /\ [Next]_vars => HeadersInv'
<1> SUFFICES ASSUME HeadersInv, [Next]_vars PROVE HeadersInv'
  OBVIOUS
<1>1. CASE ServeHTTP
  <2>1. /\ phase = "arrived" /\ phase' = Route(request)
        /\ UNCHANGED <<wroteHeaders, headers, wrappedHeader, trailers, early>>
    BY <1>1 DEF ServeHTTP
  <2>2. phase' \in {"wrapped", "preflight", "forbidden", "websocket", "plain"}
    BY <2>1 DEF Route
  <2>3. ~wroteHeaders /\ "content-type" \notin DOMAIN wrappedHeader
    BY <2>1 DEF HeadersInv
  <2>4. EarlyAreSent'
    BY <2>1 DEF HeadersInv, EarlyAreSent, EarlyNames, HandlersHeader
  <2> QED BY <2>1, <2>2, <2>3, <2>4 DEF HeadersInv, Sent
<1>2. CASE Handler /\ SetHeader
  BY <1>2, HeaderSet DEF Handler, SetHeader, HeadersInv, Sent, ContentType, EarlyAreSent, EarlyNames,
                         HandlersHeader
<1>3. CASE Handler /\ Write
  <2>1. /\ phase = "wrapped" /\ UNCHANGED <<phase, textFormat, headers, trailers>>
        /\ wroteHeaders' = TRUE
        /\ IF wroteHeaders THEN UNCHANGED <<wrappedHeader, early>> ELSE PrepareHeaders
    BY <1>3 DEF Handler, Write
  <2> QED BY <2>1, WritesHeaders DEF HeadersInv
<1>4. CASE Handler /\ WriteHeader
  <2>1. /\ phase = "wrapped" /\ UNCHANGED <<phase, textFormat, headers, trailers>>
        /\ wroteHeaders' = TRUE
        /\ IF wroteHeaders THEN UNCHANGED <<wrappedHeader, early>> ELSE PrepareHeaders
    BY <1>4 DEF Handler, WriteHeader
  <2> QED BY <2>1, WritesHeaders DEF HeadersInv
<1>5. CASE Handler /\ Flush
  BY <1>5 DEF Handler, Flush, HeadersInv, Sent, ContentType, EarlyAreSent, EarlyNames, HandlersHeader
<1>6. CASE HandlerReturns
  <2>1. /\ phase = "wrapped" /\ phase' = "finished" /\ UNCHANGED <<textFormat, headers>>
        /\ wroteHeaders' = TRUE
        /\ IF wroteHeaders THEN UNCHANGED <<wrappedHeader, early>> ELSE PrepareHeaders
    BY <1>6 DEF HandlerReturns, FinishRequest
  <2> QED BY <2>1, WritesHeaders DEF HeadersInv
<1>7. CASE UNCHANGED vars
  BY <1>7 DEF vars, responseVars, HeadersInv, Sent, ContentType, EarlyAreSent, EarlyNames, HandlersHeader
<1> QED BY <1>1, <1>2, <1>3, <1>4, <1>5, <1>6, <1>7 DEF Next, Handler

LEMMA HeadersInvHolds == Spec => []HeadersInv
BY InitHeaders, NextHeaders, PTL DEF Spec

-----------------------------------------------------------------------------
(* Type correctness *)

\* What the base64 encoder holds back.
BufferOK ==
  /\ out = [wire |-> out.wire, encoder |-> out.encoder]
  /\ out.encoder \in Seq(Nat) /\ Len(out.encoder) <= 2

LEMMA Encoded ==
  ASSUME BufferOK, NEW bytes \in Seq(Nat), out' = WrappedWrite(out, bytes)
  PROVE  BufferOK'
<1>1. CASE ~textFormat
  BY <1>1 DEF WrappedWrite, BufferOK
<1>2. CASE textFormat
  <2> DEFINE all == out.encoder \o bytes
             from == 3 * (Len(all) \div 3) + 1
             rest == SubSeq(all, from, Len(all))
  <2>1. all \in Seq(Nat) /\ Len(all) \in Nat /\ \A i \in 1..Len(all) : all[i] \in Nat
    BY ConcatProperties, LenProperties, ElementOfSeq DEF BufferOK
  <2>2. out' = [wire |-> out.wire \o Groups(all), encoder |-> rest]
    BY <1>2 DEF WrappedWrite
  <2> HIDE DEF all
  <2>3. from \in 1..(Len(all) + 1) /\ Len(all) - from + 1 \in 0..2
    BY <2>1
  <2> HIDE DEF from
  <2>4. /\ rest \in Seq(Nat)
        /\ Len(rest) = IF from <= Len(all) THEN Len(all) - from + 1 ELSE 0
    BY <2>1, <2>3, SubSeqProperties
  <2> HIDE DEF rest
  <2>5. Len(rest) <= 2
    BY <2>1, <2>3, <2>4
  <2> QED BY <2>2, <2>4, <2>5 DEF BufferOK
<1> QED BY <1>1, <1>2

LEMMA Flushed ==
  ASSUME NEW o, out' = FlushWriter(o)
  PROVE  BufferOK'
<1>1. <<>> \in Seq(Nat) /\ Len(<<>>) = 0
  BY EmptySeq
<1> QED BY <1>1 DEF BufferOK, FlushWriter

TypeInv == TypeOK /\ BufferOK

LEMMA InitTypes == Init => TypeInv
<1> SUFFICES ASSUME Init PROVE TypeInv
  OBVIOUS
<1>1. <<config, request>> \in Setups
  <2>1. PICK s \in Setups : config = s[1] /\ request = s[2]
    BY DEF Init
  <2> QED BY <2>1, SetupsAssumption
<1>2. BufferOK
  BY EmptySeq DEF BufferOK, Init, ResponseInit
<1>3. DOMAIN headers \subseteq Keys
  BY NoHeaders DEF Init, ResponseInit, IsHeaders
<1> QED BY <1>1, <1>2, <1>3, ResponseAssumption DEF TypeInv, TypeOK, BufferOK, Init, ResponseInit

LEMMA NextTypes == TypeInv /\ HeadersInv /\ HeadersInv' /\ [Next]_vars => TypeInv'
<1> SUFFICES ASSUME TypeInv, HeadersInv, HeadersInv', [Next]_vars PROVE TypeInv'
  OBVIOUS
<1>1. DOMAIN headers' \subseteq Keys /\ BufferOK
  BY DEF HeadersInv, IsHeaders, TypeInv
<1>2. /\ phase' \in {"arrived", "preflight", "forbidden", "websocket", "plain", "wrapped", "finished"}
      /\ <<config', request'>> \in Setups
  BY DEF HeadersInv, TypeInv, TypeOK, Next, ServeHTTP, Handler, HandlerReturns, vars, dispatchVars
<1>3. written' \in 0..MaxBytes /\ sets' \in 0..MaxSets /\ flushes' \in 0..MaxFlushes
  <2>1. \/ UNCHANGED <<written, sets, flushes>>
        \/ UNCHANGED <<written, flushes>> /\ sets < MaxSets /\ sets' = sets + 1
        \/ UNCHANGED <<written, sets>> /\ flushes < MaxFlushes /\ flushes' = flushes + 1
        \/ UNCHANGED <<sets, flushes>> /\ \E n \in 1..(MaxBytes - written) : written' = written + n
    BY DEF Next, ServeHTTP, Handler, HandlerReturns, vars, responseVars, SetHeader, Write,
       WriteHeader, Flush, FinishRequest
  <2> QED BY <2>1, ResponseAssumption DEF TypeInv, TypeOK
<1>4. BufferOK'
  <2>1. CASE UNCHANGED out
    BY <1>1, <2>1 DEF BufferOK
  <2>2. CASE Write
    <3>1. PICK n \in 1..(MaxBytes - written) : out' = WrappedWrite(out, [i \in 1..n |-> written + i])
      BY <2>2 DEF Write
    <3>2. [i \in 1..n |-> written + i] \in Seq(Nat)
      BY ResponseAssumption DEF TypeInv, TypeOK
    <3> QED BY <1>1, <3>1, <3>2, Encoded
  <2>3. CASE Flush \/ FinishRequest
    BY <2>1, <2>3, Flushed DEF Flush, FinishRequest
  <2> QED BY <2>1, <2>2, <2>3 DEF Next, ServeHTTP, Handler, HandlerReturns, vars, responseVars,
             SetHeader, WriteHeader
<1> QED BY <1>1, <1>2, <1>3, <1>4 DEF TypeInv, TypeOK, BufferOK

\* The request is dispatched once, the handler keeps to its bounds, and base64
\* never holds a full group back.
THEOREM TypeCorrect == Spec => []TypeOK
<1>1. Spec => []TypeInv
  BY InitTypes, NextTypes, HeadersInvHolds, PTL DEF Spec
<1>2. TypeInv => TypeOK
  BY DEF TypeInv
<1> QED BY <1>1, <1>2, PTL

-----------------------------------------------------------------------------
(* The dispatch *)

LEMMA InitDispatch == Init => DispatchInv
BY DEF Init, DispatchInv

LEMMA NextDispatch == DispatchInv /\ [Next]_vars => DispatchInv'
<1> SUFFICES ASSUME DispatchInv, [Next]_vars PROVE DispatchInv'
  OBVIOUS
<1>1. CASE ServeHTTP
  <2>1. phase = "arrived" /\ phase' = Route(request) /\ UNCHANGED <<config, request>>
    BY <1>1 DEF ServeHTTP
  <2>2. phase' \in {"wrapped", "preflight", "forbidden", "websocket", "plain"}
    BY <2>1 DEF Route
  <2>3. Route(request)' = Route(request) /\ EndpointFunc(request.path)' = EndpointFunc(request.path)
    BY <2>1 DEF Route, EndpointFunc, AllowNonRootResources, WebsocketOriginFunc,
       WebsocketRequestOrigin, IsAllowed, CorsForRegisteredEndpointsOnly, IsGrpcWebSocketRequest,
       IsRequestForRegisteredEndpoint, IsAcceptableGrpcCorsRequest, IsGrpcWebRequest
  <2>4. phase' \in {"wrapped", "websocket"} => path' = EndpointFunc(request.path)
    BY <1>1, <2>1 DEF ServeHTTP, DispatchInv
  <2>5. phase' = "wrapped" => type' = HackedType(request.type)
                              /\ textFormat' = (request.type = "text")
    BY <1>1 DEF ServeHTTP, HackIntoNormalGrpcRequest
  <2> QED BY <2>1, <2>2, <2>3, <2>4, <2>5 DEF DispatchInv
<1>2. CASE Handler \/ HandlerReturns \/ UNCHANGED vars
  <2>1. UNCHANGED <<config, request, path, type, textFormat>>
    BY <1>2 DEF Handler, HandlerReturns, SetHeader, Write, WriteHeader, Flush, FinishRequest,
       vars, dispatchVars, responseVars
  <2>2. phase' = phase \/ (phase = "wrapped" /\ phase' = "finished")
    BY <1>2 DEF Handler, HandlerReturns, vars
  <2>3. Route(request)' = Route(request) /\ EndpointFunc(request.path)' = EndpointFunc(request.path)
    BY <2>1 DEF Route, EndpointFunc, AllowNonRootResources, WebsocketOriginFunc,
       WebsocketRequestOrigin, IsAllowed, CorsForRegisteredEndpointsOnly, IsGrpcWebSocketRequest,
       IsRequestForRegisteredEndpoint, IsAcceptableGrpcCorsRequest, IsGrpcWebRequest
  <2> QED BY <2>1, <2>2, <2>3 DEF DispatchInv
<1> QED BY <1>1, <1>2 DEF Next

LEMMA DispatchInvHolds == Spec => [](DispatchInv /\ TypeOK)
BY InitDispatch, NextDispatch, TypeCorrect, PTL DEF Spec

\* What was checked in the preflight, or before the upgrade to a WebSocket, is what
\* the handler is given: the registered path, for every set of endpoints.
THEOREM CheckedPathIsServedHolds == Spec => []CheckedPathIsServed
<1>1. ASSUME DispatchInv, TypeOK PROVE CheckedPathIsServed
  <2>1. <<config, request>> \in Setups
    BY <1>1 DEF TypeOK
  <2>2. ASSUME phase = "websocket", CorsForRegisteredEndpointsOnly PROVE path \in Endpoints
    <3>1. Route(request) = "websocket" /\ path = EndpointFunc(request.path)
      BY <1>1, <2>2 DEF DispatchInv
    <3> QED BY <2>2, <3>1 DEF Route, IsRequestForRegisteredEndpoint
  <2>3. ASSUME phase \in {"wrapped", "finished"}, CorsForRegisteredEndpointsOnly,
               Route(PreflightOf(request)) = "preflight"
        PROVE  path \in Endpoints
    <3>1. path = EndpointFunc(request.path)
      BY <1>1, <2>3 DEF DispatchInv
    <3>2. /\ PreflightOf(request).method = "OPTIONS"
          /\ PreflightOf(request).path = request.path
      BY <2>1, RequestFields, SetupsAssumption DEF PreflightOf
    <3>3. IsAcceptableGrpcCorsRequest(PreflightOf(request))
      BY <2>3, <3>2 DEF Route, IsGrpcWebRequest
    <3> QED BY <2>3, <3>1, <3>2, <3>3 DEF IsAcceptableGrpcCorsRequest, IsRequestForRegisteredEndpoint
  <2> QED BY <2>2, <2>3 DEF CheckedPathIsServed
<1> QED BY <1>1, DispatchInvHolds, PTL

\* The browser decodes what the server encodes: the content type is that of the
\* format in which ServeHTTP has wrapped the response.
THEOREM TextIsAnnouncedHolds == Spec => []TextIsAnnounced
<1>1. ASSUME DispatchInv, HeadersInv PROVE TextIsAnnounced
  <2> SUFFICES ASSUME phase = "finished"
               PROVE  /\ type \notin {"web", "text"}
                      /\ "content-type" \in DOMAIN wrappedHeader =>
                           (wrappedHeader["content-type"] = "application/grpc-web-text"
                              <=> request.type = "text")
    BY DEF TextIsAnnounced
  <2>1. type = HackedType(request.type) /\ textFormat = (request.type = "text")
    BY <1>1 DEF DispatchInv
  <2>2. type \notin {"web", "text"}
    BY <2>1 DEF HackedType
  <2>3. "content-type" \in DOMAIN wrappedHeader => wrappedHeader["content-type"] = ContentType
    BY <1>1 DEF HeadersInv
  <2>4. ContentType = "application/grpc-web-text" <=> request.type = "text"
    BY <2>1 DEF ContentType
  <2> QED BY <2>2, <2>3, <2>4
<1> QED BY <1>1, DispatchInvHolds, HeadersInvHolds, PTL

-----------------------------------------------------------------------------
(* The trailers *)

\* The names and values of the trailers frame.
FrameInv ==
  phase = "finished" =>
    \A n \in InTrailers :
      /\ trailers[n] \in { headers[k] : k \in { j \in DOMAIN headers : j.name = n } }
      /\ n \in DOMAIN wrappedHeader =>
           TrailerKey(n) \in DOMAIN headers /\ trailers[n] = headers[TrailerKey(n)]

LEMMA Finished ==
  ASSUME HeadersInv, HandlerReturns
  PROVE  NoHeaderIsLost' /\ FrameInv'
<1>1. /\ phase = "wrapped" /\ UNCHANGED headers /\ IsHeaders(headers) /\ trailers = NoTrailers
  BY DEF HandlerReturns, FinishRequest, HeadersInv
<1>2. CASE wroteHeaders
  <2>1. trailers' \in CopyHeader(headers, {"trailer"} \cup DOMAIN wrappedHeader)
        /\ wrappedHeader' = wrappedHeader
    BY <1>2 DEF HandlerReturns, FinishRequest, ExtractTrailingHeaders
  <2>2. /\ trailers' # NoTrailers
        /\ \A k \in DOMAIN headers :
             k.trailer \/ k.name \notin {"trailer"} \cup DOMAIN wrappedHeader =>
               k.name \in DOMAIN trailers'
        /\ \A n \in DOMAIN trailers' : \E k \in DOMAIN headers :
             /\ k.trailer \/ k.name \notin {"trailer"} \cup DOMAIN wrappedHeader
             /\ k.name = n /\ trailers'[n] = headers[k]
    BY <1>1, <2>1, Copied, RealTrailers
  <2>3. InTrailers' = DOMAIN trailers'
    BY <2>2 DEF InTrailers
  <2>4. ASSUME NEW k \in DOMAIN headers, k.name # "trailer", k.name \notin InTrailers'
        PROVE  (HandlersHeader(k.name) \/ TakenForSent(k))' /\ ~k.trailer
    <3>1. ~k.trailer /\ k.name \in DOMAIN wrappedHeader
      BY <2>2, <2>3, <2>4
    <3>2. CASE k.name \in EarlyNames
      <4>1. HandlersHeader(k.name)
        BY <1>1, <1>2, <2>4, <3>2 DEF HeadersInv, EarlyAreSent
      <4> QED BY <1>2, <2>1, <3>1, <4>1 DEF HandlersHeader, HandlerReturns, FinishRequest
    <3>3. CASE k.name \notin EarlyNames
      <4>1. k.name \in CorsNames \ EarlyNames
        BY <3>1, <3>3 DEF HeadersInv, EarlyAreSent
      <4>2. EarlyNames' = EarlyNames
        BY <1>2 DEF HandlerReturns, FinishRequest, EarlyNames
      <4> QED BY <2>2, <3>1, <4>1, <4>2 DEF TakenForSent
    <3> QED BY <3>2, <3>3, <3>1
  <2>5. NoHeaderIsLost'
    BY <1>1, <2>4 DEF NoHeaderIsLost
  <2>6. ASSUME NEW n \in DOMAIN trailers'
        PROVE  /\ trailers'[n] \in { headers[k] : k \in { j \in DOMAIN headers : j.name = n } }
               /\ n \in DOMAIN wrappedHeader =>
                    TrailerKey(n) \in DOMAIN headers /\ trailers'[n] = headers[TrailerKey(n)]
    <3>1. PICK k \in DOMAIN headers :
            /\ k.trailer \/ k.name \notin {"trailer"} \cup DOMAIN wrappedHeader
            /\ k.name = n /\ trailers'[n] = headers[k]
      BY <2>2, <2>6
    <3>2. n \in DOMAIN wrappedHeader => k = TrailerKey(n)
      <4>1. k \in Keys
        BY <1>1 DEF IsHeaders
      <4> QED BY <3>1, <4>1 DEF Keys, Key, TrailerKey
    <3> QED BY <3>1, <3>2
  <2> QED BY <1>1, <2>1, <2>3, <2>6, <2>5 DEF FrameInv
<1>3. CASE ~wroteHeaders
  <2>1. PrepareHeaders /\ trailers' = trailers
    BY <1>3 DEF HandlerReturns, FinishRequest
  <2>2. \A k \in DOMAIN headers : k.name # "trailer" => HandlersHeader(k.name)'
    BY <1>1, <1>3, <2>1, Prepared DEF HeadersInv, EarlyNames
  <2>3. InTrailers' = {} /\ trailers' = NoTrailers
    BY <1>1, <2>1 DEF InTrailers
  <2> QED BY <1>1, <2>2, <2>3 DEF NoHeaderIsLost, FrameInv
<1> QED BY <1>2, <1>3

LEMMA NextFrame ==
  ASSUME HeadersInv, NoHeaderIsLost, FrameInv, [Next]_vars
  PROVE  NoHeaderIsLost' /\ FrameInv'
<1>1. CASE HandlerReturns
  BY <1>1, Finished
<1>2. CASE ServeHTTP \/ Handler
  <2>1. phase' # "finished"
    BY <1>2 DEF ServeHTTP, Route, Handler
  <2> QED BY <2>1 DEF NoHeaderIsLost, FrameInv
<1>3. CASE UNCHANGED vars
  BY <1>3 DEF vars, responseVars, NoHeaderIsLost, FrameInv, InTrailers, HandlersHeader, TakenForSent,
              EarlyNames
<1> QED BY <1>1, <1>2, <1>3 DEF Next

LEMMA InitFrame == Init => NoHeaderIsLost /\ FrameInv
BY DEF Init, NoHeaderIsLost, FrameInv

LEMMA FrameInvHolds == Spec => [](NoHeaderIsLost /\ FrameInv)
BY InitFrame, NextFrame, HeadersInvHolds, PTL DEF Spec

\* What the handler sets, and whenever, comes out, with one exception: the names
\* that were sent as headers are left out of the trailers, but the handler's value
\* is among the headers then, unless the CORS wrapper alone had sent the name.
THEOREM NoHeaderIsLostHolds == Spec => []NoHeaderIsLost
BY FrameInvHolds, PTL

\* A header comes out with the value it had when it was written, a trailer with
\* the one it has in the end; a name that is in both was set as a trailer.
THEOREM ValuesAreTheHandlersHolds == Spec => []ValuesAreTheHandlers
<1>1. HeadersInv /\ FrameInv => ValuesAreTheHandlers
  BY DEF HeadersInv, FrameInv, Sent, ValuesAreTheHandlers
<1> QED BY <1>1, HeadersInvHolds, FrameInvHolds, PTL

=============================================================================
