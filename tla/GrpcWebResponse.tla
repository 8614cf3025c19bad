-------------------------- MODULE GrpcWebResponse --------------------------
(***************************************************************************)
(* The response to a gRPC-Web request over HTTP: grpcWebResponse and        *)
(* base64ResponseWriter of src/go/grpcweb/grpc_web_response.go, with        *)
(* copyHeader of header.go.  The handler is any http.Handler: it sets       *)
(* headers, writes and flushes as it likes and calls WriteHeader only       *)
(* before it has written (external; grpc-go is one of them).                *)
(*                                                                         *)
(* A header key is a name in lower case, with or without the prefix         *)
(* "Trailer:".  Bytes of the body are numbered from 1; the trailers frame   *)
(* stands for itself.                                                      *)
(***************************************************************************)
EXTENDS Integers, Sequences, SequencesExt

CONSTANTS
  Names,       \* header names the handler uses, besides content-type and trailer
  Values,      \* values of these headers
  CorsNames,   \* headers that the CORS wrapper has set before
  NoTrailers,  \* there is no trailers frame
  MaxSets,     \* bound: headers the handler sets
  MaxBytes,    \* bound: bytes the handler writes
  MaxFlushes   \* bound: flushes of the handler

VARIABLES
  textFormat,          \* the response goes through base64ResponseWriter
  wroteHeaders,
  headers,             \* headers of the handler: a function from some Keys to values
  wrappedHeader,       \* headers of the wrapped writer: from some names to values
  out,                 \* wire: what was written to the connection, base64 parts or writes;
                       \* encoder: the bytes (at most two) that the base64 encoder holds back
  trailers,            \* the trailers frame, once it is written
  flushes,
  sets,                \* history: headers the handler has set so far
  written,             \* history: bytes the handler has written
  flushed,             \* history: bytes the handler had written when it flushed last
  early                \* history: headers as they were when the headers were written

responseVars == <<textFormat, wroteHeaders, headers, wrappedHeader, out, trailers,
                  flushes, sets, written, flushed, early>>

Key(name) == [name |-> name, trailer |-> FALSE]
TrailerKey(name) == [name |-> name, trailer |-> TRUE]
Keys == { Key(n) : n \in Names \cup {"content-type", "trailer"} } \cup { TrailerKey(n) : n \in Names }
ValuesOf(name) ==
  CASE name = "content-type" -> {"application/grpc"} [] name = "trailer" -> {"names"} [] OTHER -> Values

\* NoTrailers is no map of headers; the CORS wrapper leaves the content type alone.
ASSUME ResponseAssumption ==
  /\ "content-type" \notin CorsNames
  /\ \A N \in SUBSET { k.name : k \in Keys } :
       NoTrailers \notin [N -> UNION { ValuesOf(k.name) : k \in Keys }]
  /\ MaxSets \in Nat /\ MaxBytes \in Nat /\ MaxFlushes \in Nat

ResponseInit(isTextFormat) ==
  /\ textFormat = isTextFormat
  /\ wroteHeaders = FALSE
  /\ headers = <<>> /\ early = <<>>
  /\ wrappedHeader = [n \in CorsNames |-> "cors"]
  /\ out = [wire |-> <<>>, encoder |-> <<>>]
  /\ trailers = NoTrailers
  /\ flushes = 0 /\ sets = 0 /\ written = 0 /\ flushed = 0

-----------------------------------------------------------------------------
(* copyHeader *)

\* What copyHeader(dst, src) may add to dst, with skipKeys(skip) and
\* replaceInKeys(TrailerPrefix, ""): keys with the prefix are not skipped, and
\* of two keys that become the same name the one visited last stays.
CopyHeader(src, skip) ==
  LET copied == { k \in DOMAIN src : k.trailer \/ k.name \notin skip }
      names == { k.name : k \in copied }
  IN  { f \in [names -> { src[k] : k \in copied }] :
          \A n \in names : \E k \in copied : k.name = n /\ f[n] = src[k] }

ContentType == IF textFormat THEN "application/grpc-web-text" ELSE "application/grpc-web"

\* Mutant of Retyped: the text format is forgotten.
RetypedWeb(h) ==
  [n \in DOMAIN h |-> IF n = "content-type" THEN "application/grpc-web" ELSE h[n]]

\* replaceInVals("content-type", ...)
Retyped(h) ==
  [n \in DOMAIN h |-> IF n = "content-type" /\ h[n] = "application/grpc" THEN ContentType ELSE h[n]]

Merged(h, into) ==
  [n \in DOMAIN h \cup DOMAIN into |-> IF n \in DOMAIN h THEN h[n] ELSE into[n]]

\* access-control-expose-headers, which prepareHeaders adds, is left out.
PrepareHeaders ==
  /\ \E h \in CopyHeader(headers, {"trailer"}) : wrappedHeader' = Merged(Retyped(h), wrappedHeader)
  /\ early' = headers

\* Mutants of ExtractTrailingHeaders: flushed names are not skipped; a name
\* that was flushed is skipped with the prefix too.
ExtractTrailingHeadersAll == CopyHeader(headers, {"trailer"})
ExtractTrailingHeadersStrict ==
  { [n \in DOMAIN h \ DOMAIN wrappedHeader |-> h[n]] : h \in CopyHeader(headers, {"trailer"}) }

ExtractTrailingHeaders == CopyHeader(headers, {"trailer"} \cup DOMAIN wrappedHeader)

-----------------------------------------------------------------------------
(* The wrapped writer *)

Groups(bytes) == [g \in 1 .. Len(bytes) \div 3 |-> SubSeq(bytes, 3 * g - 2, 3 * g)]

\* Mutant of WrappedWrite: the encoder holds a full group back.
WrappedWriteLate(o, bytes) ==
  IF ~textFormat \/ o.encoder = <<>>
    THEN [o EXCEPT !.encoder = bytes]
    ELSE [wire |-> Append(o.wire, o.encoder), encoder |-> bytes]

\* Write, after which base64 has encoded full groups of three bytes.
WrappedWrite(o, bytes) ==
  IF ~textFormat
    THEN [o EXCEPT !.wire = Append(@, bytes)]
    ELSE LET all == o.encoder \o bytes
         IN  [wire |-> o.wire \o Groups(all),
              encoder |-> SubSeq(all, 3 * (Len(all) \div 3) + 1, Len(all))]

\* Mutant of FlushWriter: the encoder is not closed.
FlushWriterOnly(o) == o

\* Flush: closing the encoder writes a padded part.
FlushWriter(o) ==
  [wire |-> IF o.encoder = <<>> THEN o.wire ELSE Append(o.wire, o.encoder), encoder |-> <<>>]

-----------------------------------------------------------------------------
(* Calls of the handler *)

SetHeader ==
  /\ sets < MaxSets
  /\ \E k \in Keys : \E v \in ValuesOf(k.name) :
       headers' = [j \in DOMAIN headers \cup {k} |-> IF j = k THEN v ELSE headers[j]]
  /\ sets' = sets + 1
  /\ UNCHANGED <<textFormat, wroteHeaders, wrappedHeader, out, trailers,
                 flushes, written, flushed, early>>

Write ==
  \E n \in 1 .. MaxBytes - written :
    /\ IF wroteHeaders THEN UNCHANGED <<wrappedHeader, early>> ELSE PrepareHeaders
    /\ wroteHeaders' = TRUE
    /\ out' = WrappedWrite(out, [i \in 1..n |-> written + i])
    /\ written' = written + n
    /\ UNCHANGED <<textFormat, headers, trailers, flushes, sets, flushed>>

WriteHeader ==
  /\ ~wroteHeaders
  /\ PrepareHeaders
  /\ wroteHeaders' = TRUE
  /\ UNCHANGED <<textFormat, headers, out, trailers, flushes, sets, written, flushed>>

\* Flush does nothing as long as nothing was written.
Flush ==
  /\ flushes < MaxFlushes
  /\ flushes' = flushes + 1
  /\ flushed' = written
  /\ out' = IF wroteHeaders THEN FlushWriter(out) ELSE out
  /\ UNCHANGED <<textFormat, wroteHeaders, headers, wrappedHeader, trailers, sets, written, early>>

TrailersFrame == 0

\* finishRequest, after the handler has returned: copyTrailersToPayload, or the
\* headers if nothing was written.
FinishRequest ==
  /\ IF wroteHeaders
       THEN /\ trailers' \in ExtractTrailingHeaders
            /\ out' = FlushWriter(WrappedWrite(out, <<TrailersFrame>>))
            /\ UNCHANGED <<wrappedHeader, early>>
       ELSE /\ PrepareHeaders
            /\ out' = FlushWriter(out)
            /\ UNCHANGED trailers
  /\ wroteHeaders' = TRUE
  /\ UNCHANGED <<textFormat, headers, flushes, sets, written, flushed>>
=============================================================================
