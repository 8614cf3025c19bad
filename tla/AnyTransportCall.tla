-------------------------- MODULE AnyTransportCall --------------------------
(***************************************************************************)
(* GrpcClient over an arbitrary transport: the most general environment    *)
(* that keeps what every transport of the repository keeps (Transport.ts,  *)
(* transports/http/*.ts, transports/websocket/*.ts, node-http and          *)
(* react-native): no upcall before start, headers before chunks, nothing   *)
(* after onEnd but a repeated onEnd or an empty chunk (XHR calls onEnd for  *)
(* "error" and again for "loadend", where React Native passes what it has). *)
(* It may deliver any response, cut anywhere, split into any chunks, and it *)
(* may keep calling after close: the client must ignore it.  What is proved *)
(* here is inherited by every transport that is shown to implement it.      *)
(*                                                                         *)
(* Bounds: MaxHeaders, MaxMessages and MaxChunks limit the transport,      *)
(* MaxCallbacks the application.                                           *)
(***************************************************************************)
EXTENDS GrpcClient, FiniteSets

CONSTANTS
  HeadersFirst,   \* TRUE for HTTP: onHeaders comes before any chunk; the WebSocket
                  \* transport never calls it, its first chunk holds the headers
  MaxHeaders,     \* bound: onHeaders upcalls
  MaxChunks,      \* bound: onChunk upcalls
  MaxMessages,    \* bound: messages in the response
  HeaderStatuses, \* the grpc-status the headers may carry
  TrailerStatuses,\* the grpc-status the trailers may carry
  HttpStatuses,   \* the HTTP status codes a response may have
  BadMessages,    \* TRUE if a message may fail to deserialize
  Unparsable,     \* TRUE if a chunk may fail to parse
  Sends           \* bound: FALSE if the application sends nothing

ASSUME TransportAssumption ==
  /\ HeadersFirst \in BOOLEAN
  /\ MaxHeaders \in Nat /\ MaxChunks \in Nat /\ MaxMessages \in Nat
  /\ HeaderStatuses \cup TrailerStatuses \subseteq Status
  /\ HttpStatuses \subseteq Nat
  /\ BadMessages \in BOOLEAN /\ Unparsable \in BOOLEAN /\ Sends \in BOOLEAN

VARIABLES
  headersSeen,      \* onHeaders upcalls so far
  chunksSeen,       \* onChunk upcalls so far
  transportEnded,   \* onEnd was called
  arrived,          \* messages the transport has handed over, numbered from 1
  lastStatus,       \* the grpc-status last received: what the server said
  early             \* early[k]: callbacks of kind k registered before start

transportVars == <<headersSeen, chunksSeen, transportEnded, arrived, lastStatus>>
vars == <<clientVars, transportVars, early>>

-----------------------------------------------------------------------------
Init ==
  /\ ClientInit
  /\ headersSeen = 0 /\ chunksSeen = 0 /\ arrived = 0
  /\ transportEnded = FALSE
  /\ lastStatus = Undefined
  /\ early = callbacks

Application ==
  /\ \/ \E k \in Kinds : Register(k)
     \/ Start
     \/ Close
     \/ Sends /\ (Send \/ FinishSend)
  /\ early' = IF started THEN early ELSE callbacks'
  /\ UNCHANGED transportVars

TransportHeaders(h, s) ==
  /\ ~transportEnded /\ headersSeen < MaxHeaders /\ chunksSeen = 0
  /\ OnTransportHeaders(h, s)
  /\ headersSeen' = headersSeen + 1
  /\ lastStatus' = IF s = 0 THEN lastStatus ELSE h
  /\ UNCHANGED <<chunksSeen, transportEnded, arrived, early>>

\* What one parse may return: any number of messages, then possibly the trailers.
MessageRuns ==
  LET types == IF BadMessages THEN {"message", "bad"} ELSE {"message"}
  IN  UNION { [1..n -> types] : n \in 0 .. MaxMessages - arrived }

Trailers == {<<>>} \cup { <<[type |-> "trailers", val |-> g]>> : g \in TrailerStatuses }

TransportChunk(run, trailers) ==
  /\ chunksSeen < MaxChunks
  /\ transportEnded => run = <<>> /\ trailers = <<>>
  /\ HeadersFirst => headersSeen > 0
  /\ OnTransportChunk([i \in DOMAIN run |-> [type |-> run[i], val |-> arrived + i]] \o trailers)
  /\ chunksSeen' = chunksSeen + 1
  /\ arrived' = arrived + Len(run)
  /\ lastStatus' = IF trailers = <<>> THEN lastStatus ELSE trailers[1].val
  /\ UNCHANGED <<headersSeen, transportEnded, early>>

TransportGarbage ==
  /\ Unparsable
  /\ ~transportEnded /\ chunksSeen < MaxChunks
  /\ HeadersFirst => headersSeen > 0
  /\ OnUnparsableChunk
  /\ chunksSeen' = chunksSeen + 1
  /\ UNCHANGED <<headersSeen, transportEnded, arrived, lastStatus, early>>

TransportEnd ==
  /\ OnTransportEnd
  /\ transportEnded' = TRUE
  /\ UNCHANGED <<headersSeen, chunksSeen, arrived, lastStatus, early>>

Handler == HandlerStep /\ UNCHANGED <<transportVars, early>>

Return == CallbackReturns /\ UNCHANGED <<transportVars, early>>

Next ==
  \/ Application
  \/ \E h \in HeaderStatuses, s \in HttpStatuses : TransportHeaders(h, s)
  \/ \E run \in MessageRuns, trailers \in Trailers : TransportChunk(run, trailers)
  \/ TransportGarbage
  \/ TransportEnd
  \/ Handler
  \/ Return

Spec == Init /\ [][Next]_vars

\* JavaScript runs a handler to its end, and a callback of the application
\* returns.  Nothing is assumed of the transport or of what is called.
FairSpec == Spec /\ WF_vars(Handler) /\ WF_vars(Return)

-----------------------------------------------------------------------------
(* Properties *)

Callbacks(k) == 1..MaxCallbacks[k]

\* Every variable has its type; the transport's counters keep their bounds.
TypeOK ==
  /\ ClientTypeOK
  /\ headersSeen \in 0..MaxHeaders /\ chunksSeen \in 0..MaxChunks
  /\ arrived \in 0..MaxMessages
  /\ transportEnded \in BOOLEAN
  /\ lastStatus \in Status \cup {Undefined}
  /\ DOMAIN early = Kinds /\ \A k \in Kinds : early[k] \in 0..MaxCallbacks[k]

\* An end callback is called at most once, and all end callbacks of a call
\* hear the same code, whichever of rawOnEnd and rawOnError comes first, and
\* also when the transport calls back from inside a callback.
AtMostOneEnd ==
  /\ \A i \in Callbacks("end") : Len(heard["end"][i]) <= 1
  /\ \A i, j \in Callbacks("end") :
       heard["end"][i] # <<>> /\ heard["end"][j] # <<>> =>
         heard["end"][i] = heard["end"][j]

\* Why it holds: at most one loop over the end callbacks is ever started, and
\* it has reached only the callbacks that have heard its code.
EndFrames == { p \in 1..Len(stack) : stack[p].do = "end" }

EndLoopOnce ==
  /\ \A p, q \in EndFrames : p = q
  /\ EndFrames # {} => completed
  /\ ~completed => \A i \in Callbacks("end") : heard["end"][i] = <<>>
  /\ \A p \in EndFrames : \A i \in Callbacks("end") :
       heard["end"][i] = <<>>
       \/ (heard["end"][i] = <<stack[p].val>> /\ i < stack[p].next)

Told(i) == heard["end"][i] # <<>>

\* Once an end callback has been called no callback hears headers or a
\* message, whatever the transport still delivers.
NothingAfterEnd ==
  [][ (\E i \in Callbacks("end") : Told(i)) =>
        heard'["headers"] = heard["headers"] /\ heard'["message"] = heard["message"] ]_vars

\* A message callback hears consecutive messages: none twice, none out of
\* order, and none left out, across chunks and across callbacks registered
\* while a message is being delivered.
NoGapNoRepeat ==
  \A i \in Callbacks("message") :
    LET m == heard["message"][i]
    IN  \A n \in 1 .. (Len(m) - 1) : m[n + 1] = m[n] + 1

\* A call that ends with OK has delivered every message that arrived to every
\* message callback registered before start.
OkMeansAllDelivered ==
  (\E i \in Callbacks("end") : heard["end"][i] = <<OK>>) =>
    \A j \in 1..early["message"] : heard["message"][j] = [n \in 1..arrived |-> n]

\* The client never reports OK unless OK is what the server said last: an
\* error status is not masked, a missing or malformed one not taken for OK.
OkIsTheServers ==
  \A i \in Callbacks("end") : heard["end"][i] = <<OK>> => lastStatus = OK

\* The call keeps the promise of its interface (CallLifecycle), whatever the
\* response and whenever the application closes: messages in order, the end
\* after them and at most once per listener, silence after close.
ToldListeners == { i \in Callbacks("end") : Told(i) }

Lifecycle == INSTANCE CallLifecycle WITH
  MessageListeners <- Callbacks("message"),
  EndListeners <- Callbacks("end"),
  Messages <- 1..MaxMessages,
  Codes <- Status,
  NoCode <- Undefined,
  phase <- IF closed THEN "closed" ELSE IF ToldListeners # {} THEN "ended" ELSE "open",
  got <- heard["message"],
  code <- IF ToldListeners = {} THEN Undefined
          ELSE heard["end"][CHOOSE i \in ToldListeners : TRUE][1],
  told <- ToldListeners

KeepsLifecycle == Lifecycle!Spec

\* Every end callback registered before start is called once the call has
\* completed or the transport has ended, unless the application closes it.
EndIsReported ==
  \A i \in Callbacks("end") :
    (i <= early["end"] /\ (completed \/ transportEnded)) ~> (Told(i) \/ closed)

=============================================================================
