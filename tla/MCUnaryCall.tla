---------------------------- MODULE MCUnaryCall ----------------------------
(* Values for the constants of UnaryCall. *)
EXTENDS UnaryCall

OneEach == [k \in Kinds |-> 1]

AllTransports == {"xhr", "fetch", "node", "rn", "fake"}

\* A body to come, an error or OK in the headers, an HTTP error, and responses whose
\* body is null in fetch: a 204, and a 200 as a service worker can make one.
AllResponses ==
  { [status |-> NoStatus, http |-> 200, body |-> TRUE],
    [status |-> 5, http |-> 200, body |-> TRUE],
    [status |-> 0, http |-> 200, body |-> TRUE],
    [status |-> NoStatus, http |-> 503, body |-> TRUE],
    [status |-> NoStatus, http |-> 204, body |-> FALSE],
    [status |-> NoStatus, http |-> 200, body |-> FALSE],
    [status |-> 0, http |-> 200, body |-> FALSE],
    [status |-> 5, http |-> 200, body |-> FALSE] }

Message(n) == [type |-> "message", val |-> n]
BadMessage(n) == [type |-> "bad", val |-> n]
Trailers_(code) == <<[type |-> "trailers", val |-> code]>>

AllBodies ==
  { <<>>, Trailers_(0), <<Message(1)>> \o Trailers_(0), <<Message(1), Message(2)>> \o Trailers_(5),
    <<BadMessage(1), Message(2)>> \o Trailers_(0), <<Message(1), Message(2)>> \o Trailers_(0) }

AllScripts ==
  [ preHeadersErrorCode : {Null, 503}, preMessagesError : {Null, 5}, preTrailersError : {Null, 9},
    messages : {0, 2}, autoTrigger : BOOLEAN ]
=============================================================================
