------------------------- MODULE MCAnyTransportCall -------------------------
(* Values for the constants of AnyTransportCall. *)
EXTENDS AnyTransportCall

OneEach == [k \in Kinds |-> 1]
TwoMessageListeners == [k \in Kinds |-> IF k = "message" THEN 2 ELSE 1]
TwoEnds == [k \in Kinds |-> IF k = "end" THEN 2 ELSE 1]
TwoListeners == [k \in Kinds |-> IF k = "headers" THEN 1 ELSE 2]

\* An OK, an error, a missing, a malformed and a negative grpc-status.
AnyHeaderStatuses == {0, 5, -1, NoStatus}
AnyTrailerStatuses == {0, 5, NaN}
FewGrpcStatuses == {0, NoStatus}

\* No connection, success and an HTTP error.
AllHttpStatuses == {0, 200, 503}
FewHttpStatuses == {200, 503}
=============================================================================
