SPECIFICATION FairSpec
CONSTANTS
  RequestStream = FALSE
  Reentrant = TRUE
  MaxCallbacks <- TwoEnds
  Undefined = Undefined
  NoStatus = NoStatus
  NaN = NaN
  HeadersFirst = TRUE
  MaxHeaders = 2
  MaxChunks = 1
  MaxMessages = 1
  HeaderStatuses = {5, NoStatus}
  TrailerStatuses <- FewGrpcStatuses
  HttpStatuses = {200}
  BadMessages = TRUE
  Unparsable = FALSE
  Sends = TRUE
INVARIANTS AtMostOneEnd
PROPERTIES EndIsReported
