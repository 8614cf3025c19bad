SPECIFICATION Spec
CONSTANTS
  RequestStream = FALSE
  Reentrant = FALSE
  MaxCallbacks <- OneEach
  Undefined = Undefined
  NoStatus = NoStatus
  NaN = NaN
  HeadersFirst = TRUE
  MaxHeaders = 1
  MaxChunks = 2
  MaxMessages = 2
  HeaderStatuses = {NoStatus}
  TrailerStatuses <- FewGrpcStatuses
  HttpStatuses = {200}
  BadMessages = TRUE
  Unparsable = FALSE
  Sends = FALSE
INVARIANTS OkMeansAllDelivered
