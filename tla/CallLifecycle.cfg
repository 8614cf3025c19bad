SPECIFICATION Spec
CONSTANTS
  RequestStream = FALSE
  Reentrant = FALSE
  MaxCallbacks <- TwoListeners
  Undefined = Undefined
  NoStatus = NoStatus
  NaN = NaN
  HeadersFirst = FALSE
  MaxHeaders = 1
  MaxChunks = 2
  MaxMessages = 2
  HeaderStatuses <- FewGrpcStatuses
  TrailerStatuses <- FewGrpcStatuses
  HttpStatuses <- FewHttpStatuses
  BadMessages = TRUE
  Unparsable = TRUE
  Sends = FALSE
PROPERTIES NothingAfterEnd KeepsLifecycle
