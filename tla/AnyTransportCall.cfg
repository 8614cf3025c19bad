SPECIFICATION Spec
CONSTANTS
  RequestStream = FALSE
  Reentrant = FALSE
  MaxCallbacks <- TwoMessageListeners
  Undefined = Undefined
  NoStatus = NoStatus
  NaN = NaN
  HeadersFirst = FALSE
  MaxHeaders = 1
  MaxChunks = 2
  MaxMessages = 2
  HeaderStatuses <- AnyHeaderStatuses
  TrailerStatuses <- AnyTrailerStatuses
  HttpStatuses <- AllHttpStatuses
  BadMessages = FALSE
  Unparsable = TRUE
  Sends = FALSE
INVARIANTS TypeOK NoGapNoRepeat OkMeansAllDelivered OkIsTheServers
