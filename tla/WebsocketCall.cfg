SPECIFICATION FairSpec
CONSTANTS
  RequestStream = TRUE
  Reentrant = FALSE
  MaxCallbacks <- MessageAndEnd
  Undefined = Undefined
  NoStatus = NoStatus
  NaN = NaN
  Absent = NoStatus
  MaxRequests = 2
  MaxResponses = 1
  HandlerCodes = {0, 5}
CHECK_DEADLOCK FALSE
INVARIANTS TypeOK RequestsInOrder CodeIsTheHandlers
PROPERTIES IsATransport EndIsReported CancelReachesHandler
