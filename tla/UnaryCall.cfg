SPECIFICATION FairSpec
CONSTANTS
  RequestStream = FALSE
  Reentrant = FALSE
  MaxCallbacks <- OneEach
  Undefined = Undefined
  NoStatus = NoStatus
  NaN = NaN
  Null = Null
  NoResponse = NoResponse
  TransportKinds <- AllTransports
  Responses <- AllResponses
  Bodies <- AllBodies
  Scripts <- AllScripts
  MaxBody = 3
CHECK_DEADLOCK FALSE
INVARIANTS TypeOK OneOutput OutputIsTheResponse TellsTheScript
PROPERTIES IsATransport EndIsReported CloseStopsTheResponse
