SPECIFICATION Spec
CONSTANTS
  Setups <- AllSetups
  Endpoints <- AllEndpoints
  NoOrigin = NoOrigin
  NoTrailers = NoTrailers
  Names = {"grpc-status", "vary"}
  Values = {"a", "b"}
  CorsNames = {"vary"}
  MaxSets = 3
  MaxBytes = 4
  MaxFlushes = 1
CHECK_DEADLOCK FALSE
INVARIANTS TypeOK CheckedPathIsServed WireIsWhatWasWritten TextIsAnnounced NoHeaderIsLost ValuesAreTheHandlers
