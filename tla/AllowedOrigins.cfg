SPECIFICATION Spec
CONSTANTS
  Setups <- ListedSetups
  Endpoints <- AllEndpoints
  NoOrigin = NoOrigin
  NoTrailers = NoTrailers
  Names = {"grpc-status"}
  Values = {"a"}
  CorsNames = {}
  MaxSets = 1
  MaxBytes = 1
  MaxFlushes = 1
CHECK_DEADLOCK FALSE
INVARIANTS AllowedOriginsServed
