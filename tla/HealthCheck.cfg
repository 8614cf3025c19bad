SPECIFICATION FairSpec
CONSTANTS
  MaxChanges = 3
  MaxBreaks = 2
INVARIANTS TypeOK ServingOnlyOnStream
PROPERTIES CancelReturns StatusConverges
