SPECIFICATION Spec
CONSTANTS
  MaxDetached = 7
  MaxPerCallback = 2
  Null = Null
CHECK_DEADLOCK FALSE
INVARIANTS TypeOK RunInOrder OneTimer
PROPERTIES AllRun
