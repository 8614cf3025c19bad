SPECIFICATION Spec
CONSTANTS
  MaxChanges = 1
  MaxBreaks = 0
PROPERTIES BacksOff
