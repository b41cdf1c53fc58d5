CONSTANTS
  kitchen = kitchen
  hall = hall
  around = around
  None = None
  GoTos <- MCOne
  Explores <- MCNone
  MaxSteps = 1
  MAX_RETRIES = 0
  DualLoop = TRUE
SPECIFICATION Spec
CHECK_DEADLOCK FALSE
INVARIANTS
  StopIsFinal
