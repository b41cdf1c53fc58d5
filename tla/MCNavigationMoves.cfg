CONSTANTS
  kitchen = kitchen
  hall = hall
  around = around
  None = None
  GoTos <- MCOne
  Explores <- MCNone
  MaxSteps = 2
  MAX_RETRIES = 1
  DualLoop = TRUE
SPECIFICATION Spec
CHECK_DEADLOCK FALSE
INVARIANTS
  SessionMoves
