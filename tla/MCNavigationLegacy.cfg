CONSTANTS
  kitchen = kitchen
  hall = hall
  around = around
  None = None
  GoTos <- MCOne
  Explores <- MCExplores
  MaxSteps = 2
  MAX_RETRIES = 1
  DualLoop = FALSE
SPECIFICATION FairSpec
CHECK_DEADLOCK FALSE
INVARIANTS
  StepTraceTracked
PROPERTIES
  SessionEnds
