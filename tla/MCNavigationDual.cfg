CONSTANTS
  kitchen = kitchen
  hall = hall
  around = around
  None = None
  GoTos <- MCGoTos
  Explores <- MCExplores
  MaxSteps = 2
  MAX_RETRIES = 1
  DualLoop = TRUE
SPECIFICATION Spec
SYMMETRY MCAlike
CHECK_DEADLOCK FALSE
INVARIANTS
  SessionIsWhole
  OneExploration
  Attended
  AbortClosesTraces
  StopHolds
