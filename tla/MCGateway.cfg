CONSTANTS
  left = left
  right = right
  i1 = i1
  i2 = i2
  r1 = r1
  r2 = r2
  r3 = r3
  None = None
  Sockets <- MCSockets
  Ids <- MCIds
  Requests <- MCRequests
  Commands <- MCCommands
  SeqNumbers <- MCSequences
  Garbage <- MCGarbage
SPECIFICATION GatewaySpec
SYMMETRY MCAlike
INVARIANTS
  ToldOnce
  Attended
  CodecHolds
PROPERTIES
  GoneStartNothing
CHECK_DEADLOCK FALSE
