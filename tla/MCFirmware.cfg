CONSTANTS
  Datagrams <- MCDatagrams
  Checksum  <- MCSum
  Timeout   = 2
  Wrap      = 5
  HostTimeout = 3
  Conns = {1, 2}
  MaxTimers = 2
  Links = {a, b, c}
  NoLink = NoLink
  TroublesMax = 3
  Clients = {c1, c2}
  Cortex = Cortex
SPECIFICATION BoardSpec
INVARIANTS
  BoardIsSafe
  SilentBoardIsCold
  StreamIsOwn
  LinkIsTended
  GoingDownIsSafe
PROPERTIES
  LatchesHold
  KeepsPromise
  SilenceStops
  LinksRecover
CHECK_DEADLOCK FALSE
