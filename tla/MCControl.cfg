SPECIFICATION LoopsSpec
CONSTANTS
  NormalizedMax = 6
  Things <- MCThings
  Points = {}
  Where <- MCWhere
  Resembles <- MCResembles
  RobotStart <- MCRobotStart
  Cruise = 2
  Approach = 1
  ApproachDistance = 8
  Arrival = 2
  WindowTicks = 2
  Margin = 2
  StuckTicks = 1
  StuckProgress = 1
  EdgeX = 8
  EdgeY = 2
  Finds <- MCFinds
  FindsMax = 2
  EgoStuckTicks = 2
  Wanderers <- MCWanderers
  Label <- MCLabel
  Start <- MCStart
  TrackRadius = 1
  Far = 6
  Queries = {q1, q2}
  Acked = {a1, a2}
  a1 = a1
  a2 = a2
  SeqNumber <- MCSeq
  Nothing = Nothing
  Browsers = {b1, b2}
  Frames <- MCFrames
  Places = {0, 1}
  Targets <- MCTargets
  WorldSize = 1
SYMMETRY Alike
INVARIANTS
  TrackedOnce
  LinkIsTrue
PROPERTIES
  LoopsAgree
  
  EgoActsOnSight
  StandInsAreTrue
CHECK_DEADLOCK FALSE
