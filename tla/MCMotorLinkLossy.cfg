CONSTANTS
  StopFrame    <- MCStop
  MotionFrames <- MCCruises
  StatusFrame  <- MCStatus
  Checksum     <- MCXor
  Timeout = 2
  Wrap = 5
  MaxDelay = 1
  HeartbeatInterval = 1
  HeartbeatOn = FALSE
SPECIFICATION Spec
INVARIANTS
  HushStopsMotors
PROPERTIES
  StreamPreventsTimeout
