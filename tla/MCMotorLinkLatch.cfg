CONSTANTS
  StopFrame <- MCStop
  MotionFrames <- MCCruises
  StatusFrame <- MCStatus
  Checksum <- MCXor
  Timeout = 1
  Wrap = 3
  MaxDelay = 0
  HeartbeatInterval = 1
  HeartbeatOn = TRUE
SPECIFICATION FairSpec
PROPERTIES
  LatchClears
