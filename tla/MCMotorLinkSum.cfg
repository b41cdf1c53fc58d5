CONSTANTS
  StopFrame <- MCStop
  MotionFrames <- MCMotions
  StatusFrame <- MCStatus
  Checksum <- MCSum
  Timeout = 2
  Wrap = 5
  MaxDelay = 0
  HeartbeatInterval = 1
  HeartbeatOn = FALSE
SPECIFICATION Spec
PROPERTIES
  StreamPreventsTimeout
