CONSTANTS
  WakeIdle = 2
  WakeMax = 3
  WakeCooldown = 1
  WakeTries = 2
  WakeRetry = 1
  MotionHold = 3
  StillWait = 1
  StillTimeout = 2
  StillTries = 2
  WakeMotionHold = 2
  WakeOursGrace = 3
  MaxLost = 1
  MaxClients = 1
  MaxDemands = 2
SPECIFICATION Spec
PROPERTIES ToldTruth LetsGo Rests
CHECK_DEADLOCK FALSE
