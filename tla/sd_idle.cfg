CONSTANTS
  Jobs = {1, 2}
  MaxLinks = 2
  SdIdle = 1
  Stalls = FALSE
SPECIFICATION Spec
PROPERTY ClosesOnceIdle
CHECK_DEADLOCK FALSE
