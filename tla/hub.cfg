CONSTANTS
  s1 = s1
  s2 = s2
  Subscribers <- Pair
  Buffer = 1
  MaxChunks = 3
SPECIFICATION FairSpec
INVARIANTS StreamWhole NoLeak
PROPERTIES NeverPanics CloseEndsAll
CHECK_DEADLOCK FALSE
