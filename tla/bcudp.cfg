CONSTANTS
  Mod = 8
  MaxAhead = 2
  Sessions <- SmallSessions
SPECIFICATION Spec
INVARIANTS NothingLost
PROPERTIES Stream Settles
CHECK_DEADLOCK FALSE
