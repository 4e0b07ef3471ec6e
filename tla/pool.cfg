CONSTANTS
  r1 = r1
  r2 = r2
  k1 = k1
  k2 = k2
  c1 = c1
  c2 = c2
  Readers <- TwoReaders
  Keys <- TwoKeys
  Conns <- TwoConns
  MaxPreviews = 1
SPECIFICATION FairSpec
INVARIANTS WithinLimits PoolAccounts
PROPERTIES IdleCloseHarmless WaitersWake
