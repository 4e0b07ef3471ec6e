CONSTANTS
  r1 = r1
  r2 = r2
  k1 = k1
  Readers <- TwoReaders
  Keys <- OneKey
  Queue = 1
  MaxHandle = 2
  MaxSent = 3
  MaxWire = 2
SPECIFICATION FairSpec
INVARIANTS Orderly ReaderServed
PROPERTIES DemuxGoesOn AllTold
CHECK_DEADLOCK FALSE
