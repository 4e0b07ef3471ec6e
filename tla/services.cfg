CONSTANTS
  None = None
  Sessions = {s1}
  Boots = 2
  MaxReaders = 2
  Probe = 2
  Holding = {FALSE}
  Wrap = 8
  Num = 2
  Den = 3
  Second = 4
  Rates = {2, 3}
  Samples = {1, 2}
  Starts = {0, 5}
  Steps = {0, 2}
  Gaps = {0, 2}
  MaxTime = 10
  Resumes = 1
  MaxAudio = 8
  Jobs = {1, 2}
  MaxLinks = 2
  SdIdle = 1
  Stalls = FALSE
  Commands = {b1, b2}
  MaxConns = 3
  Clients = {c1, c2}
  Files = {f, g}
  Uploaded = {f}
  Ports = {1}
  MaxUploads = 2
  MaxBytes = 1
  Keys <- MCKeys
  Savers = {v1, v2}
  Forms = {a1}
  MaxSaves = 1
  MaxStarts = 3
  Blocked = TRUE
  Hosts = {h1, r1}
  Recorders = {r1}
  Scans = {n1, n2}
  Asks = {q1}
  Pages = {p1}
  AtOnce = 1
  MaxEdits = 1
SPECIFICATION ServicesSpec
INVARIANTS Timed LinksTidy ClipsKept ProbedAlone
SYMMETRY ClientsAlike
CHECK_DEADLOCK FALSE
