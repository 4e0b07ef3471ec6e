CONSTANTS
  main = main
  sub = sub
  addr1 = addr1
  addr2 = addr2
  r1 = r1
  r2 = r2
  NoConfig = NoConfig
  Keys <- TwoKeys
  Conns <- TwoConns
  Settings = {"same"}
  Reloaders <- TwoReloaders
SPECIFICATION LiveSpec
INVARIANTS OneRunPerStream NoneLeftRunning FleetMatches
PROPERTIES RunEnds
