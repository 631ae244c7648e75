SPECIFICATION FairSpec
CONSTANTS
  p1 = p1
  p2 = p2
  r1 = r1
  r2 = r2
  a = a
  b = b
  nobody = nobody
  NoBody = nobody
  Ids <- MCOneId
  Producers <- MCOneProducer
  Pids <- MCPids
  MaxInst <- MCInstBoth
  MaxGen = 2
  StaleSnapshots = TRUE
  StorageFaults = FALSE
  ForceKill = TRUE
CHECK_DEADLOCK FALSE
INVARIANTS
  InFlightIsHeld
PROPERTIES
  InFlightSettles
