SPECIFICATION Spec
CONSTANTS
  p1 = p1
  p2 = p2
  r1 = r1
  r2 = r2
  a = a
  b = b
  nobody = nobody
  NoBody = nobody
  Ids <- MCTwoIds
  Producers <- MCOneProducer
  Pids <- MCPids
  MaxInst <- MCInstNoAdapter
  MaxGen = 2
  StaleSnapshots = FALSE
  StorageFaults = FALSE
  ForceKill = FALSE
SYMMETRY Symmetry
CHECK_DEADLOCK FALSE
PROPERTIES
  ConcludedStaysConcluded
