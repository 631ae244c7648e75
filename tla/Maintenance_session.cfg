SPECIFICATION Spec
CONSTANTS
  STABLE_SECONDS = 2
  MAX_GAP = 1
  Lingering = FALSE
  MaxSessions = 2
  MaxFaults = 3
CHECK_DEADLOCK FALSE
INVARIANTS
  TypeOK
  RecoveryQuiet
  SentOnce
  LeavesAsFound
  PhaseHonest
PROPERTIES
  ReturnEarned
  NothingLate
  WalksTheLadder
