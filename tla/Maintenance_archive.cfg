SPECIFICATION Spec
CONSTANTS
  STABLE_SECONDS = 2
  MAX_GAP = 1
  Lingering = TRUE
  MaxSessions = 2
  MaxFaults = 2
CHECK_DEADLOCK FALSE
INVARIANTS
  BeginPossible
