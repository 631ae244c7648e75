SPECIFICATION SmoothSpec
CONSTANTS
  STABLE_SECONDS = 2
  MAX_GAP = 1
  Lingering = FALSE
  MaxSessions = 1
  MaxFaults = 0
CHECK_DEADLOCK FALSE
PROPERTIES
  Closes
