SPECIFICATION Spec
CONSTANTS
  START_AFTER = 2
  STOP_AFTER = 2
  AFTER = 2
  MAX_SAMPLE_GAP = 1
  SETTLE = 2
  STABLE = 3
  Gaps <- MCShortGaps
  MaxGap = 2
  MaxTime = 6
  MaxRestarts = 1
  MaxCommands = 1
CHECK_DEADLOCK FALSE
INVARIANTS
  TypeOK
  StartEarned
  StopEarned
  BoundedStart
  BoundedStop
  NoBackupDuringMaintenance
PROPERTIES
  CauseClosureEarned
  KeepsStandby
