SPECIFICATION FairSpec
CONSTANTS
  d1 = d1
  d2 = d2
  i1 = i1
  i2 = i2
  None = None
  Intents <- MCIntents
  Dispatchers <- MCDispatchers
  MaxAttempts = 2
  LeaseTtl = 2
  AttemptTimeout = 1
  RetryDelays <- MCDelays
  Lates <- MCLates
  MaxEpochs = 1
  MaxFaults = 1
INVARIANTS
  TypeOK
  AtMostOnce
PROPERTIES
  AttemptsEarned
  KeepsMailbox
  StaleSettles
  Concludes
