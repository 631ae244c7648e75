SPECIFICATION FairSpec
CONSTANTS
  LEASE = 2
  HEARTBEAT = 1
  START = 1
  Senders <- MCSenders
  Relays <- MCRelays
INVARIANTS
  TypeOK
  SwitchFenced
  OverlapBounded
  ReactionBounded
  LeaseAgrees
PROPERTIES
  DirectAgain
