SPECIFICATION FairSpec
CONSTANTS
  c1 = c1
  c2 = c2
  Client <- OneClient
  NoState = NoState
  Idle = Idle
  Segmented = TRUE
  MaxBatches = 1
  MaxFile = 2
  MaxLive = 1
  MaxTurns = 1
  MaxRaces = 1
  MaxRequests = 1
  MaxDrops = 1
INVARIANTS
  TypeOK
  NeverGoesBack
  ShowsItsRevision
  PatchesFit
PROPERTIES
  EventuallyUpToDate
CHECK_DEADLOCK FALSE
