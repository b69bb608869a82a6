SPECIFICATION FairSpec
CONSTANTS
  c1 = c1
  c2 = c2
  Client <- TwoClients
  NoState = NoState
  Idle = Idle
  Segmented = FALSE
  MaxBatches = 0
  MaxFile = 2
  MaxLive = 0
  MaxTurns = 0
  MaxRaces = 0
  MaxRequests = 0
  MaxDrops = 0
PROPERTIES
  EventuallyUpToDate
CHECK_DEADLOCK FALSE
