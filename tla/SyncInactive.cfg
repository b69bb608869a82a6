SPECIFICATION Spec
CONSTANTS
  c1 = c1
  c2 = c2
  Client <- OneClient
  NoState = NoState
  Idle = Idle
  Segmented = FALSE
  MaxBatches = 0
  MaxFile = 2
  MaxLive = 0
  MaxTurns = 0
  MaxRaces = 0
  MaxRequests = 2
  MaxDrops = 0
INVARIANTS
  InactiveIsUnsubscribed
CHECK_DEADLOCK FALSE
