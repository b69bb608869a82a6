SPECIFICATION FrameFairSpec
CONSTANTS
  HighWater = 2
  LowWater = 0
  QueueLimit = 5
  MaxPending = 4
  ThroughRouter = FALSE
  MaxChunks = 2
  MaxFrames = 4
  MaxSubscriptions = 2
INVARIANTS
  FrameTypeOK
  CancellationIsClean
  LanesArriveInOrder
  NeverOverflowsItself
PROPERTIES
  QueuedArrives
CHECK_DEADLOCK FALSE
