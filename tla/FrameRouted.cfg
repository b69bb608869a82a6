SPECIFICATION FrameSpec
CONSTANTS
  HighWater = 2
  LowWater = 0
  QueueLimit = 5
  MaxPending = 4
  ThroughRouter = TRUE
  MaxChunks = 2
  MaxFrames = 4
  MaxSubscriptions = 2
INVARIANTS
  NeverOverflowsItself
CHECK_DEADLOCK FALSE
