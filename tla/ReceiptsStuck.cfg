SPECIFICATION FairSpec
CONSTANTS
  c1 = c1
  c2 = c2
  o1 = o1
  o2 = o2
  o3 = o3
  o4 = o4
  Client = {c1}
  Op = {o1, o2}
  Owner <- OwnerOfOne
  Deferred = {o2}
  MaxActive = 2
  MaxCompleted = 3
  MaxDrops = 1
  MaxTimeOuts = 1
  MaxCompactions = 1
  MaxRestarts = 0
  MaxLosses = 1
PROPERTIES
  QueuedIsExecuted
CHECK_DEADLOCK FALSE
