SPECIFICATION Spec
CONSTANTS
  c1 = c1
  c2 = c2
  o1 = o1
  o2 = o2
  o3 = o3
  o4 = o4
  Client = {c1, c2}
  Op = {o1, o2, o3, o4}
  Owner <- OwnerOfFour
  Deferred = {o4}
  MaxActive = 2
  MaxCompleted = 1
  MaxDrops = 1
  MaxTimeOuts = 1
  MaxCompactions = 1
  MaxRestarts = 1
  MaxLosses = 1
INVARIANTS
  TypeOK
  AnswerIsDue
PROPERTIES
  ExecutedOnceAtATime
  ToldIsTrue
CHECK_DEADLOCK FALSE
