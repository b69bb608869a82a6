SPECIFICATION FairSpec
CONSTANTS
  b1 = b1
  Device = {d1}
  Backend = {b1}
  Account = {a1}
  Pair = {p1}
  Ticket = {t1, t2}
  Invite = {}
  Host <- OneHost
  Nobody = Nobody
  Coalescing = TRUE
  MaxFailures = 2
  MaxLapses = 0
  MaxRevocations = 1
PROPERTY OfflineRevocationArrives
CHECK_DEADLOCK FALSE
