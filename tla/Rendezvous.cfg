SPECIFICATION Spec
CONSTANTS
  b1 = b1
  Device = {d1, d2}
  Backend = {b1}
  Account = {a1, a2}
  Pair = {p1, p2}
  Ticket = {t1, t2}
  Invite = {i1}
  Host <- OneHost
  Nobody = Nobody
  Coalescing = TRUE
  MaxFailures = 1
  MaxLapses = 1
  MaxRevocations = 1
SYMMETRY Symmetric
INVARIANTS
  TypeOK
  StoreReloads
  StaleIsRetained
  PeersAreMembers
CHECK_DEADLOCK FALSE
