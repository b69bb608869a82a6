SPECIFICATION Spec
CONSTANTS
  b1 = b1
  Device = {d1, d2}
  Backend = {b1}
  Account = {a1, a2}
  Pair = {p1, p2}
  Ticket = {t1, t2}
  Invite = {}
  Host <- OneHost
  Nobody = Nobody
  Coalescing = FALSE
  MaxFailures = 1
  MaxLapses = 0
  MaxRevocations = 1
SYMMETRY Symmetric
INVARIANT StaleIsAlwaysRetained
CHECK_DEADLOCK FALSE
