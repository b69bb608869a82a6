CONSTANTS
  Proc = {p1, p2, p3}
  Op = {o1, o2}
  Cwd = {home, other}
  DefaultCwd = home
  NoCwd = NoCwd
  NoProc = NoProc
  NoOp = NoOp
  Probe = Probe
  MaxProcesses = 2
  PrewarmCount = 1
  MaxRpc = 0
SPECIFICATION FairSpec
PROPERTIES
  AcquireResolves
  DoomedLeavesPool
CHECK_DEADLOCK FALSE
