CONSTANTS
  PoolSize = 5
  MaxUnavailable = 2
  MinHealthy = 2
  MaxLosses = 2
  Jobs = {1, 2}
  WeeklyJobs = {2}
  SchedHosts = 2
  Period = 3
  DueAt = 2
  ShiftAt = 3
  MaxShift = 2
  MaxTime = 4
  MaxEdits = 1
  MaxMishaps = 2
  HostCount = 2
  RowNames = {n1, n2}
  RowIps = {i1, i2}
  Orders = {r1}
  MaxChanges = 4
  MaxFailedReads = 1
  AlertHosts = {h1}
  Forms = {f1, f2}
  MaxVersion = 1
  MaxPosts = 2
  MaxTurns = 2
  MaxUpsets = 1
  FleetHosts = {h1, h2}
  CacheTtl = 1
  MemoTtl = 1
  StoreMaxAge = 1
  MaxTasks = 3
  MaxClock = 2
  MaxTrouble = 1
  Managed = {h1, h2}
  States = {s1, s2}
  MaxActions = 2
  MaxRuns = 12
  MaxRefusals = 1
SPECIFICATION WorkSpec
INVARIANTS RollingIsSafe DispatchIsTrue BaselineIsKept
   
CHECK_DEADLOCK FALSE
