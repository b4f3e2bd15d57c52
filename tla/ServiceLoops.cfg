CONSTANTS
  PoolSize = 4
  MaxUnavailable = 2
  MinHealthy = 2
  MaxLosses = 1
  Jobs = {1, 2}
  WeeklyJobs = {2}
  SchedHosts = 2
  Period = 2
  DueAt = 1
  ShiftAt = 2
  MaxShift = 1
  MaxTime = 2
  MaxEdits = 1
  MaxMishaps = 1
  Nothing = Nothing
  MaxKeys = 1
  MaxChunks = 1
  Cap = 1
  IdleAfter = 1
  MaxHitches = 1
  Files = {f1, f2}
  Bytes = {c1, c2}
  Missing = Missing
  MaxJobs = 2
  MaxFileChanges = 1
  MaxFaults = 2
  MaxVersions = 2
  MaxRestores = 2
  MaxWishes = 1
  MaxTroubles = 2
  Threads = {w1}
  None = None
  Window = 1
  Grace = 1
  Cooldown = 1
  MaxEvents = 1
SPECIFICATION LoopsSpec
PROPERTIES LoopsServe ChannelsEnd
CHECK_DEADLOCK FALSE
