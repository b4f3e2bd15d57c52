CONSTANTS
  Nothing = Nothing
  MaxKeys = 2
  MaxChunks = 2
  Cap = 2
  IdleAfter = 1
  MaxHitches = 1
  Files = {f1, f2}
  Bytes = {c1, c2}
  Missing = Missing
  MaxJobs = 2
  MaxFileChanges = 2
  MaxFaults = 2
  MaxVersions = 3
  MaxRestores = 2
  MaxWishes = 1
  MaxTroubles = 2
  Threads = {w1, w2}
  None = None
  Window = 1
  Grace = 1
  Cooldown = 1
  MaxEvents = 1
  MaxEdits = 3
  MaxMishaps = 2
  MaxSteps = 3
  MaxOwnFailures = 2
  MaxFailures = 1
SPECIFICATION ChannelsSpec
INVARIANTS StreamsAreWhole  
PROPERTIES IntegrityHolds
CHECK_DEADLOCK FALSE
