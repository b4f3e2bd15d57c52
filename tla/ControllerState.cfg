CONSTANTS
  Workers = {w1, w2}
  None = None
  MaxRows = 2
  MaxId = 4
  MaxFaults = 2
  Scopes = {all, host}
  MaxOutages = 3
  MaxVersions = 2
  MaxRestores = 2
  MaxHarm = 2
  NetAddresses = {a1, a2}
  Regenerations = {g1}
  MaxIdentities = 3
  MaxSaves = 1
  MaxMoves = 1
  MaxCrashes = 1
  Ports = {p1, p2}
  Strikes = 2
  MaxPasswords = 2
  MaxProcesses = 2
  MaxLogins = 2
  Bastions = {b1, b2}
  EnvHost = NoHost
  NoHost = NoHost
  Savers = {s1, s2}
  MaxSavings = 3
  MaxKeys = 3
SPECIFICATION StateSpec
SYMMETRY MCSymmetry
INVARIANTS TypeOK ChainVerifies DamageIsReported MarkBehindTail RecentRowsKept
           StateIsReadable 
  
CHECK_DEADLOCK FALSE
