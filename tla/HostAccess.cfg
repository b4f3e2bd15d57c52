CONSTANTS
  People = {u1}
  Tabs = {q1, q2}
  MaxGrants = 1
  Ttl = 1
  MaxTrouble = 1
  HostNames = {n1, n2}
  Addresses = {i1, i2}
  HostKeys = {k1, k2}
  Peers = {p1}
  Requests = {r1, r2}
  Null = Null
  MaxRequests = 3
  MaxMoves = 1
  Threads = {w1, w2}
  Clients = {a1, a2}
  Window = 2
  Lockout = 2
  MaxFails = 2
  MaxPerAddress = 2
  MaxGlobal = 3
SPECIFICATION AccessSpec
SYMMETRY MCSymmetry
 
PROPERTIES SessionsAreGated HostRecordsStand
CHECK_DEADLOCK FALSE
