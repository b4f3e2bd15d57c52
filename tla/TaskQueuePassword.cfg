CONSTANTS
  Hosts = {h1}
  Workers = {w1, w2}
  MaxTasks = 1
  MaxFaults = 0
  Requests <- MCPassword
  ReclaimAfter = 1
  Retention = 2
  BecomeTTL = 0
  CmdTimeout = 2
SPECIFICATION Spec
SYMMETRY MCSymmetry
INVARIANTS RunsWithItsItems
