CONSTANTS
  Hosts = {h1}
  Workers = {w1, w2}
  MaxTasks = 2
  MaxFaults = 2
  Requests <- MCRequests
  ReclaimAfter = 1
  Retention = 2
  BecomeTTL = 0
  CmdTimeout = 2
SPECIFICATION Spec
CONSTRAINT MCBounds
SYMMETRY MCSymmetry
INVARIANTS TypeOK AskedIsDoneOnce AtMostOnce OneOutcome
PROPERTIES OutcomeIsFinal KeepsLifecycle
