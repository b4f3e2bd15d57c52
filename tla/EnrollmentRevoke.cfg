CONSTANTS
  Machines = {m1}
  Tokens = {t1, t2}
  Workers = {w1, w2}
  None = None
  HostLimit = 1
  MaxSecrets = 2
  MaxEvents = 2
SPECIFICATION Spec
SYMMETRY MCSymmetry
PROPERTIES RevocationSticks
