CONSTANTS
  Machines = {m1, m2}
  Tokens = {t1, t2}
  Workers = {w1, w2}
  None = None
  HostLimit = 1
  MaxSecrets = 3
  MaxEvents = 1
SPECIFICATION Spec
SYMMETRY MCSymmetry
INVARIANTS TypeOK SingleUse HostCap TakeoverNeedsReissue
PROPERTIES ForceDeletedStaysGone
