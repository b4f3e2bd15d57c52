CONSTANTS
  Users = {u1, u2}
  Tokens = {t1, t2}
  Workers = {w1, w2}
  OtherRoles = {"sysadmin"}
  None = None
  Sso = TRUE
  MaxPasswords = 2
  MaxEvents = 2
SPECIFICATION Spec
SYMMETRY MCSymmetry
INVARIANTS TypeOK LockoutNeedsOverlap SessionsEnd
CHECK_DEADLOCK FALSE
