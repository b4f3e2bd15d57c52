CONSTANTS
  Workers = {w1, w2}
  None = None
  MaxRows = 0
  MaxId = 2
  MaxFaults = 0
SPECIFICATION Spec
SYMMETRY MCSymmetry
INVARIANTS NoFalseTruncation
