CONSTANTS
  Requests = {q1, q2}
  NEndpoints = 2
  MaxUpdates = 3
SYMMETRY MCSymmetry
SPECIFICATION Spec
INVARIANT DrainBeforeClose
