SPECIFICATION Spec
CONSTANTS
  Kinds = {"window"}
  One = 3
  Capacity = 4
  Rate = 2
  Limit = 2
  WindowDuration = 8
  TTLDuration = 2
  Ms = 2
  Requests = {q1, q2, q3}
  MaxTime = 10
  MaxBacks = 2
SYMMETRY MCSymmetry
INVARIANT AtMostLimit
