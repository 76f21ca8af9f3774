SPECIFICATION Spec
CONSTANTS
  Kinds = {"token", "leaky", "window"}
  One = 3
  Capacity = 4
  Rate = 2
  Limit = 2
  WindowDuration = 5
  TTLDuration = 9
  Ms = 2
  Requests = {q1, q2, q3}
  MaxTime = 10
  MaxBacks = 2
SYMMETRY MCSymmetry
INVARIANTS TypeOK WithinRate AtMostLimitKept RetryAfterExact
