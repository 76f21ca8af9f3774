SPECIFICATION Spec
CONSTANTS
  Threads = {t1, t2}
  MaxTime = 4
  One = 3
  Capacity = 7
  Rate = 2
  MaxDuration = 9
INVARIANTS TypeOK SameReport
PROPERTY ActsAsTokenBucket
