SPECIFICATION Spec
CONSTANTS
  Threads = {t1, t2}
  MaxTime = 4
  One = 5
  Capacity = 11
  Rate = 3
  MaxDuration = 5
  Second = 2
INVARIANTS TypeOK WithinRate RetryAfterExact RemainingHonest HeaderExact
