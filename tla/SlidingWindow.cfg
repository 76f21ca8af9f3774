SPECIFICATION Spec
CONSTANTS
  Threads = {t1, t2}
  MaxTime = 5
  Limit = 3
  Window = 3
INVARIANTS TypeOK LogBounded AtMostLimitInOrder SearchFindsFirst RetryAfterExact RemainingHonest
