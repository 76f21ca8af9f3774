SPECIFICATION Spec
CONSTANTS
  Threads = {t1, t2}
  MaxTime = 4
  Limit = 3
  Window = 3
INVARIANT AtMostLimit
