SPECIFICATION Spec
CONSTANTS
  Threads = {t1, t2}
  Keys <- MCKeys
  Hash <- MCHash
  ShardCount = 2
  Eviction = "lru"
  MaxKeys = 2
  KeyTTL = 1
  CleanupInterval = 1
  CleanupBatchSize = 1
  MaxTime = 2
  NoOne = NoOne
SYMMETRY MCSymmetry
INVARIANTS LockDiscipline WaitsEnd FnOnStoredKey OrderIsTotal EvictionsWillDrain
PROPERTY LeavesOnlyExpired
PROPERTY ImplementsKeyStore
