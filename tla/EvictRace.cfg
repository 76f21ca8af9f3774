SPECIFICATION Spec
CONSTANTS
  Threads = {t1, t2}
  Keys <- MCKeys
  Hash <- MCHash
  ShardCount = 2
  Eviction = "lru"
  MaxKeys = 1
  KeyTTL = 0
  CleanupInterval = 0
  CleanupBatchSize = 1
  MaxTime = 0
  NoOne = NoOne
SYMMETRY MCSymmetry
PROPERTY KeepsRequestedKey
