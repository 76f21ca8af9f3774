SPECIFICATION Spec
CONSTANTS
  Threads = {t1, t2}
  Keys <- MCKeys
  Hash <- MCHash
  ShardCount = 2
  Eviction = "reject"
  MaxKeys = 2
  KeyTTL = 1
  CleanupInterval = 1
  CleanupBatchSize = 1
  MaxTime = 2
  NoOne = NoOne
SYMMETRY MCSymmetry
PROPERTY RejectsOnlyNewKeys
