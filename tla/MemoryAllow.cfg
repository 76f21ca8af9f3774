SPECIFICATION AllowSpec
CONSTANTS
  Threads = {t1, t2}
  Keys <- MCKeys
  Hash <- MCHash
  ShardCount = 2
  Eviction = "lru"
  MaxKeys = 1
  KeyTTL = 2
  CleanupInterval = 1
  CleanupBatchSize = 1
  MaxTime = 2
  NoOne = NoOne
  MaxCalls = 3
INVARIANTS EvictionsReported GaugeSettles
PROPERTIES EveryCallReturns FreshKept
CHECK_DEADLOCK FALSE
