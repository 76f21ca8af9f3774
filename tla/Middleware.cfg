SPECIFICATION Spec
CONSTANTS
  p1 = p1
  t1 = t1
  t2 = t2
  ip = ip
  Threads = {t1, t2}
  Procs = {p1}
  Keys = {t1, t2, ip}
  Home <- MCHome
  Blank = blank
  Client = ip
  Address <- MCAddress
  Configs <- MCConfigs
  Quota = 1
  LocalQuota = 1
  MaxResends = 1
  MaxFlushes = 2
  MaxRequests = 2
INVARIANTS TypeOK QuotaAccounted RunsExplained NoScriptNeedsFlush Reported ClientWithinQuota
PROPERTY RequestAnswered
CHECK_DEADLOCK FALSE
