CONSTANTS
  j1 = j1
  j2 = j2
  j3 = j3
  k1 = k1
  k2 = k2
  k3 = k3
  k4 = k4
  x = x
  p1 = p1
  p2 = p2
  w1 = w1
  w2 = w2
  s1 = s1
  s2 = s2
  NoJob = NoJob
  NoSchedule = NoSchedule
  Singles = {j1}
  Delayed = {}
  Clones = {}
  Schedules = {}
  Unloadable = {}
  Unreadable = {}
  Servers = {s1}
  Pools = {p1}
  ServerOf <- PoolPerServer
  NameOf <- OneName
  PoolName <- AllDefault
  HomeOf <- AllFromS1
  BufferLength = 1
  PostgreSql = FALSE
  MaxFaults = 0
  MaxOccurrences = 0
  Workers = {w1}
  PoolOf <- WorkForBoth
  Failing = {}
  FailureRetryCount = 0
  MaxCrashes = 1
SPECIFICATION FairSpec
PROPERTY ExecutedAfterRestart
CHECK_DEADLOCK FALSE
