CONSTANTS
  j1 = j1
  j2 = j2
  j3 = j3
  k1 = k1
  k2 = k2
  k3 = k3
  k4 = k4
  x = x
  p1 = p1
  p2 = p2
  w1 = w1
  w2 = w2
  s1 = s1
  s2 = s2
  NoJob = NoJob
  NoSchedule = NoSchedule
  Singles = {j1}
  Delayed = {j1}
  Clones = {k1, k2}
  Schedules = {x}
  Unloadable = {j1}
  Unreadable = {j1}
  Servers = {s1}
  Pools = {p1, p2}
  ServerOf <- BothOnS1
  NameOf <- TwoNames
  PoolName <- AllDefault
  HomeOf <- AllFromS1
  BufferLength = 1
  PostgreSql = FALSE
  MaxFaults = 1
  MaxOccurrences = 1
  Workers = {w1}
  PoolOf <- WorkForBoth
  Failing = {j1}
  FailureRetryCount = 1
  MaxCrashes = 0
SPECIFICATION FairSpec
INVARIANT ClonedOnce
PROPERTY AcceptedJobsEnd
PROPERTY OccurrencesAnswered
CHECK_DEADLOCK FALSE
