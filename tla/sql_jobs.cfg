CONSTANTS
  j1 = j1
  j2 = j2
  j3 = j3
  k1 = k1
  k2 = k2
  k3 = k3
  k4 = k4
  x = x
  p1 = p1
  p2 = p2
  w1 = w1
  w2 = w2
  s1 = s1
  s2 = s2
  NoJob = NoJob
  NoSchedule = NoSchedule
  Singles = {j1, j2}
  Delayed = {}
  Clones = {}
  Schedules = {}
  Unloadable = {}
  Unreadable = {}
  Servers = {s1, s2}
  Pools = {p1, p2}
  ServerOf <- PoolPerServer
  NameOf <- OneName
  PoolName <- AllDefault
  HomeOf <- AllFromS1
  BufferLength = 1
  PostgreSql = TRUE
  MaxFaults = 1
  MaxOccurrences = 0
  Workers = {w1, w2}
  PoolOf <- WorkForBoth
  Failing = {j1}
  FailureRetryCount = 2
  MaxCrashes = 1
ACTION_CONSTRAINT OneMishap
SPECIFICATION Spec
INVARIANT TypeOK
INVARIANT OneHand
INVARIANT WaitingUntouched
INVARIANT NotRunAgain
INVARIANT OutcomeRecorded
CHECK_DEADLOCK FALSE
