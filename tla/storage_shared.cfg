CONSTANTS
  s1 = s1
  s2 = s2
  r1 = r1
  r2 = r2
  r3 = r3
  p1 = p1
  p2 = p2
  w1 = w1
  w2 = w2
  c1 = c1
  c2 = c2
  NoDef = NoDef
  Singles = {s1}
  Delayed = {s1}
  Recurrents = {r1}
  Pools = {p1, p2}
  PoolName <- AllInP1
  BufferLength = 1
  Callers = {c1}
  IdBits = 1
  Workers = {w1}
  PoolOf <- WorkForP1
  Failing = {s1}
  FailureRetryCount = 1
  CleanJob = r1
SPECIFICATION FairSpec
INVARIANT OneCopy
INVARIANT SinglesInOnePlace
PROPERTY CleanEndsProcess
CHECK_DEADLOCK FALSE
