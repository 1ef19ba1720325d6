CONSTANTS
  s1 = s1
  s2 = s2
  r1 = r1
  r2 = r2
  r3 = r3
  p1 = p1
  p2 = p2
  w1 = w1
  w2 = w2
  c1 = c1
  c2 = c2
  NoDef = NoDef
  Singles = {}
  Delayed = {}
  Recurrents = {r1, r2, r3}
  Pools = {p1}
  PoolName <- AllInP1
  BufferLength = 1
  Callers = {c1}
  IdBits = 2
  Workers = {w1, w2}
  PoolOf <- WorkForP1
  Failing = {}
  FailureRetryCount = 1
  CleanJob = NoDef
SPECIFICATION Spec
INVARIANT TypeOK
INVARIANT OneCopy
INVARIANT NoScheduleDropped
PROPERTY NoExtraRun
SYMMETRY Symmetry
CHECK_DEADLOCK FALSE
