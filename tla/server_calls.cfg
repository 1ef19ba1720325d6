CONSTANTS
  c1 = c1
  c2 = c2
  d1 = d1
  d2 = d2
  Starters = {c1, c2}
  Stoppers = {d1, d2}
  PoolCount = 2
  DelayedStart = TRUE
SPECIFICATION FairSpec
INVARIANT TypeOK
INVARIANT StatusTells
PROPERTY StopReturnsUnlessUncancelled
PROPERTY DelayedStartHappens
CHECK_DEADLOCK FALSE
