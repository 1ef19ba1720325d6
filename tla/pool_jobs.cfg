SPECIFICATION Spec
CONSTANTS
  Items = {i1, i2}
  Failing = {i1, i2}
  Unloadable = {}
  Workers = {w1, w2, w3}
  NoItem = NoItem
  NoWorker = NoWorker
  ThreadCount = 1
  BufferLength = 1
  FailureRetryCount = 2
  MaxStarts = 1
  MaxStops = 0
  i1 = i1
  i2 = i2
  w1 = w1
  w2 = w2
  w3 = w3
  w4 = w4
INVARIANTS TypeOK InOnePlace RetryPolicy FleetBounded
SYMMETRY ItemSymmetry
\* a pool nobody calls rests
CHECK_DEADLOCK FALSE
