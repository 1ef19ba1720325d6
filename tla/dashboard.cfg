CONSTANTS
  a = a
  b = b
  Series = {a, b}
  MaxLag = 2
  MaxTime = 4
  MaxLate = 0
  MaxTotal = 1
  Size = 2
  Work <- Load
  Offsets <- TimeZones
  MaxRequests = 2
  MaxFailures = 1
  Missing = Missing
  NoChart = NoChart
SPECIFICATION FairSpec
INVARIANT TypeOK
INVARIANT WindowBounded
INVARIANT LinesComplete
INVARIANT NeverInvents
PROPERTY CountersAdvance
PROPERTY SamplesStay
PROPERTY CatchesUp
CHECK_DEADLOCK FALSE
