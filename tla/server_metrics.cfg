CONSTANTS
  p1 = p1
  w1 = w1
  m1 = m1
  u1 = u1
  u2 = u2
  Pools = {p1}
  ShowInUi = {p1}
  Workers = {w1}
  MetricsThreads = {m1}
  Owner <- AllOfP
  Updaters = {u1, u2}
  Keep = 1
  LastTime = 3
  MaxOutcomes = 1
  MaxUpdates = 3
SPECIFICATION FairSpec
INVARIANT SamplesRight
PROPERTY ImplementsSource
PROPERTY EachPoolAppears
CHECK_DEADLOCK FALSE
