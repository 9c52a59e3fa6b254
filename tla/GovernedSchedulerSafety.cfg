\* Plain, exclusive and non-cancellable items, two closers with any options.
SPECIFICATION Spec
CONSTANTS
  n1 = n1  n2 = n2  n3 = n3  x1 = x1  f1 = f1  k1 = k1  k2 = k2
  None = None
  Items = {n1, n2, n3, x1, f1}
  Exclusive = {x1}
  NonCancellable = {f1}
  MaxConcurrency = 2
  MaxQueue = 3
  Closers = {k1, k2}
  CloseModes <- AllModes
CHECK_DEADLOCK FALSE
SYMMETRY KindSymmetry
INVARIANTS TypeOK ExclusiveIsolation Bookkeeping NoLostWakeup DrainIsHonest
PROPERTIES CancellationIsBarrier NothingOvertakes
