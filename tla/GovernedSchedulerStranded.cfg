\* The same scheduler: an item that cannot be cancelled is left in the queue.
SPECIFICATION FairSpec
CONSTANTS
  n1 = n1  n2 = n2  n3 = n3  x1 = x1  f1 = f1  k1 = k1  k2 = k2
  None = None
  Items = {n1, n2, n3, x1, f1}
  Exclusive = {x1}
  NonCancellable = {f1}
  MaxConcurrency = 2
  MaxQueue = 3
  Closers = {k1}
  CloseModes <- ShutdownMode
CHECK_DEADLOCK FALSE
PROPERTIES EveryHandleSettles
