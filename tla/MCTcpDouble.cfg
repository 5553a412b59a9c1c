CONSTANTS
  c1 = c1
  c2 = c2
  t1 = t1
  t2 = t2
  Conns <- OneConn
  ExtThreads <- OneThread
  CloserOf <- BothCloseOne
  Sends <- NoSends
  MaxQueued = 1
SPECIFICATION Spec
INVARIANT RemovedOnce
CHECK_DEADLOCK FALSE
