CONSTANTS
  c1 = c1
  c2 = c2
  t1 = t1
  t2 = t2
  Conns <- MCConns
  ExtThreads <- MCThreads
  CloserOf <- BothClose
  Sends <- OnlyC2
  MaxQueued = 1
SPECIFICATION FairSpec
INVARIANTS TypeOK CallbackOrder NoLateMessage FailsOnlyWithTwoClosers
PROPERTY ClosedIsReported
CHECK_DEADLOCK FALSE
