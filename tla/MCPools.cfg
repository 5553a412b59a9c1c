CONSTANTS
  h1 = h1
  f1 = f1
  f2 = f2
  m1 = m1
  m2 = m2
  s1 = s1
  Handlers <- MCHandlers
  Flushers <- MCFlushers
  HandlerTasks <- MCMessages
  FlushTasks <- MCFlushes
  Main = main
  Nothing = Nothing
  PoolSize = 1
SPECIFICATION FairSpec
INVARIANT ConnectionsConserved NoIdleConnection NoIdleTask
PROPERTY TasksFinish 
CHECK_DEADLOCK FALSE
