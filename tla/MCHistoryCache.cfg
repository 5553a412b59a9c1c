CONSTANTS
  f1 = f1
  f2 = f2
  mainThread = mainThread
  Flushers <- TwoFlushers
  Main = mainThread
  MaxSent = 2
  BatchSize = 1
  Faults = {"rpush", "insert", "crash", "exit"}
SPECIFICATION FairSpec
INVARIANTS TypeOK   
 
