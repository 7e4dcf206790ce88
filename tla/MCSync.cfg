SPECIFICATION FairSpec
CONSTANTS
  Thread = {t1, t2, t3}
  Jobs = 3
  MaxCounter = 3
  IdsPerThread = 2
  Values = 10
  Wanted = 8
  MaxProverbs = 3
INVARIANTS
  SyncTypeOK
  CountsAreRight
PROPERTIES
  ImplementsWorkQueue
  ThreadsEnd
CHECK_DEADLOCK FALSE
