SPECIFICATION Spec
CONSTANTS
  Thread = {t1, t2, t3}
  Ticks = {0, 1}
  MaxEdits = 2
  MaxRequests = 2
SYMMETRY Threads
INVARIANTS
  AnswersAreFreshUnlessRaced
PROPERTY CacheFollowsTheFile
CHECK_DEADLOCK FALSE
