SPECIFICATION FairSpec
CONSTANTS
  Client = {c1, c2}
  Limit = 1
  MaxPosts = 4
  MaxRestarts = 1
INVARIANTS
  TypeOK
  HistoryIsTheTail
  ShownOnceInOrder
  NoGap
PROPERTIES
  EventuallyShown
  ImplementsLog
CHECK_DEADLOCK FALSE
