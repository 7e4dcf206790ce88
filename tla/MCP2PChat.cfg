SPECIFICATION FairSpec
CONSTANTS
  n1 = n1
  n2 = n2
  n3 = n3
  Node = {n1, n2, n3}
  Within <- Distinct
  Addable <- Ring
  MaxMessages = 1
  MaxFaults = 1
INVARIANTS
  PrintedOnce
  RoutesHaveNoLoops
  GreetedOncePerThread
PROPERTIES
  FloodEnds
  BecomesMutual
  EverybodyReached
CHECK_DEADLOCK FALSE
