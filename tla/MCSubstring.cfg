SPECIFICATION Spec
CONSTANTS
  n1 = n1
  n2 = n2
  n3 = n3
  Node = {n1, n2, n3}
  Within <- OneInAnother
  Addable <- Ring
  MaxMessages = 1
  MaxFaults = 0
PROPERTY ForwardsToAllButSender
CHECK_DEADLOCK FALSE
