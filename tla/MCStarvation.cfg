SPECIFICATION FairSpec
CONSTANTS
  RamSize = 256
  DwordBytes = 2
  MaxLate = 1
  AlarmMs = 2
  GuestNames = {"both"}
  Typed <- MCTyped
PROPERTY NoInterruptStarves
CHECK_DEADLOCK FALSE
