SPECIFICATION Spec
CONSTANTS
  RamSize = 256
  DwordBytes = 2
  MaxLate = 1
  AlarmMs = 2
  GuestNames = {"bottom"}
  Typed <- MCTyped
PROPERTY PushFaults
CHECK_DEADLOCK FALSE
