SPECIFICATION DevFairSpec
CONSTANTS
  RamSize = 1
  DwordBytes = 1
  MaxLate = 1
  MaxArms = 2
  MaxAlarm = 1
  PortBytes = {0, 1}
  Typed <- MCTyped
INVARIANTS
  DevTypeOK
  FifoDelivery
  OneShot
  NoLostWakeup
  MutexLostOnlyAtBoot
PROPERTY AlarmFires
CHECK_DEADLOCK FALSE
