SPECIFICATION FairSpec
CONSTANTS
  RamSize = 256
  DwordBytes = 2
  MaxLate = 1
  AlarmMs = 2
  GuestNames <- AllGuests
  Typed <- MCTyped
INVARIANTS
  MachineTypeOK
  InterruptsAreTransparent
  HandlersNeverNest
  QueuesStayShort
  EchoFollowsInput
PROPERTIES
  AlarmWakesGuest
  ConsoleIsServed
  UnhandledFaultEndsMachine
  FaultsAreSurvived
CHECK_DEADLOCK FALSE
