SPECIFICATION Spec
CONSTANTS
  W = 3
  CounterPtr = CounterPtr
  Junk = Junk
  Devices <- NoDevices
  EarlyTick = TRUE
INVARIANTS SavedContextIsUser
CHECK_DEADLOCK FALSE
