SPECIFICATION FairSpec
CONSTANTS
  W = 3
  CounterPtr = CounterPtr
  Junk = Junk
  Devices <- TwoDevices
  EarlyTick = FALSE
INVARIANTS TypeOK SavedContextIsUser InServiceIsHandled NoPanic
PROPERTIES CounterCounts TasksProgress
