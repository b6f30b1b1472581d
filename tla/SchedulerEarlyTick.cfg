SPECIFICATION Spec
CONSTANTS
  W = 3
  CounterPtr = CounterPtr
  Junk = Junk
  Devices <- TwoDevices
  EarlyTick = TRUE
INVARIANTS Ring3Coherent SavedContextLeadsToOwner
PROPERTIES ImplementsVirtualCpus
CHECK_DEADLOCK FALSE
