SPECIFICATION Spec
CONSTANTS
  Size = 3
  PanicMessage <- MCPanic
  NmiReport <- MCNmiReport
  Uninitialised <- MCUninitialised
  Messages <- MCMessages
  Padding = 2
  MaxPrints = 2
  MaxReads = 1
  MaxReceived = 2
  MaxNmis = 0
INVARIANTS TypeOK Configured ReadsClean PanicFlushed
PROPERTY ImplementsConsoleLine
