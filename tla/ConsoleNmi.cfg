SPECIFICATION LiveSpec
CONSTANTS
  Size = 3
  PanicMessage <- MCPanic
  NmiReport <- MCNmiReport
  Uninitialised <- MCUninitialised
  Messages <- FewMessages
  Padding = 2
  MaxPrints = 1
  MaxReads = 1
  MaxReceived = 1
  MaxNmis = 2
INVARIANT LossBound
PROPERTY Returns
