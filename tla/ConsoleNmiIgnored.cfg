SPECIFICATION LiveSpec
CONSTANTS
  Size = 3
  PanicMessage <- MCPanic
  NmiReport <- MCNmiReport
  Uninitialised <- MCUninitialised
  Messages <- FewMessages
  Padding = 2
  MaxPrints = 1
  MaxReads = 0
  MaxReceived = 0
  MaxNmis = 1
PROPERTY NmiIgnored
