SPECIFICATION Spec
CONSTANTS
  Size = 3
  PanicMessage <- MCPanic
  NmiReport <- MCNmiReport
  Uninitialised <- MCUninitialised
  Messages <- MCMessages
  Padding = 2
  MaxPrints = 0
  MaxReads = 0
  MaxReceived = 0
  MaxNmis = 0
INVARIANT EfrAddressed
