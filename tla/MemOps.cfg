SPECIFICATION Spec
CONSTANTS
  Space = 8
  Byte <- MCByte
  Memories <- MCMemories
  NoResult = NoResult
INVARIANTS TypeOK MemsetExact MemcpyExact FlagsKept ScansFirst
\* The function returns.
CHECK_DEADLOCK FALSE
