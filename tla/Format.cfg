SPECIFICATION Spec
CONSTANTS
  ByteBits = 2
  Characters <- MCCharacters
  Calls <- MCCalls
  Lens <- MCLens
INVARIANTS TypeOK Correct ArgumentsTaken
\* A call returns, or panics.
CHECK_DEADLOCK FALSE
