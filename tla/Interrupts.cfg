SPECIFICATION Spec
CONSTANTS
  Faults <- MCFaults
  Software <- MCSoftware
  Lines <- MCLines
  MaxEvents = 3
INVARIANTS TypeOK FrameUniform EoiDiscipline OnlyFaultsPanic
PROPERTY Transparent
\* A panic halts the processor.
CHECK_DEADLOCK FALSE
