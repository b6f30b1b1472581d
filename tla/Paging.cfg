SPECIFICATION Spec
CONSTANTS
  N = 12
  First = 1
  Shared = 36
INVARIANTS
  TypeOK
  Isolated
  KernelProtected
  KernelMapped
  Programs
  Reached
