SPECIFICATION Spec
CONSTANTS
  N = 6
  Programs <- MCPrograms
INVARIANTS TypeOK OnlyFaultsIntended ResultsAreTrue
PROPERTIES Undisturbed Completes
\* A panic, a reset and the end of a program stop the model.
CHECK_DEADLOCK FALSE
