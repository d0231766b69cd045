CONSTANTS
  MaxLength = 6
SPECIFICATION Spec
INVARIANTS
  OnlyUnterminatedRefused
CHECK_DEADLOCK FALSE
