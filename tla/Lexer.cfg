CONSTANTS
  MaxLength = 6
SPECIFICATION Spec
INVARIANTS
  TypeOK
  LexemeFits
  NamesNumbered
  LinesCounted
  OnlyNontokensSkipped
PROPERTIES
  ScanningEnds
CHECK_DEADLOCK FALSE
