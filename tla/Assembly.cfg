CONSTANTS
  MaxFunctions = 3
  MaxConstants = 4
  MaxStatements = 3
  Length = 2
SPECIFICATION Spec
INVARIANTS
  FunctionsApart
  ConstantsInOrder
  LinesApart
CHECK_DEADLOCK FALSE
