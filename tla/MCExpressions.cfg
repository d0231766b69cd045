CONSTANTS
  Operand <- MCOperand
  TypeOf <- MCTypeOf
  AddingOperators = {"T_MINUS", "T_OR"}
  MultiplyingOperators = {"T_TIMES", "T_DIVIDE", "T_DIV", "T_AND"}
  RelationalOperators = {"T_LT"}
  MaxOperands = 3
  MaxMarks = 2
SPECIFICATION Spec
INVARIANTS
  TypeOK
  CodeComputesRightGrouping
  OnlyNotLeavesTheTypes
  OperandsHaveTheirKind
CHECK_DEADLOCK FALSE
