CONSTANTS
  Operand <- MCOperand
  TypeOf <- MCTypeOf
  AddingOperators = {"T_MINUS"}
  MultiplyingOperators = {}
  RelationalOperators = {}
  MaxOperands = 3
  MaxMarks = 2
SPECIFICATION Spec
INVARIANTS
  GroupsAsPascal
CHECK_DEADLOCK FALSE
