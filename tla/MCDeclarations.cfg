CONSTANTS
  Id = {print, arg, a}
  PrintId = print
  Arg = arg
  NULL = NULL
  VariableStackCells = 3
  MaxSymrecs = 7
  MaxConstants = 2
  MaxGroup = 2
SPECIFICATION Spec
INVARIANTS
  TypeOK
  MemorySafe
  OpenProceduresDeclared
  FrameSlots
  ParametersAtTheirSlots
  ConstantsNumberedOnce
  FunctionsNumberedInOrder
  LeafFunctionsExact
  OperandsInitialised
PROPERTIES
  OuterScopesFrozen
  ImplementsEnvironment
