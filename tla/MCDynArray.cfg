CONSTANTS
  Elem = {x, y}
  Junk = Junk
  MaxLength = 8
SPECIFICATION Spec
INVARIANTS
  TypeOK
  SpareSlot
  HalfUsed
PROPERTIES
  ImplementsList
CHECK_DEADLOCK FALSE
