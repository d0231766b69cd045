CONSTANTS
  Record <- MCRecord
  None = None
SPECIFICATION Spec
INVARIANTS
  TypeOK
  EachKeyOnce
  RoomForProbing
PROPERTIES
  ImplementsMap
