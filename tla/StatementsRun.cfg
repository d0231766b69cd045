SPECIFICATION Spec
CONSTANTS
  MaxSources = 5
  MaxPending = 3
  MaxFunctions = 2
INVARIANTS
  TypeOK
  LabelsUnique
  JumpsResolve
  FollowsProgram
PROPERTY
  KeepsDeciding
CHECK_DEADLOCK FALSE
