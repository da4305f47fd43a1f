SPECIFICATION Spec
CONSTANTS
  MaxBlock = 4
  MulHazard = FALSE
  TrapHazard = FALSE
INVARIANTS
  TypeOK
  NoStaleRead
  FlagsReturned
  DeadIsOverwritten
