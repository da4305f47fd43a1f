SPECIFICATION Spec
CONSTANTS
  MaxBlock = 3
  MulHazard = FALSE
  TrapHazard = TRUE
INVARIANT FlagsReturned
