SPECIFICATION Spec
CONSTANTS
  MaxBlock = 3
  MulHazard = TRUE
  TrapHazard = FALSE
INVARIANT NoStaleRead
