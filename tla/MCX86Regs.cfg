SPECIFICATION Spec
CONSTANTS
  Regs = {"eax", "ecx", "edx", "ebx"}
  MaxHost = 3
  RawHazard = FALSE
INVARIANTS
  TypeOK
  OperandsCurrent
  CanonicalCurrent
  CleanIsCanonical
