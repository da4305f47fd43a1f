SPECIFICATION Spec
CONSTANTS
  Regs = {"eax", "ecx", "edx", "ebx"}
  MaxHost = 3
  RawHazard = TRUE
INVARIANT OperandsCurrent
