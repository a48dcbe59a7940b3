SPECIFICATION Spec
CONSTANTS
  ForkInHandler = FALSE
  MaxFreq = 2
  MaxWait = 1
  MaxTicks = 8
  Regs = 2
PROPERTIES ResumesWhereItLeft 
