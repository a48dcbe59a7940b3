SPECIFICATION Spec
CONSTANTS
  ForkInHandler = TRUE
  MaxFreq = 2
  MaxWait = 1
  MaxTicks = 8
  Regs = 2
PROPERTY ResumesWhereItLeft
