SPECIFICATION Spec
CONSTANTS
  c1 = c1
  c2 = c2
  NPROC = 3
  CPUs = {c1, c2}
  CPU0 = c1
  RAND = 8
  UintBits = 8
  LAST = 2
  RunLimit <- RunLimits
  AgeLimit <- AgeLimits
  Mixes <- MCMixes
INVARIANTS LotteryFair BoundedBypass 
PROPERTIES BestChosen 
VIEW View
CHECK_DEADLOCK FALSE
