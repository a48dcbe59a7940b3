SPECIFICATION BlankSpec
CONSTANTS
  p1 = p1
  p2 = p2
  p3 = p3
  b1 = b1
  b2 = b2
  v0 = v0
  Procs = {p1, p2, p3}
  Blocks = {b1, b2, b3, b4, b5}
  Vals = {v0, v1}
  MAXOPBLOCKS = 3
  LOGSIZE = 6
  NLOG = 6
  Loads <- CrashingOrCrowded
INVARIANTS  QuietIsDurable
PROPERTIES LogIsAtomic SleeperEnters
