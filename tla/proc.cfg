SPECIFICATION FairSpec
CONSTANTS
  NPROC = 3
  CPUs = {c1, c2}
  CPU0 = c1
  NULL = NULL
  Sleepers = {2}
  MaxSleep = 1
INVARIANTS OneCPU FreedOffStack ParentAlive NoSleeperMissed
PROPERTY KilledExits
