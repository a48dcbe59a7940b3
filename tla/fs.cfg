SPECIFICATION Spec
CONSTANTS
  p1 = p1
  p2 = p2
  p3 = p3
  Procs = {p1, p2, p3}
  NULL = NULL
  nmeta = 2
  FSSIZE = 9
  NINODES = 5
  NINODE = 6
  NDIRECT = 1
  NINDIRECT = 2
  BSIZE = 2
  NFILE = 2
  NOFILE = 2
  MAXWRITE = 2
  Mixes <- MCMixes
INVARIANTS RefsExact NoLockCycle  CacheWritten LinksExact 
