SPECIFICATION Spec
CONSTANTS
  Procs = {p1, p2, p3}
  NULL = NULL
  NUM = 7
  UINT16 = 7
  Vals = {a, b}
INVARIANTS DescriptorsOwned NoRequestLost
PROPERTY DiskIsSynchronous
VIEW WithoutStale
SYMMETRY Symmetric
