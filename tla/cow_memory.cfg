SPECIFICATION Spec
CONSTANTS
  Procs = {1, 2}
  InitProc = 1
  Pages = {11, 12, 13, 14, 15, 16, 17, 18, 19}
  NULL = NULL
  NPg = 3
  LeafSpan = 3
  Vals = {zero, a}
  Zero = zero
  Junk = junk
  MaxCopy = 2
  SpansCow = FALSE
  MaxKernel = 2
  TextPages = 1
  
PROPERTY MemoryIsPrivate
VIEW UpToRenaming
