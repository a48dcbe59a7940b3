SPECIFICATION Spec
CONSTANTS
  Procs = {p1, p2, p3}
  Bufs = {b1, b2}
  Blocks = {k1, k2, k3}
  Vals = {v, w}
  NULL = NULL
  MaxPins = 2
INVARIANTS OneBufferOneUser NoBuffersPanic BufferWaiterWakes
PROPERTY CacheIsTransparent
SYMMETRY Symmetric
