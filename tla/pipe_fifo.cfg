SPECIFICATION Spec
CONSTANTS
  Readers = {r1}
  Writers = {w1, w2}
  Bytes = {a, b}
  NULL = NULL
  PIPESIZE = 2
  UINT = 4
  MaxCount = 2
INVARIANTS NoUseAfterFree NoSleeperForgotten
PROPERTY PipeIsFifo
