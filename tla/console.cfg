SPECIFICATION Spec
CONSTANTS
  r1 = r1
  r2 = r2
  w1 = w1
  w2 = w2
  k1 = k1
  Readers = {r1, r2}
  Writers = {w1, w2}
  Printers = {k1}
  Intr = Intr
  NULL = NULL
  Letter = Letter
  Newline = Newline
  EndOfFile = EndOfFile
  KillLine = KillLine
  Backspace = Backspace
  Dump = Dump
  INPUT_BUF_SIZE = 3
  UART_TX_BUF_SIZE = 2
  UINT = 6
  Mixes <- MCMixes
  RXFIFO = 1
INVARIANTS InputNotStuck NoSleeperForgotten TransmitGoesOn
PROPERTIES LinesKept TransmitIsFifo
VIEW MCView
