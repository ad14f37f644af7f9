SPECIFICATION Spec
CONSTANTS
  IoChunk = 2
  PreadMoves = TRUE
  MaxGrow = 0
  Calls <- MCWithDict
  BlockSize = 3
  IoBuf = 4
  Window = 1
  BlockCk = 4
INVARIANTS WholeFileCompressed
