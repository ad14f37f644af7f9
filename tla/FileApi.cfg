SPECIFICATION FairSpec
CONSTANTS
  IoChunk = 2
  PreadMoves = FALSE
  MaxGrow = 2
  Calls <- MCCalls
  BlockSize = 3
  IoBuf = 4
  Window = 1
  BlockCk = 4
INVARIANTS CompressExact DecompressExact BoundSuffices HandlesClosed
PROPERTIES ApiReturns
