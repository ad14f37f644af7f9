SPECIFICATION Spec
CONSTANTS
  Files <- MCTruncatedFiles
  HeadLen <- MCHeadLen
  MagicLen <- MCMagicLen
  RecLen <- MCRecLen
  BlkLen <- MCBlkLen
  RBufSize <- MCRBufSize
  RawCap <- MCRawCap
  Lens = {0, 1, 4}
  MaxCalls = 3
INVARIANTS
  CompleteBlocksStreamed
