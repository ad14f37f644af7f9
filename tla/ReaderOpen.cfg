SPECIFICATION Spec
CONSTANTS
  Cases <- MCCases
  CbufCap <- MCCbufCap
  Word = 32
  HdrSize = 2
  FtrSize = 1
  RecHdr = 1
  BlkHdr = 1
  Preamble = 1
  EntrySize = 1
  BlockMax = 3
  RegionMax = 8
  CacheDefault = 2
  MaxFinds = 1
INVARIANTS
  MapsInFile
  OpenedSound
  ClosesClean
  BuffersBounded
  FindRight
