SPECIFICATION Spec
CONSTANTS
  MinMatch = 2
  MaxMatch = 13
  Buckets = 2
  NSymbols = 16
  MaxBits = 3
  Attempts = 12
  Jobs <- MCJobs
  HuffMin = 5
  TableBytes = 1
  MidMax = 40
INVARIANTS RoundTrip DecoderInBounds CodesSound
