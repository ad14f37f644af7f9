CONSTANTS
  t1 = t1
  t2 = t2
  t3 = t3
  Threads = {t1, t2, t3}
  NCache = 2
  NSlots = 2
  NBlocks = 4
  RawOff <- MCRawOff
  BlockLen <- MCBlockLen
  Bad = {2}
  Requests <- MCRequests
  MaxCalls = 1
SPECIFICATION Spec
SYMMETRY ThreadSymmetry
INVARIANTS BytesRight NoSpuriousCorruption SlotSignalled
PROPERTIES RetentionDepth
