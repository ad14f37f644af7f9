CONSTANTS
  t1 = t1
  t2 = t2
  Threads = {t1, t2}
  NCache = 1
  NSlots = 1
  NBlocks = 4
  RawOff <- MCRawOff
  BlockLen <- MCBlockLen
  Bad = {3}
  Requests <- MCRequests
  MaxCalls = 1
  FooterCk = "right"
  MaxVerifies = 1
SPECIFICATION VerifyFairSpec
INVARIANTS VerifyExact ReportTrusted
PROPERTIES ReaderCallsReturn
