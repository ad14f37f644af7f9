SPECIFICATION Spec
CONSTANTS
  Archives <- MCLost
  HdrLen <- MCHdrLen
  Window <- MCWindow
  Reliable = {FALSE}
INVARIANTS
  FillingKeepsOffsets
