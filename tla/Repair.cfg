SPECIFICATION FairSpec
CONSTANTS
  Archives <- MCArchives
  HdrLen <- MCHdrLen
  Window <- MCWindow
  Reliable = {TRUE, FALSE}
INVARIANTS
  SurvivorsInPlace
  ReportExact
  NothingMissed
  HealthyRecovered
PROPERTIES
  RepairEnds
