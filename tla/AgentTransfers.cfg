SPECIFICATION FairSpec
CONSTANTS
  t1 = t1
  Transfers = {t1}
  MaxFiles = 2
  MaxConns = 2
  MaxCrashes = 1
INVARIANTS
  SucceededIsReal
  ContentIsThere
  WaitersAreTold
PROPERTIES
  CancelEnds
CHECK_DEADLOCK FALSE
