SPECIFICATION FairSpec
CONSTANTS
  NTargets = 3
  NSteps = 2
  ContinueOnError = {1}
  MaxParallel = 2
  MaxFaults = 2
  MaxCrashes = 1
INVARIANTS
  RunningWithinLimit
  NoLooseEnds
  StepsInOrder
PROPERTIES
  CancelEnds
CHECK_DEADLOCK FALSE
