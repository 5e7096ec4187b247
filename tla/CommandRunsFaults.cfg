SPECIFICATION FairSpec
CONSTANTS
  r1 = r1
  r2 = r2
  Runs = {r2}
  JobSteps = {r2}
  Cancellable = {r2}
  ExitStates = {"Succeeded"}
  QueueCap = 8
  MaxConns = 3
  MaxCrashes = 1
  Overlap = TRUE
INVARIANTS
  RunsAreAccountedFor
PROPERTIES
  CancelEnds
CHECK_DEADLOCK FALSE
