SPECIFICATION Spec
CONSTANTS
  r1 = r1
  r2 = r2
  Runs = {r1, r2}
  JobSteps = {r2}
  Cancellable = {r1}
  ExitStates = {"Succeeded"}
  QueueCap = 8
  MaxConns = 3
  MaxCrashes = 0
  Overlap = FALSE
INVARIANTS
  TypeOK
  OnlineIsLatest
  ExecutingTracked
  UnreportedHasResult
  WokenAfterEnd
PROPERTIES
  KeepsContract
CHECK_DEADLOCK FALSE
