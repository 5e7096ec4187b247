CONSTANTS
  Parts = {"jobs", "panel", "search", "windows", "segments", "player", "chart", "values", "trim"}
  Sessions = {}
SPECIFICATION Spec
INVARIANTS MarkedIsInPlace JobsAreFollowed
PROPERTY OnlyWhatWasAsked
CONSTRAINT Bounds
CHECK_DEADLOCK FALSE
