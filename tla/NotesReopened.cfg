CONSTANTS
  Parts = {"notes"}
  NoteVersions = 4
SPECIFICATION Spec
PROPERTY LastSaveDoesNotWin
CONSTRAINT Bounds
CHECK_DEADLOCK FALSE
