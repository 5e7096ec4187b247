SPECIFICATION Spec
CONSTANTS
  Copies = {c1}
  Folders = {c1}
  Cut = {c1}
  MaxParts = 2
  MaxSize = 2
  MaxNames = 1
  MaxConns = 2
  MaxCrashes = 1
  MaxChanges = 0
  MaxIntrusions = 0
INVARIANTS
  NoHalfFile
  RowIsAnswer
PROPERTIES
  MoveKeepsListed
  PendingEnds
  CancelEnds
CHECK_DEADLOCK FALSE
