SPECIFICATION Spec
CONSTANTS
  Copies = {c1, c2}
  Folders = {}
  Cut = {c1, c2}
  MaxParts = 1
  MaxSize = 1
  MaxNames = 3
  MaxConns = 1
  MaxCrashes = 0
  MaxChanges = 1
  MaxIntrusions = 1
INVARIANTS
  WholeOrNothing
  NoSessionLeft
PROPERTIES
  NeverOverwritten
CHECK_DEADLOCK FALSE
