CONSTANTS
  Parts = {"viewer", "table", "cells", "tabs", "dialogs", "finder", "page", "profile"}
  r1 = r1
  r2 = r2
  Sessions = {r1, r2}
SPECIFICATION Spec
INVARIANTS ShownIsOfTheRun TableIsAsSeen
PROPERTY TableObeys
CONSTRAINT Bounds
SYMMETRY SameSessions
CHECK_DEADLOCK FALSE
