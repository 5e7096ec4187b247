CONSTANTS
  Parts = {"pane", "panes", "remote", "screen", "clipboard", "tree", "lists", "rooms", "chat", "hub", "login", "notes", "board", "events", "settings"}
  NoteVersions = 3
SPECIFICATION Spec
INVARIANTS ShownIsSo ReachesItsPlace
PROPERTY OthersAreLeft
CONSTRAINT Bounds
CHECK_DEADLOCK FALSE
