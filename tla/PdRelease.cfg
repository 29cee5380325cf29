SPECIFICATION Spec
CONSTANTS
  N = 2
  MaxId = 2
  Plugins = {p1, p2}
  NoPlugin = NoPlugin
INVARIANT ReleasedWhereOpened
CHECK_DEADLOCK FALSE
