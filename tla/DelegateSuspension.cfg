SPECIFICATION Spec
CONSTANTS
  Plugins = {p1, p2}
  NoPlugin = NoPlugin
  Slots = {s1, s2}
  AllocMayFail = FALSE
INVARIANT NrtCallIsAlone
CHECK_DEADLOCK FALSE
