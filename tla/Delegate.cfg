SPECIFICATION Spec
CONSTANTS
  Plugins = {p1, p2}
  NoPlugin = NoPlugin
  Slots = {s1, s2, s3}
  AllocMayFail = TRUE
SYMMETRY Symmetry
INVARIANTS TypeOK CommandsHavePlugin OneSuspender ProcessExclusion DestroyedWhereMade OneOwner
CHECK_DEADLOCK FALSE
