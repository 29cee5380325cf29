SPECIFICATION FairSpec
CONSTANTS
  Plugins = {p1, p2}
  NoPlugin = NoPlugin
  Slots = {s1, s2}
  AllocMayFail = FALSE
PROPERTIES LifecycleSpec MadeAndClosedOnNrt OpenAnswered SuspensionEnds FreedUnitReleasesAll
CHECK_DEADLOCK FALSE
