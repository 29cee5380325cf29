SPECIFICATION Spec
CONSTANTS
  Platforms = {"win32"}
  Threads = {"pd", "worker"}
  Infos = {o1, o2}
  None = None
  Overlaps = TRUE
  Deadlocks = FALSE
  Reopens = FALSE
  MaxPlugins = 2
  MaxMessages = 2
  MaxEvents = 0
INVARIANT OwnAnswer
CHECK_DEADLOCK FALSE
