SPECIFICATION Spec
CONSTANTS
  Platforms = {"x11", "win32"}
  Threads = {"pd", "worker"}
  Infos = {o1, o2}
  None = None
  Overlaps = FALSE
  Deadlocks = FALSE
  Reopens = FALSE
  MaxPlugins = 2
  MaxMessages = 3
  MaxEvents = 1
INVARIANTS OwnAnswer WindowsFound
PROPERTIES EventsDelivered RequestsEnd
CHECK_DEADLOCK FALSE
