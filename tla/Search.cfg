SPECIFICATION Spec
CONSTANTS
  Hosts = {"sc", "pd"}
  Contents <- MCContents
  Directories <- MCDirectories
  Batch = 2
  Tears <- MCTears
  Requests = {"clear", "probe"}
  Beside = FALSE
  MaxRequests = 2
  MaxSessions = 2
  MaxChanges = 1
INVARIANTS KnownOrIgnored SearchComplete
PROPERTIES CacheRestores SearchEnds
CHECK_DEADLOCK FALSE
