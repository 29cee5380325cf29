SPECIFICATION FairSpec
CONSTANTS
  N = 2
  MaxId = 3
  Plugins = {p1, p2}
  NoPlugin = NoPlugin
INVARIANTS TypeOK OneCommand ProcessExclusion CommandFindsPlugin OneOwner
PROPERTIES ItemsKept OvertakenAcross WorkerGetsDone
CHECK_DEADLOCK FALSE
