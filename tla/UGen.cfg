SPECIFICATION Spec
CONSTANTS
  Plugins <- MCPlugins
  NoPlugin = NoPlugin
  Cells = {c1, c2}
  Nil = Nil
  Ins <- MCIns
  Outs <- MCOuts
  Nums <- MCNums
  Requests <- MCRequests
  ParamInputs = {1}
  MaxQueue = 2
  FreeUnbuilt = FALSE
INVARIANTS TypeOK MappingList AutomationFollows CommandsReachTheirUnit
PROPERTIES NoClick
CHECK_DEADLOCK FALSE
