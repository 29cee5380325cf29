SPECIFICATION Spec
CONSTANTS
  Names <- MCNames
  Stem <- MCStem
  Rank <- MCRank
  Objects = {o1, o2}
  Values = {v1, v2}
  Given <- MCGiven
  None = None
  Files <- MCFiles
  Overlap = FALSE
  Onto = FALSE
  MaxCommands = 5
INVARIANTS ListMatchesFiles EditorInSync
SYMMETRY Symmetry
CHECK_DEADLOCK FALSE
