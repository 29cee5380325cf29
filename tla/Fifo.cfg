SPECIFICATION FairSpec
CONSTANTS
  N = 4
  Values = {a, b}
  NoValue = NoValue
INVARIANTS TypeOK NoRace
PROPERTIES FifoSpec Delivered
