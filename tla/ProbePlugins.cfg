SPECIFICATION Spec
CONSTANTS
  N = 3
  Workers = {w1, w2}
  None = None
  Interrupts = FALSE
INVARIANT Outcome
PROPERTY PromiseKept
CHECK_DEADLOCK FALSE
