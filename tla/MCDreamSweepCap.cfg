\* One sweep after the other, over a pool of two memories of which a batch takes one
SPECIFICATION Spec
CONSTANTS
  w1 = w1
  Sweeps = {w1}
  MinNew = 1
  Cap = 1
  AtStart = 2
  MaxEvents = 0
INVARIANTS
  NewAreExamined
CHECK_DEADLOCK FALSE
