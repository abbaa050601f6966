\* Two sweeps, a pool of one memory, and any two things from outside
SPECIFICATION FairSpec
CONSTANTS
  w1 = w1
  w2 = w2
  Sweeps = {w1, w2}
  MinNew = 1
  Cap = 2
  AtStart = 1
  MaxEvents = 2
INVARIANTS
  TypeOK
  OneSweep
  NothingForgotten
  NoneStampedUnseen
  MarkerWasExamined
PROPERTIES
  EventuallyConsidered
CHECK_DEADLOCK FALSE
