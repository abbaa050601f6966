CONSTANTS
  Ids = {1, 2, 3}
  Texts = {k1}
  Writers = {w1, w2}
  Dedups = {d1}
  Editors = {e1}
  StoreMayFail = FALSE
  MaxStores = 3
  MaxEdits = 1
  MaxTombstones = 1
  MaxDeletes = 1
  MaxClock = 0
SPECIFICATION FairSpec
INVARIANTS NeverOverCounted
PROPERTIES DuplicatesCollapse
CHECK_DEADLOCK FALSE
