CONSTANTS
  Ids = {1, 2}
  Texts = {k1, k2}
  Writers = {w1, w2}
  Dedups = {d1, d2}
  Editors = {e1}
  StoreMayFail = TRUE
  MaxStores = 2
  MaxEdits = 1
  MaxTombstones = 1
  MaxDeletes = 1
  MaxClock = 1
SPECIFICATION Spec
SYMMETRY Symmetry
INVARIANTS TypeOK NoFactLost
PROPERTIES RecallLostOnlyToTombstone
CHECK_DEADLOCK FALSE
