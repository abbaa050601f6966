CONSTANTS
  Ids = {1, 2}
  Texts = {k1}
  Writers = {w1, w2}
  Dedups = {d1}
  Editors = {}
  StoreMayFail = FALSE
  MaxStores = 2
  MaxEdits = 0
  MaxTombstones = 1
  MaxDeletes = 0
  MaxClock = 0
SPECIFICATION Spec
PROPERTIES DedupIsLossless
CHECK_DEADLOCK FALSE
