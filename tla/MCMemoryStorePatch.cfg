CONSTANTS
  Ids = {1}
  Texts = {k1}
  Writers = {w1, w2}
  Dedups = {}
  Editors = {e1}
  StoreMayFail = FALSE
  MaxStores = 2
  MaxEdits = 1
  MaxTombstones = 1
  MaxDeletes = 0
  MaxClock = 0
SPECIFICATION Spec
PROPERTIES PatchLeavesAbsentKeys
CHECK_DEADLOCK FALSE
