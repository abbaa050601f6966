CONSTANTS
  Ids = {m1}
  Contents = {c1}
  Reqs = {r1}
  Workers = {w1}
  Sensitive = {}
  GraphMayFail = FALSE
  MaxRequests = 4
  MaxMishaps = 0
SPECIFICATION Spec
INVARIANTS FlipLeavesNothingShared
CHECK_DEADLOCK FALSE
