CONSTANTS
  Ids = {m1, m2}
  Contents = {c1, c2}
  Reqs = {r1, r2}
  Workers = {w1}
  Sensitive = {c1}
  GraphMayFail = TRUE
  MaxRequests = 3
  MaxMishaps = 1
SPECIFICATION Spec
SYMMETRY Symmetry
INVARIANTS TypeOK EpisodeProvenance EnrichmentAccountedFor DebtsCarried
PROPERTIES CascadeStaysWithin
CHECK_DEADLOCK FALSE
