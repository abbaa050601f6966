\* One request at a time and two workers, two owners, and any two things from outside
SPECIFICATION FairSpec
CONSTANTS
  r1 = r1
  w1 = w1
  w2 = w2
  u1 = u1
  u2 = u2
  on = on
  off = off
  Routes = {r1}
  Workers = {w1, w2}
  Callers <- Slots
  Owners = {u1, u2}
  Configs = {on, off}
  Paused = {off}
  Legacy <- LegacyRecord
  Pages = 2
  Resources <- OnePerPage
  Attempts = 2
  MaxEvents = 2
INVARIANTS
  TypeOK
  SavedIsIngested
PROPERTIES
  ProgressForward
  RegisterSpec
  FirstPassCompletes
CHECK_DEADLOCK FALSE
