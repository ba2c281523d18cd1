\* One version of the program; a worker resumes a transaction after a takeover.
CONSTANTS
  w1 = w1
  w2 = w2
  Workers = {w1, w2}
  NoWorker = NoWorker
  Releases = {1}
  Plan <- TextPlan
  PerJob = 2
  MaxClaims = 2
SPECIFICATION Spec
INVARIANTS
  OwnersResultsStay
CHECK_DEADLOCK FALSE
