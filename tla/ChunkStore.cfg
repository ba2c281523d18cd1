\* Two workers, two chunks, three versions of the program.
CONSTANTS
  w1 = w1
  w2 = w2
  Workers = {w1, w2}
  NoWorker = NoWorker
  Releases = {1, 2, 3}
  Plan <- TextPlan
  PerJob = 2
  MaxClaims = 3
SPECIFICATION Spec
SYMMETRY Interchangeable
INVARIANTS
  ChunkTypeOK
  OutputsMatchText
  ReportFromWholeText
PROPERTIES
  PaidOnlyWhenNeeded
  StoredWorkIsKept
CHECK_DEADLOCK FALSE
