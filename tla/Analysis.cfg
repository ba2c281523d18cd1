\* Scaled sizes; the thresholds are the defaults of a model profile.
CONSTANTS
  MaxText = 60
  SparsePage = 3
  TargetChunk = 6
  HardChunk = 8
  MaxOverlap = 4
  MinShared = 2
  MaxEdit = 2
  Confirm = 80
  Suspect = 50
  PerJob = 2
  Scenarios <- AllScenarios
SPECIFICATION Spec
INVARIANTS
  ChunksCoverText
  NothingLeftUnread
  ReportOfTheText
  LocatedWhereQuoted
  ConfirmedOutsideProtected
  MergeKeepsTheBest
CHECK_DEADLOCK FALSE
