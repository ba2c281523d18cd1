\* An upload interrupted between the file and the row.
CONSTANTS
  d1 = d1
  j1 = j1
  w1 = w1
  w2 = w2
  Docs = {d1}
  Jobs = {j1}
  Workers = {w1, w2}
  NoWorker = NoWorker
  NoJob = NoJob
  LeaseTicks = 1
  JobTicks = 2
  InputTicks = 3
  ReportTicks = 3
  DocOf <- OneDocument
SPECIFICATION LifecycleSpec
INVARIANTS
  FilesHaveARow
