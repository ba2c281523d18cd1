\* One upload, one job, a slot that may stall or die anywhere, fair recovery
\* and cleanup loops.
CONSTANTS
  d1 = d1
  j1 = j1
  w1 = w1
  w2 = w2
  Docs = {d1}
  Jobs = {j1}
  Workers = {w1}
  NoWorker = NoWorker
  NoJob = NoJob
  LeaseTicks = 2
  JobTicks = 3
  InputTicks = 4
  ReportTicks = 4
  DocOf <- OneDocument
SPECIFICATION FairLifecycle
PROPERTIES
  CancelledBodyErased
  InputsGo
  EveryJobEnds
  CancellationEnds
