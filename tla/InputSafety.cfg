\* One upload, one job, two slots; the input's retention ends before the
\* job's time, as the configuration allows, and a new one begins with the text.
CONSTANTS
  d1 = d1
  j1 = j1
  w1 = w1
  w2 = w2
  Docs = {d1}
  Jobs = {j1}
  Workers = {w1, w2}
  NoWorker = NoWorker
  NoJob = NoJob
  LeaseTicks = 1
  JobTicks = 3
  InputTicks = 2
  ReportTicks = 3
  DocOf <- OneDocument
SPECIFICATION LifecycleSpec
SYMMETRY Slots
INVARIANTS
  PendingInputStays
  ReportKeepsItsSource
  NothingForgotten
PROPERTIES
  PendingBodyUntouched
