\* Two slots compete for two jobs; leases of two ticks, deadlines of three.
CONSTANTS
  j1 = j1
  j2 = j2
  w1 = w1
  w2 = w2
  Jobs = {j1, j2}
  Workers = {w1, w2}
  NoWorker = NoWorker
  NoJob = NoJob
  LeaseTicks = 2
  JobTicks = 3
SPECIFICATION Spec
SYMMETRY Interchangeable
INVARIANTS
  LeaseExclusion
  RunningJobsAreLeased
PROPERTIES
  OnlyOwnerEndsLeasedJob
  DeadlineFixed
  ImplementsPromise
