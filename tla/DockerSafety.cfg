CONSTANTS
  Jobs = {j1, j2}
  Handlers = {h1}
  MaxConcurrentJobs = 1
  MaxInFlight = 2
  DevMode = FALSE
  Retention = TRUE
  Faults = {"docker", "store", "slowstop"}
  MaxStops = 1
  Ret = ret
  NoJob = nojob
  j1 = j1
  j2 = j2
  h1 = h1
SPECIFICATION Spec
INVARIANTS
  TypeOK
  VolumeFreedOnce
  DeletedMeansGone
  OnlyMonitorsOutliveTheStore
PROPERTIES
  FailedJobsKept
  ImplementsLifecycle
SYMMETRY JobSymmetry
\* The jobs of an instance are finitely many: the system rests when they are over.
CHECK_DEADLOCK FALSE
