CONSTANTS
  Jobs = {j1, j2}
  Handlers = {}
  MaxConcurrentJobs = 1
  MaxInFlight = 2
  DevMode = FALSE
  Retention = TRUE
  Faults = {}
  MaxStops = 1
  Ret = ret
  NoJob = nojob
  j1 = j1
  j2 = j2
SPECIFICATION FairSpec
INVARIANTS
  NothingLeaks
  RunningIsWatched
PROPERTIES
  StopIsRecorded
  RunnersEnd
  RetentionCollects
  ShutdownCompletes
\* The jobs of an instance are finitely many: the system rests when they are over.
CHECK_DEADLOCK FALSE
