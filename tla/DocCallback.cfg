CONSTANTS
  Jobs = {j1}
  Handlers = {h1}
  MaxConcurrentJobs = 1
  MaxInFlight = 2
  DevMode = FALSE
  Retention = FALSE
  Faults = {"slowstop"}
  MaxStops = 0
  Ret = ret
  NoJob = nojob
  j1 = j1
  h1 = h1
SPECIFICATION FairSpec
PROPERTIES
  CallerIsUpdated
\* The jobs of an instance are finitely many: the system rests when they are over.
CHECK_DEADLOCK FALSE
