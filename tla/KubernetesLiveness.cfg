CONSTANTS
  Jobs = {j1, j2}
  MaxConcurrentJobs = 1
  MaxInFlight = 2
  DevMode = FALSE
  Retention = FALSE
  Faults = {"watch"}
  MaxStops = 1
  j1 = j1
  j2 = j2
SPECIFICATION FairSpec
PROPERTIES
  StopIsRecorded
  SucceededJobsGo
\* The jobs of an instance are finitely many: the system rests when they are over.
CHECK_DEADLOCK FALSE
