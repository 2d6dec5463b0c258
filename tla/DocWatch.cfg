CONSTANTS
  Jobs = {j1}
  MaxConcurrentJobs = 1
  MaxInFlight = 2
  DevMode = FALSE
  Retention = TRUE
  Faults = {"watch"}
  MaxStops = 0
  j1 = j1
SPECIFICATION Spec
INVARIANTS
  CallbackMeansComplete
\* The jobs of an instance are finitely many: the system rests when they are over.
CHECK_DEADLOCK FALSE
