CONSTANTS
  Jobs = {j1, j2, j3}
  MaxConcurrentJobs = 1
  MaxInFlight = 2
  DevMode = FALSE
  Retention = TRUE
  Faults = {"cluster", "operator"}
  MaxStops = 1
  j1 = j1
  j2 = j2
  j3 = j3
SPECIFICATION Spec
INVARIANTS
  OvershootBounded
  StoppedRecordMeansOver
SYMMETRY JobSymmetry
\* The jobs of an instance are finitely many: the system rests when they are over.
CHECK_DEADLOCK FALSE
