CONSTANTS
  Jobs = {j1, j2}
  MaxConcurrentJobs = 1
  MaxInFlight = 2
  DevMode = FALSE
  Retention = TRUE
  Faults = {"cluster", "store", "watch"}
  MaxStops = 1
  j1 = j1
  j2 = j2
SPECIFICATION Spec
INVARIANTS
  TypeOK
PROPERTIES
  OnlySucceededDeleted
  ImplementsRecords
SYMMETRY JobSymmetry
\* The jobs of an instance are finitely many: the system rests when they are over.
CHECK_DEADLOCK FALSE
