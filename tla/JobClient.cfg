CONSTANTS
  Jobs = {j1, j2, j3}
  Called = {j1}
  Handlers = {}
  MaxConcurrentJobs = 1
  MaxInFlight = 2
  DevMode = FALSE
  Retention = FALSE
  Faults = {"docker"}
  MaxStops = 1
  Ret = ret
  NoJob = nojob
  j1 = j1
  j2 = j2
  j3 = j3
SPECIFICATION CSpec
INVARIANTS
  OvershootBounded
  AnsweredIsRecorded
  SeenStopIsTrue
  NothingLeftToAskFor
PROPERTIES
  AnswersNeverGoBack
SYMMETRY OtherJobs
\* The jobs of an instance are finitely many: the system rests when they are over.
CHECK_DEADLOCK FALSE
