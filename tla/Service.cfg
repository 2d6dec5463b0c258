CONSTANTS
  Limit = 1048576
  Limit32 = 131072
  Second = 4
  StopTimeout = 300
  NoFile = nofile
  Unset = unset
  None = none
  Procs = {p1, p2}
  Requests = {r1}
  Writings <- WritingChoices
  Asks <- AskChoices
  MaxRunners = 2
  MaxLaunches = 2
  Faults = {"docker"}
  p1 = p1
  p2 = p2
  r1 = r1
SPECIFICATION IFairSpec
INVARIANTS
  UpdatesTypeOK
  OneProcessInCharge
  SettingsInForce
  SuccessMeansPresent
  
  JobsGetTheirTime
PROPERTIES
  SignalsAreHeeded
  GoroutinesEnd
\* Launches and requests of an instance are finitely many.
CHECK_DEADLOCK FALSE
