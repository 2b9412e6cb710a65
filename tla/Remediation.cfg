\* Every request, two attempts, a workload that crashes under one of two
\* configurations.
SPECIFICATION Spec
CONSTANTS
  None = None
  Configs = {crashing, working}
  Healthy = {working}
  InitialConfig = crashing
  Requests <- RequestsChecked
  Offered <- OfferedActions
  MaxAttempts = 2
  MaxRestarts = 1
CHECK_DEADLOCK FALSE
INVARIANTS
  TypeOK
  StopsAtOnce
  OutcomeMatchesTrail
  PodmanRecoverySeesTheFix
  InPlaceRecoveryIsStable
  UndoRestoresLastFix
PROPERTY
  Termination
