\* The verdict on the pod that the fix is about to replace.
SPECIFICATION Spec
CONSTANTS
  None = None
  Configs = {crashing, working}
  Healthy = {working}
  InitialConfig = crashing
  Requests <- RequestsChecked
  Offered <- OfferedActions
  MaxAttempts = 2
  MaxRestarts = 1
CHECK_DEADLOCK FALSE
INVARIANT
  KubernetesRecoverySeesTheFix
