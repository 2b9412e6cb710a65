\* One fix on Kubernetes, and the rollout it causes.
SPECIFICATION Spec
CONSTANTS
  None = None
  Torn = Torn
  Invalid = Invalid
  Fixers = {p1}
  Undoers = {}
  Routes = {"remediate"}
  Offered = {"set-env"}
  Initial <- InitialChecked
  Choices <- ChoicesChecked
  ImageEnv <- ImageEnvChecked
  Units = {1, 2}
  MaxMemory = 4
  Core = 2
  MaxCpu = 4
  MaxReplicas = 2
  MaxProbe = 2
  MaxPods = 1
CHECK_DEADLOCK FALSE
INVARIANT
  FoundByTarget
