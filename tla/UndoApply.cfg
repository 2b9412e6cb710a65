\* One fix that the engine applies.
SPECIFICATION Spec
CONSTANTS
  None = None
  Torn = Torn
  Invalid = Invalid
  Fixers = {p1}
  Undoers = {}
  Routes = {"engine"}
  Offered = {"set-resources"}
  Initial <- InitialChecked
  Choices <- ChoicesChecked
  ImageEnv <- ImageEnvChecked
  Units = {1, 2}
  MaxMemory = 4
  Core = 2
  MaxCpu = 4
  MaxReplicas = 2
  MaxProbe = 2
  MaxPods = 1
CHECK_DEADLOCK FALSE
PROPERTY
  AppliesTheProposal
