\* Two fixes and an undo, or a fix, its undo and the undo of that.
SPECIFICATION Spec
CONSTANTS
  None = None
  Torn = Torn
  Invalid = Invalid
  Fixers = {p1, p2}
  Undoers = {p2, p3}
  Routes = {"remediate"}
  Offered = {"restart", "scale", "set-resources", "adjust-probe", "rollback", "set-env", "set-image", "recreate"}
  Initial <- InitialChecked
  Choices <- ChoicesChecked
  ImageEnv <- ImageEnvChecked
  Units = {1, 2}
  MaxMemory = 4
  Core = 2
  MaxCpu = 4
  MaxReplicas = 2
  MaxProbe = 2
  MaxPods = 1
CHECK_DEADLOCK FALSE
INVARIANTS
  TypeOK
  NewestSavedOnFile
PROPERTIES
  UndoRestores
