SPECIFICATION Spec
CONSTANTS
  Targets <- MCTargets
  Capacity = 2
  Cooldown = 2
  MaxPrinted = 1
  None = None
CHECK_DEADLOCK FALSE
INVARIANTS
  TypeOK
PROPERTIES
  FoundCrashesAreTaken
  AnalysesAreSpaced
  EveryCrashIsTaken
  CrashLoopIsReanalyzed
