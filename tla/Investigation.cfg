\* Two iterations after the first finding, one replanning of two rounds.
SPECIFICATION Spec
CONSTANTS
  None = None
  Menu <- MenuChecked
  Sources <- SourcesChecked
  Specialties = {kafka, dns}
  MaxIterations = 4
  MaxCalls = 12
  ExtraIterations = 2
  ReplanRounds = 2
  MaxSpecialists = 1
  MaxFixes = 2
  MaxHypotheses = 2
  MaxCritiques = 2
CHECK_DEADLOCK FALSE
INVARIANTS
  TypeOK
  BudgetOverrunIsBounded
  UnjudgedOnlyWhenSpent
  AskedOnce
  DiagnosisRestsOnFindings
  IterationsStartSaved
PROPERTIES
  ClaimsAreKept
  Termination
