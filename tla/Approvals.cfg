SPECIFICATION Spec
CONSTANTS
  r1 = r1
  r2 = r2
  Runs = {r1, r2}
  Flags <- MCFlags
  Asks <- MCAsks
  AdminRules <- MCAdminRules
  MaxEdits = 2
  MaxAnswers = 1
  Empty = Empty
  Garbled = Garbled
  None = None
SYMMETRY MCSymmetry
CHECK_DEADLOCK FALSE
INVARIANTS
  TypeOK
  SavedRulesCoverOnlyConsent
  DenyBindsLaterRuns
  DenyIsTheLastWord
PROPERTIES
  EveryEffectHasConsent
