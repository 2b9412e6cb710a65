\* A store of one that is full, two saves, a recall and a clear.
SPECIFICATION Spec
CONSTANTS
  o1 = o1
  s1 = s1
  s2 = s2
  Savers = {s1, s2}
  Recallers = {r}
  Clearers = {c}
  Old <- OldChecked
  Likeness <- LikenessChecked
  MaxRecords = 1
  K = 1
CHECK_DEADLOCK FALSE
INVARIANTS
  TypeOK
  PrunedOnlyWhenOutnumbered
  StoreIsCapped
PROPERTIES
  RecallMissesNothing
