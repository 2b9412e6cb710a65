\* A request and another one that reuses its name, two changes by users or
\* admins, one restart, one lost patch.
SPECIFICATION Spec
CONSTANTS
  None = None
  Names = {a}
  Specs <- SpecsChecked
  PolicySets <- PoliciesChecked
  Labels = {"tier=prod"}
  Proposable <- ProposalsChecked
  MaxObjects = 2
  MaxEdits = 2
  MaxRestarts = 1
  MaxFaults = 1
CHECK_DEADLOCK FALSE
INVARIANTS
  TypeOK
  AutoRunsStayBelowCeiling
  ProposalsAreNotMixed
PROPERTIES
  OncePerOperatorLife
  PoliciesAreHonored
  Lifecycle_Spec
