\* Two requests at a time, under two names, one change, one restart.
SPECIFICATION Spec
CONSTANTS
  None = None
  Names = {a, b}
  Specs <- SpecsServed
  PolicySets <- NoPolicies
  Labels = {"tier=prod"}
  Proposable = {"restart"}
  MaxObjects = 2
  MaxEdits = 1
  MaxRestarts = 1
  MaxFaults = 0
CHECK_DEADLOCK FALSE
PROPERTIES
  FreshRequestIsAnswered
  ApprovalIsCarriedOut
