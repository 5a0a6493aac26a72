SPECIFICATION Spec
CONSTANTS
  LLMProposals <- AllPlans
  EditPlans <- NoEdits
  Anchored = TRUE
  RecursionLimit = 25
  MaxQueries = 1
  MaxEdits = 1
INVARIANT FinishedHasAnswer
INVARIANT ResultsMirrored
INVARIANT OneApprovalSuffices
PROPERTY NoTaskRunsTwice
