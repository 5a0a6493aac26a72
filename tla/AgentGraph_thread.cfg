SPECIFICATION Spec
CONSTANTS
  LLMProposals <- TwoPlans
  EditPlans <- Edits
  Anchored = FALSE
  RecursionLimit = 25
  MaxQueries = 2
  MaxEdits = 1
INVARIANT TypeOK
INVARIANT EvidenceInspected
INVARIANT FlaggedEvidenceReleased
PROPERTY RejectionIsFinal
PROPERTY ImplementsGovernedQuery
