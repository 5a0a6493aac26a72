SPECIFICATION Spec
CONSTANTS
  LLMProposals <- NoPlans
  EditPlans <- NoEdits
  Anchored = TRUE
  RecursionLimit = 25
  MaxQueries = 1
  MaxEdits = 0
INVARIANT ComputedFiguresGoverned
