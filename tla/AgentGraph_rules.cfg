SPECIFICATION FairSpec
CONSTANTS
  LLMProposals <- NoPlans
  EditPlans <- NoEdits
  Anchored = TRUE
  RecursionLimit = 25
  MaxQueries = 1
  MaxEdits = 1
INVARIANT MathSeesAllRetrieval
PROPERTY EveryQueryAnswered
PROPERTY ApprovedRunAnswers
