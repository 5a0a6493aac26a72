SPECIFICATION ModeSpec
CONSTANTS
  Labels <- MCLabels
  Resolved <- MCResolved
  WordsOf <- MCWordsOf
  PeriodLabels <- MCPeriodLabels
  YearLabels <- MCYearLabels
  MaxColumns = 3
  Filings <- MCCorpus
  Anchored <- MCAnchored
  Questions <- MCQuestions
  Programs <- MCPrograms
  Disclosed = {"price"}
  Exemplary = {"exemplar"}
  Standard = {"100"}
  Samples = 3
  PartOf <- MCPartOf
  ShareTerm <- MCShareTerm
  Apostrophes = {"owners' equity"}
  ValueOf <- MCValueOf
INVARIANT AnswerIsGrounded
CHECK_DEADLOCK FALSE
