SPECIFICATION ModeSpec
CONSTANTS
  Labels <- MCLabels
  Resolved <- MCResolved
  WordsOf <- MCWordsOf
  PeriodLabels <- MCPeriodLabels
  YearLabels <- MCYearLabels
  MaxColumns = 3
  Filings <- MCCorpus
  Anchored <- MCAnchored
  Questions <- MCQuestions
  Programs <- MCPrograms
  Disclosed = {"price"}
  Exemplary = {"exemplar"}
  Standard = {"100"}
  Samples = 3
  PartOf <- MCPartOf
  ShareTerm <- MCShareTerm
  Apostrophes = {"owners' equity"}
  ValueOf <- MCValueOf
INVARIANT TypeOK
INVARIANT FiguresSurvive
INVARIANT SentencesCovered
INVARIANT PlacesKept
INVARIANT CitedIsFiled
INVARIANT VoteOverruledOnlyByVetted
CHECK_DEADLOCK FALSE
