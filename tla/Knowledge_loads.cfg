SPECIFICATION Spec
CONSTANTS
  Records = {"a", "b"}
  Versions = {"new", "old"}
  Derived <- MCDerived
  Selections <- MCSelections
  BatchSize = 1
  WipeSize = 12
  MaxRuns = 3
  MaxWipes = 1
INVARIANT TypeOK
INVARIANT CompleteLoadIsExact
INVARIANT OrphansOnlyFromTornWipe
INVARIANT ReportsAreWhole
INVARIANT AnchoredAnswers
INVARIANT VectorTableConverges
PROPERTY CommandsEnd
CHECK_DEADLOCK FALSE
