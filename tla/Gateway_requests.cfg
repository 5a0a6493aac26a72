SPECIFICATION FairSpec
CONSTANTS
  Threads = {t1}
  Queries = {q1, q2}
  Reviews = {v1}
  NoRequest = NoRequest
  MaxRestarts = 1
INVARIANT TypeOK
INVARIANT SuspendedIsListed
PROPERTY ToldWhatHappened
PROPERTY EveryRequestAnswered
CHECK_DEADLOCK FALSE
