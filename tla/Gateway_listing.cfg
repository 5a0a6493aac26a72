SPECIFICATION Spec
CONSTANTS
  Threads = {t1}
  Queries = {q1}
  Reviews = {v1}
  NoRequest = NoRequest
  MaxRestarts = 0
INVARIANT PendingAwaitReview
CHECK_DEADLOCK FALSE
