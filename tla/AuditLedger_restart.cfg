SPECIFICATION Spec
CONSTANTS
  p1 = p1
  Processes = {p1}
  Threads = {p1}
  ProcessOf <- Alone
  UtcSession = TRUE
  MaxEvents = 4
  MaxRestarts = 1
  MaxOutages = 0
CHECK_DEADLOCK FALSE
INVARIANT UnannouncedChainVerifies
