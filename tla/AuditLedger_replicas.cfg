SPECIFICATION Spec
CONSTANTS
  p1 = p1
  Processes = {p1,p2}
  Threads = {t1,t2,p2}
  ProcessOf <- Replicas
  UtcSession = TRUE
  MaxEvents = 4
  MaxRestarts = 1
  MaxOutages = 1
SYMMETRY Pooled
CHECK_DEADLOCK FALSE
INVARIANT TypeOK
 
INVARIANT VerifiedHasNoHole
