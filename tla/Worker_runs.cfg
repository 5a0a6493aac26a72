SPECIFICATION Spec
CONSTANTS
  Threads = {t1, t2}
  Tools = {"vector_retrieval"}
  Limit <- OneSlot
  MaxFaults = 1
INVARIANT TypeOK
INVARIANT SlotsConserved
INVARIANT PromotedUnlessUndone
PROPERTY WaitersNotStalled
PROPERTY ReadsHeal
PROPERTY MemoryDegrades
