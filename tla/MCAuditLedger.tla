--------------------------- MODULE MCAuditLedger ---------------------------
(* Instances of AuditLedger for TLC.                                       *)
EXTENDS AuditLedger, TLC

\* Each thread alone in its process; all threads in one process; the threads of
\* p1 and, for every other process, one named after it.
CONSTANT p1
Alone == [t \in Threads |-> t]
Together == [t \in Threads |-> p1]
Replicas == [t \in Threads |-> IF t \in Processes THEN t ELSE p1]

\* The threads of p1 that are not named after a process may be exchanged.
Pooled == Permutations(Threads \ Processes)
=============================================================================
