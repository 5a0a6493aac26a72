-------------------------- MODULE MCWorkerProcess --------------------------
(* Every tool has one slot.                                                *)
EXTENDS WorkerProcess

OneSlot == [u \in Tools |-> 1]
=============================================================================
