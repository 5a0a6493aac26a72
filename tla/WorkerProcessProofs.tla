------------------------- MODULE WorkerProcessProofs -------------------------
(***************************************************************************)
(* Proofs about WorkerProcess, for any number of threads, tools, slots and *)
(* faults: its types, the conservation of slots, and what a session that   *)
(* was reported as promoted can rely on.                                   *)
(***************************************************************************)
EXTENDS WorkerProcess, FiniteSetTheorems, TLAPS

Places == {"idle", "ensure", "get", "get_ddl", "open", "open_ddl", "ddl", "ddl_commit",
           "ddl_rollback", "execute", "commit", "rollback", "dispatch", "waiting", "running"}

\* Where a thread works on the connection it has got hold of.
OnConnection == {"ddl", "ddl_commit", "ddl_rollback", "execute", "commit"}

\* Where a thread holds or awaits a slot.
AtSlot == {"waiting", "running"}

-----------------------------------------------------------------------------
(* Slots.                                                                  *)

SlotTypes ==
  /\ pc \in [Threads -> Places]
  /\ tool \in [Threads -> Tools \cup {"none"}]
  /\ free \in [Tools -> Nat]
  /\ \A t \in Threads : pc[t] \in AtSlot => tool[t] \in Tools

SlotInv == SlotTypes /\ SlotsConserved

LEMMA HoldersFinite ==
  ASSUME NEW u PROVE IsFiniteSet(Holders(u)) /\ Cardinality(Holders(u)) \in Nat
<1>1. Holders(u) \in SUBSET Threads
  BY DEF Holders
<1>2. IsFiniteSet(Holders(u))
  BY <1>1, FS_Subset, WorkerProcessAssumption
<1> QED BY <1>2, FS_CardinalityType

\* A step of a thread that neither held a slot nor takes one.
LEMMA Bystander ==
  ASSUME SlotInv, NEW t \in Threads, NEW w \in Places, pc' = [pc EXCEPT ![t] = w],
         pc[t] # "running", w \notin AtSlot, UNCHANGED free,
         tool' = tool \/ tool' = [tool EXCEPT ![t] = "none"]
  PROVE  SlotInv'
<1>1. SlotTypes'
  BY DEF SlotInv, SlotTypes, AtSlot
<1>2. ASSUME NEW u \in Tools PROVE Holders(u)' = Holders(u)
  BY DEF SlotInv, SlotTypes, Holders, AtSlot
<1> QED BY <1>1, <1>2 DEF SlotInv, SlotsConserved

\* A worker takes a free slot.
LEMMA Taken ==
  ASSUME SlotInv, NEW t \in Threads, NEW u \in Tools, free[u] > 0,
         pc[t] # "running", pc' = [pc EXCEPT ![t] = "running"],
         tool' = [tool EXCEPT ![t] = u], free' = [free EXCEPT ![u] = @ - 1]
  PROVE  SlotInv'
<1>1. SlotTypes'
  BY DEF SlotInv, SlotTypes, AtSlot, Places
<1>2. Holders(u)' = Holders(u) \cup {t} /\ t \notin Holders(u)
  BY DEF SlotInv, SlotTypes, Holders
<1>3. Cardinality(Holders(u)') = Cardinality(Holders(u)) + 1
  BY <1>2, HoldersFinite, FS_AddElement
<1>4. ASSUME NEW v \in Tools, v # u PROVE Holders(v)' = Holders(v)
  BY <1>4 DEF SlotInv, SlotTypes, Holders
<1>5. ASSUME NEW v \in Tools PROVE (free[v] + Cardinality(Holders(v)) = Limit[v])'
  <2>1. CASE v = u
    <3>1. free'[u] = free[u] - 1 /\ free[u] \in Nat
      BY DEF SlotInv, SlotTypes
    <3>2. Cardinality(Holders(u)) \in Nat
      BY HoldersFinite
    <3>3. free[u] + Cardinality(Holders(u)) = Limit[u]
      BY DEF SlotInv, SlotsConserved
    <3> QED BY <1>3, <2>1, <3>1, <3>2, <3>3
  <2>2. CASE v # u
    BY <1>4, <2>2 DEF SlotInv, SlotTypes, SlotsConserved
  <2> QED BY <2>1, <2>2
<1> QED BY <1>1, <1>5 DEF SlotInv, SlotsConserved

\* A worker gives its slot back.
LEMMA Returned ==
  ASSUME SlotInv, NEW t \in Threads, NEW w \in Places, pc[t] = "running",
         w \notin AtSlot, pc' = [pc EXCEPT ![t] = w],
         tool' = [tool EXCEPT ![t] = "none"],
         free' = [free EXCEPT ![tool[t]] = @ + 1]
  PROVE  SlotInv'
<1>0. PICK u \in Tools : u = tool[t]
  BY DEF SlotInv, SlotTypes, AtSlot
<1>1. SlotTypes'
  BY <1>0 DEF SlotInv, SlotTypes, AtSlot
<1>2. Holders(u)' = Holders(u) \ {t} /\ t \in Holders(u)
  BY <1>0 DEF SlotInv, SlotTypes, Holders, AtSlot
<1>3. Cardinality(Holders(u)') = Cardinality(Holders(u)) - 1
  BY <1>2, HoldersFinite, FS_RemoveElement
<1>4. ASSUME NEW v \in Tools, v # u PROVE Holders(v)' = Holders(v)
  BY <1>0, <1>4 DEF SlotInv, SlotTypes, Holders, AtSlot
<1>5. ASSUME NEW v \in Tools PROVE (free[v] + Cardinality(Holders(v)) = Limit[v])'
  <2>1. CASE v = u
    <3>1. free'[u] = free[u] + 1 /\ free[u] \in Nat
      BY <1>0 DEF SlotInv, SlotTypes
    <3>2. Cardinality(Holders(u)) \in Nat
      BY HoldersFinite
    <3>3. free[u] + Cardinality(Holders(u)) = Limit[u]
      BY <1>0 DEF SlotInv, SlotsConserved
    <3> QED BY <1>3, <2>1, <3>1, <3>2, <3>3
  <2>2. CASE v # u
    BY <1>0, <1>4, <2>2 DEF SlotInv, SlotTypes, SlotsConserved
  <2> QED BY <2>1, <2>2
<1> QED BY <1>1, <1>5 DEF SlotInv, SlotsConserved

\* Reading and writing memory touches no slot.
LEMMA MemoryKeepsSlots ==
  ASSUME NEW t \in Threads, Memory(t)
  PROVE  /\ UNCHANGED slots /\ pc[t] \notin AtSlot
         /\ \E w \in Places \ AtSlot : pc' = [pc EXCEPT ![t] = w]
<1> USE DEF Go, Places, AtSlot
<1>1. CASE Ensure(t)
  BY <1>1 DEF Ensure
<1>2. CASE GetConnection(t)
  BY <1>2 DEF GetConnection, Then
<1>3. CASE Connect(t)
  BY <1>3 DEF Connect, Raised, Then
<1>4. CASE CreateSchema(t)
  BY <1>4 DEF CreateSchema
<1>5. CASE CommitSchema(t)
  BY <1>5 DEF CommitSchema
<1>6. CASE RollbackSchema(t)
  BY <1>6 DEF RollbackSchema, Raised
<1>7. CASE Select(t)
  BY <1>7 DEF Select, Raised
<1>8. CASE RollbackRead(t)
  BY <1>8 DEF RollbackRead
<1>9. CASE Insert(t)
  BY <1>9 DEF Insert, Raised
<1>10. CASE CommitEpisode(t)
  BY <1>10 DEF CommitEpisode, Raised
<1> QED BY <1>1, <1>2, <1>3, <1>4, <1>5, <1>6, <1>7, <1>8, <1>9, <1>10 DEF Memory

LEMMA SlotInvInit == Init => SlotInv
<1> SUFFICES ASSUME Init PROVE SlotInv
  OBVIOUS
<1>1. SlotTypes
  BY WorkerProcessAssumption DEF Init, SlotTypes, Places, AtSlot
<1>2. ASSUME NEW u \in Tools PROVE free[u] + Cardinality(Holders(u)) = Limit[u]
  <2>1. Holders(u) = {}
    BY DEF Init, Holders
  <2>2. Cardinality(Holders(u)) = 0
    BY <2>1, FS_EmptySet
  <2>3. free[u] = Limit[u] /\ Limit[u] \in Nat
    BY WorkerProcessAssumption DEF Init
  <2> QED BY <2>2, <2>3
<1> QED BY <1>1, <1>2 DEF SlotInv, SlotsConserved

LEMMA SlotInvStep == SlotInv /\ [Next]_vars => SlotInv'
<1> SUFFICES ASSUME SlotInv, [Next]_vars PROVE SlotInv'
  OBVIOUS
<1>1. CASE UNCHANGED vars
  BY <1>1 DEF vars, control, slots, SlotInv, SlotTypes, SlotsConserved, Holders
<1>2. ASSUME NEW t \in Threads, Ask(t) PROVE SlotInv'
  <2>1. pc' = [pc EXCEPT ![t] = "ensure"] /\ pc[t] = "idle" /\ UNCHANGED slots
    BY <1>2 DEF Ask, Enter, Go
  <2> QED BY <2>1, Bystander DEF slots, Places, AtSlot
<1>3. ASSUME NEW t \in Threads, Memory(t) PROVE SlotInv'
  <2>1. PICK w \in Places \ AtSlot : pc' = [pc EXCEPT ![t] = w]
    BY <1>3, MemoryKeepsSlots
  <2>2. UNCHANGED slots /\ pc[t] # "running"
    BY <1>3, MemoryKeepsSlots DEF AtSlot
  <2> QED BY <2>1, <2>2, Bystander DEF slots
<1>4. ASSUME NEW t \in Threads, Dispatch(t) PROVE SlotInv'
  <2>1. CASE Leave(t) /\ UNCHANGED slots
    <3>1. PICK w \in Places \ AtSlot : pc' = [pc EXCEPT ![t] = w]
      BY <2>1 DEF Leave, Enter, Go, Places, AtSlot
    <3> QED BY <1>4, <2>1, <3>1, Bystander DEF Dispatch, slots
  <2>2. ASSUME NEW u \in Tools, free[u] > 0, tool' = [tool EXCEPT ![t] = u],
               free' = [free EXCEPT ![u] = @ - 1], Go(t, "running")
        PROVE  SlotInv'
    BY <1>4, <2>2, Taken DEF Dispatch, Go
  <2>3. ASSUME NEW u \in Tools, tool' = [tool EXCEPT ![t] = u],
               UNCHANGED free, Go(t, "waiting")
        PROVE  SlotInv'
    <3>1. pc[t] = "dispatch" /\ pc' = [pc EXCEPT ![t] = "waiting"]
      BY <1>4, <2>3 DEF Dispatch, Go
    <3>2. SlotTypes'
      BY <2>3, <3>1 DEF SlotInv, SlotTypes, AtSlot, Places
    <3>3. ASSUME NEW v \in Tools PROVE Holders(v)' = Holders(v)
      BY <2>3, <3>1 DEF SlotInv, SlotTypes, Holders
    <3> QED BY <2>3, <3>2, <3>3 DEF SlotInv, SlotsConserved
  <2> QED BY <1>4, <2>1, <2>2, <2>3 DEF Dispatch
<1>5. ASSUME NEW t \in Threads, Woken(t) PROVE SlotInv'
  <2>1. PICK u \in Tools : u = tool[t]
    BY <1>5 DEF Woken, SlotInv, SlotTypes, AtSlot
  <2>2. tool' = [tool EXCEPT ![t] = u]
    BY <1>5, <2>1 DEF Woken, SlotInv, SlotTypes
  <2> QED BY <1>5, <2>1, <2>2, Taken DEF Woken, Go
<1>6. ASSUME NEW t \in Threads, TimeOut(t) PROVE SlotInv'
  <2>1. PICK w \in Places \ AtSlot : pc' = [pc EXCEPT ![t] = w]
    BY <1>6 DEF TimeOut, Leave, Enter, Go, Places, AtSlot
  <2>2. UNCHANGED free /\ tool' = [tool EXCEPT ![t] = "none"] /\ pc[t] = "waiting"
    BY <1>6 DEF TimeOut, Release
  <2> QED BY <2>1, <2>2, Bystander
<1>7. ASSUME NEW t \in Threads, Return(t) \/ Raise(t) PROVE SlotInv'
  <2>1. PICK w \in Places \ AtSlot : pc' = [pc EXCEPT ![t] = w]
    BY <1>7 DEF Return, Raise, Leave, Enter, Go, Places, AtSlot
  <2>2. /\ pc[t] = "running" /\ tool' = [tool EXCEPT ![t] = "none"]
        /\ free' = [free EXCEPT ![tool[t]] = @ + 1]
    BY <1>7 DEF Return, Raise, Release
  <2> QED BY <2>1, <2>2, Returned
<1> QED BY <1>1, <1>2, <1>3, <1>4, <1>5, <1>6, <1>7 DEF Next, Queue

(* The semaphore's value and the calls that run under it always add up to  *)
(* the limit (ToolSlot.__enter__ and __exit__ in concurrency.py), for any  *)
(* number of threads and any limits: no slot is lost to a worker that      *)
(* times out or raises, and none is given back twice.                      *)
THEOREM SlotsAreConserved == Spec => []SlotsConserved
<1>1. SlotInv => SlotsConserved
  BY DEF SlotInv
<1> QED BY <1>1, SlotInvInit, SlotInvStep, PTL DEF Spec

-----------------------------------------------------------------------------
(* Types.                                                                  *)

ConnectionInv == \A t \in Threads : pc[t] \in OnConnection => mine[t] \in Conns

\* What statements change, what commits change, and the rest.
Connection == [tx : {"idle", "open", "failed", "closed"}, rows : SUBSET Threads, ddl : BOOLEAN]

StatementTypes ==
  /\ conns \in [Conns -> Connection]
  /\ undone \subseteq Threads
  /\ faults \in 0..MaxFaults

TableTypes == schema \in BOOLEAN /\ episodes \subseteq Threads

ControlTypes ==
  /\ pc \in [Threads -> Places] /\ phase \in [Threads -> {"read", "write"}]
  /\ tool \in [Threads -> Tools \cup {"none"}] /\ free \in [Tools -> Nat]
  /\ search \in {"none", "idle", "open", "failed"}
  /\ cur \in Conns \cup {0} /\ mine \in [Threads -> Conns \cup {0}]
  /\ ready \in BOOLEAN
  /\ told \in [Threads -> {"none", "promoted", "failed"}]
  /\ ConnectionInv
  /\ \A t \in Threads : pc[t] \in AtSlot => tool[t] \in Tools

TypeInv == StatementTypes /\ TableTypes /\ ControlTypes

\* There is always an id that neither the store nor another thread uses.
LEMMA FreshId ==
  ASSUME NEW t \in Threads
  PROVE  (CHOOSE i \in Conns : i \notin InUse(t)) \in Conns \ InUse(t)
<1> DEFINE n == Cardinality(Threads)
           f == [o \in Threads |-> IF o = t THEN cur ELSE mine[o]]
<1>1. f \in Surjection(Threads, InUse(t))
  BY DEF Surjection, InUse
<1>2. IsFiniteSet(InUse(t)) /\ Cardinality(InUse(t)) <= n
  BY <1>1, FS_Surjection, WorkerProcessAssumption
<1>3. n \in Nat
  BY FS_CardinalityType, WorkerProcessAssumption
<1>4. Cardinality(Conns) = n + 1
  BY <1>3, FS_Interval DEF Conns
<1>5. ~(Conns \subseteq InUse(t))
  <2>1. SUFFICES ASSUME Conns \subseteq InUse(t) PROVE FALSE
    OBVIOUS
  <2>2. Cardinality(Conns) <= Cardinality(InUse(t))
    BY <1>2, <2>1, FS_Subset
  <2>3. Cardinality(InUse(t)) \in Nat
    BY <1>2, FS_CardinalityType
  <2> QED BY <1>2, <1>3, <1>4, <2>2, <2>3
<1>6. \E i \in Conns : i \notin InUse(t)
  BY <1>5
<1> QED BY <1>6

LEMMA TypeInvInit == Init => TypeInv
<1> SUFFICES ASSUME Init PROVE TypeInv
  OBVIOUS
<1>1. conns = [k \in Conns |-> Fresh] /\ Fresh \in Connection
  BY DEF Init, Fresh, Connection
<1>2. StatementTypes
  BY <1>1, WorkerProcessAssumption DEF Init, StatementTypes
<1>3. TableTypes
  BY DEF Init, TableTypes
<1>4. ControlTypes
  BY WorkerProcessAssumption
  DEF Init, ControlTypes, ConnectionInv, OnConnection, AtSlot, Places
<1> QED BY <1>2, <1>3, <1>4 DEF TypeInv

LEMMA FaultTypes == ASSUME faults \in 0..MaxFaults, Fault PROVE faults' \in 0..MaxFaults
BY WorkerProcessAssumption DEF Fault

LEMMA DiscardTypes ==
  ASSUME StatementTypes, NEW k \in Conns, NEW tx \in {"idle", "failed", "closed"}, Discard(k, tx)
  PROVE  conns' \in [Conns -> Connection] /\ undone' \subseteq Threads
<1>1. conns[k].rows \subseteq Threads
  BY DEF StatementTypes, Connection
<1>2. [Fresh EXCEPT !.tx = tx] \in Connection
  BY DEF Fresh, Connection
<1>3. conns' = [conns EXCEPT ![k] = [Fresh EXCEPT !.tx = tx]] /\ undone' = undone \cup conns[k].rows
  BY DEF Discard
<1> QED BY <1>1, <1>2, <1>3 DEF StatementTypes

LEMMA FailsTypes ==
  ASSUME StatementTypes, NEW k \in Conns, NEW valid, Fails(k, valid) PROVE StatementTypes'
<1>1. CASE UNCHANGED <<conns, undone, faults>>
  BY <1>1 DEF StatementTypes
<1>2. CASE Discard(k, "failed") /\ UNCHANGED faults
  BY <1>2, DiscardTypes DEF StatementTypes
<1>3. ASSUME Fault, NEW tx \in {"failed", "closed"}, Discard(k, tx) PROVE StatementTypes'
  BY <1>3, DiscardTypes, FaultTypes DEF StatementTypes
<1> QED BY <1>1, <1>2, <1>3 DEF Fails

LEMMA RollbackTypes ==
  ASSUME StatementTypes, NEW k \in Conns, Rollback(k) PROVE StatementTypes'
<1>1. CASE UNCHANGED <<conns, undone, faults>>
  BY <1>1 DEF StatementTypes
<1>2. CASE Discard(k, "idle") /\ UNCHANGED faults
  BY <1>2, DiscardTypes DEF StatementTypes
<1>3. CASE Fault /\ Discard(k, "closed")
  BY <1>3, DiscardTypes, FaultTypes DEF StatementTypes
<1> QED BY <1>1, <1>2, <1>3 DEF Rollback, Healed

LEMMA CommitTypes ==
  ASSUME StatementTypes, TableTypes, NEW k \in Conns, Commit(k) \/ CommitFails(k)
  PROVE  StatementTypes' /\ TableTypes'
<1>1. conns[k].rows \subseteq Threads /\ conns[k].ddl \in BOOLEAN
  BY DEF StatementTypes, Connection
<1>2. TableTypes'
  BY <1>1 DEF TableTypes, Commit, CommitFails
<1>3. CASE Commit(k)
  BY <1>2, <1>3 DEF Commit, StatementTypes, Fresh, Connection
<1>4. CASE UNCHANGED <<conns, undone, faults>>
  BY <1>2, <1>4 DEF StatementTypes
<1>5. CASE Fault /\ Discard(k, "closed")
  BY <1>2, <1>5, DiscardTypes, FaultTypes DEF StatementTypes
<1> QED BY <1>3, <1>4, <1>5 DEF CommitFails

LEMMA MemoryKeepsTypes ==
  ASSUME TypeInv, NEW t \in Threads, Memory(t)
  PROVE  TypeInv'
<1>0. StatementTypes /\ TableTypes /\ ControlTypes
  BY DEF TypeInv
<1>t. (pc[t] \in OnConnection => mine[t] \in Conns) /\ Conns \subseteq Nat /\ 0 \notin Conns
  BY <1>0, FS_CardinalityType, WorkerProcessAssumption DEF ControlTypes, ConnectionInv, Conns
<1>1. CASE Ensure(t)
  <2>1. StatementTypes' /\ TableTypes'
    BY <1>0, <1>1 DEF Ensure, StatementTypes, TableTypes, store
  <2>2. ControlTypes'
    BY <1>0, <1>1 DEF Ensure, ControlTypes, ConnectionInv, OnConnection, AtSlot, Places, Go, slots, store
  <2> QED BY <2>1, <2>2 DEF TypeInv
<1>2. CASE GetConnection(t)
  <2>1. StatementTypes' /\ TableTypes'
    BY <1>0, <1>2 DEF GetConnection, StatementTypes, TableTypes
  <2>2. ControlTypes'
    BY <1>0, <1>2
    DEF GetConnection, Then, Open, ControlTypes, ConnectionInv, OnConnection, AtSlot, Places, Go, slots
  <2> QED BY <2>1, <2>2 DEF TypeInv
<1>3. CASE Connect(t)
  <2>1. TableTypes'
    BY <1>0, <1>3 DEF Connect, TableTypes
  <2>2. CASE Fault /\ Raised(t) /\ UNCHANGED <<conns, cur, mine>>
    <3>1. StatementTypes'
      BY <1>0, <1>3, <2>2, FaultTypes DEF Connect, StatementTypes
    <3>2. ControlTypes'
      BY <1>0, <1>3, <2>2
      DEF Connect, Raised, ControlTypes, ConnectionInv, OnConnection, AtSlot, Places, Go, slots
    <3> QED BY <2>1, <3>1, <3>2 DEF TypeInv
  <2>3. ASSUME NEW k \in Conns, conns' = [conns EXCEPT ![k] = Fresh], cur' = k,
               mine' = [mine EXCEPT ![t] = k], Go(t, Then[pc[t]]), UNCHANGED <<phase, told, faults>>
        PROVE  TypeInv'
    <3>1. StatementTypes'
      BY <1>0, <1>3, <2>3 DEF Connect, StatementTypes, Fresh, Connection
    <3>2. ControlTypes'
      BY <1>0, <1>3, <2>3
      DEF Connect, Then, ControlTypes, ConnectionInv, OnConnection, AtSlot, Places, Go, slots
    <3> QED BY <2>1, <3>1, <3>2 DEF TypeInv
  <2> QED BY <1>3, <2>2, <2>3, FreshId DEF Connect
<1>4. CASE CreateSchema(t)
  <2>1. StatementTypes'
    <3>1. mine[t] \in Conns
      BY <1>t, <1>4 DEF CreateSchema, OnConnection
    <3>2. CASE Fails(mine[t], TRUE)
      BY <1>0, <3>1, <3>2, FailsTypes
    <3>3. CASE ~Fails(mine[t], TRUE)
      <4>1. conns' = [conns EXCEPT ![mine[t]].tx = "open", ![mine[t]].ddl = TRUE]
            /\ UNCHANGED <<faults, undone>>
        BY <1>4, <3>3 DEF CreateSchema
      <4>2. conns[mine[t]] \in Connection
        BY <1>0, <3>1 DEF StatementTypes
      <4>3. [conns[mine[t]] EXCEPT !.tx = "open", !.ddl = TRUE] \in Connection
        BY <4>2 DEF Connection
      <4> QED BY <1>0, <3>1, <4>1, <4>3 DEF StatementTypes
    <3> QED BY <3>2, <3>3
  <2>2. TableTypes'
    BY <1>0, <1>4 DEF CreateSchema, TableTypes
  <2>3. ControlTypes'
    BY <1>0, <1>4, ZenonT(40)
    DEF CreateSchema, ControlTypes, ConnectionInv, OnConnection, AtSlot, Places, Go, slots
  <2> QED BY <2>1, <2>2, <2>3 DEF TypeInv
<1>5. CASE CommitSchema(t)
  <2>1. StatementTypes' /\ TableTypes'
    BY <1>0, <1>t, <1>5, CommitTypes DEF CommitSchema, OnConnection
  <2>2. ControlTypes'
    BY <1>0, <1>5, ZenonT(40)
    DEF CommitSchema, ControlTypes, ConnectionInv, OnConnection, AtSlot, Places, Go, slots
  <2> QED BY <2>1, <2>2 DEF TypeInv
<1>6. CASE RollbackSchema(t)
  <2>1. StatementTypes' /\ TableTypes'
    BY <1>0, <1>t, <1>6, RollbackTypes DEF RollbackSchema, OnConnection, TableTypes
  <2>2. ControlTypes'
    BY <1>0, <1>6
    DEF RollbackSchema, Raised, ControlTypes, ConnectionInv, OnConnection, AtSlot, Places, Go, slots
  <2> QED BY <2>1, <2>2 DEF TypeInv
<1>7. CASE Select(t)
  <2>1. StatementTypes'
    <3>1. mine[t] \in Conns
      BY <1>t, <1>7 DEF Select, OnConnection
    <3>2. CASE Fails(mine[t], TableSeen(mine[t]))
      BY <1>0, <3>1, <3>2, FailsTypes
    <3>3. CASE ~Fails(mine[t], TableSeen(mine[t]))
      BY <1>0, <1>7, <3>1, <3>3 DEF Select, StatementTypes, Connection
    <3> QED BY <3>2, <3>3
  <2>2. TableTypes'
    BY <1>0, <1>7 DEF Select, TableTypes
  <2>3. ControlTypes'
    BY <1>0, <1>7
    DEF Select, Raised, ControlTypes, ConnectionInv, OnConnection, AtSlot, Places, Go, slots
  <2> QED BY <2>1, <2>2, <2>3 DEF TypeInv
<1>8. CASE RollbackRead(t)
  <2>1. StatementTypes'
    <3>1. CASE Open(cur)
      BY <1>0, <1>8, <3>1, RollbackTypes DEF RollbackRead, Open, ControlTypes
    <3>2. CASE ~Open(cur)
      BY <1>0, <1>8, <3>2 DEF RollbackRead, Rollback, StatementTypes
    <3> QED BY <3>1, <3>2
  <2>2. TableTypes' /\ ControlTypes'
    BY <1>0, <1>8
    DEF RollbackRead, TableTypes, ControlTypes, ConnectionInv, OnConnection, AtSlot, Places, Go, slots
  <2> QED BY <2>1, <2>2 DEF TypeInv
<1>9. CASE Insert(t)
  <2>1. StatementTypes'
    <3>1. mine[t] \in Conns
      BY <1>t, <1>9 DEF Insert, OnConnection
    <3>2. CASE Fails(mine[t], TableSeen(mine[t]))
      BY <1>0, <3>1, <3>2, FailsTypes
    <3>3. CASE ~Fails(mine[t], TableSeen(mine[t]))
      <4>1. conns' = [conns EXCEPT ![mine[t]].tx = "open", ![mine[t]].rows = @ \cup {t}]
            /\ UNCHANGED <<faults, undone>>
        BY <1>9, <3>3 DEF Insert
      <4>2. conns[mine[t]] \in Connection
        BY <1>0, <3>1 DEF StatementTypes
      <4>3. [conns[mine[t]] EXCEPT !.tx = "open", !.rows = @ \cup {t}] \in Connection
        BY <4>2 DEF Connection
      <4> QED BY <1>0, <3>1, <4>1, <4>3 DEF StatementTypes
    <3> QED BY <3>2, <3>3
  <2>2. TableTypes'
    BY <1>0, <1>9 DEF Insert, TableTypes
  <2>3. ControlTypes'
    BY <1>0, <1>9
    DEF Insert, Raised, ControlTypes, ConnectionInv, OnConnection, AtSlot, Places, Go, slots
  <2> QED BY <2>1, <2>2, <2>3 DEF TypeInv
<1>10. CASE CommitEpisode(t)
  <2>1. StatementTypes' /\ TableTypes'
    BY <1>0, <1>t, <1>10, CommitTypes DEF CommitEpisode, OnConnection
  <2>2. ControlTypes'
    BY <1>0, <1>10
    DEF CommitEpisode, Raised, ControlTypes, ConnectionInv, OnConnection, AtSlot, Places, Go, slots
  <2> QED BY <2>1, <2>2 DEF TypeInv
<1> QED BY <1>1, <1>2, <1>3, <1>4, <1>5, <1>6, <1>7, <1>8, <1>9, <1>10 DEF Memory

LEMMA TypeInvStep == TypeInv /\ [Next]_vars => TypeInv'
<1> SUFFICES ASSUME TypeInv, [Next]_vars PROVE TypeInv'
  OBVIOUS
<1>0. StatementTypes /\ TableTypes /\ ControlTypes
  BY DEF TypeInv
<1> USE DEF ControlTypes, ConnectionInv, OnConnection, AtSlot, Places, Go, Enter, slots
<1>1. CASE UNCHANGED vars
  BY <1>0, <1>1 DEF vars, control, store, TypeInv, StatementTypes, TableTypes
<1>2. ASSUME NEW t \in Threads, Ask(t) PROVE TypeInv'
  <2>1. StatementTypes' /\ TableTypes'
    BY <1>0, <1>2 DEF Ask, StatementTypes, TableTypes
  <2>2. ControlTypes'
    BY <1>0, <1>2 DEF Ask
  <2> QED BY <2>1, <2>2 DEF TypeInv
<1>3. ASSUME NEW t \in Threads, Memory(t) PROVE TypeInv'
  BY <1>3, MemoryKeepsTypes
<1>4. ASSUME NEW t \in Threads, Queue(t) PROVE TypeInv'
  <2>1. StatementTypes' /\ TableTypes'
    BY <1>0, <1>4 DEF Queue, Dispatch, Woken, TimeOut, store, StatementTypes, TableTypes
  <2>2. CASE Dispatch(t)
    <3>1. ControlTypes'
      BY <1>0, <2>2 DEF Dispatch, Leave, store
    <3> QED BY <2>1, <3>1 DEF TypeInv
  <2>3. CASE Woken(t)
    <3>1. ControlTypes'
      BY <1>0, <2>3 DEF Woken, store
    <3> QED BY <2>1, <3>1 DEF TypeInv
  <2>4. CASE TimeOut(t)
    <3>1. ControlTypes'
      BY <1>0, <2>4 DEF TimeOut, Release, Leave, store
    <3> QED BY <2>1, <3>1 DEF TypeInv
  <2> QED BY <1>4, <2>2, <2>3, <2>4 DEF Queue
<1>5. ASSUME NEW t \in Threads, Return(t) PROVE TypeInv'
  <2>1. faults' \in 0..MaxFaults
    BY <1>0, <1>5, FaultTypes DEF Return, Search, StatementTypes
  <2>2. StatementTypes' /\ TableTypes'
    BY <1>0, <1>5, <2>1 DEF Return, store, StatementTypes, TableTypes
  <2>3. ControlTypes'
    BY <1>0, <1>5 DEF Return, Release, Leave, Search, store
  <2> QED BY <2>2, <2>3 DEF TypeInv
<1>6. ASSUME NEW t \in Threads, Raise(t) PROVE TypeInv'
  <2>1. StatementTypes' /\ TableTypes'
    BY <1>0, <1>6 DEF Raise, store, StatementTypes, TableTypes
  <2>2. ControlTypes'
    BY <1>0, <1>6 DEF Raise, Release, store
  <2> QED BY <2>1, <2>2 DEF TypeInv
<1> QED BY <1>1, <1>2, <1>3, <1>4, <1>5, <1>6 DEF Next

(* The process's state is well typed, and a thread works on a connection    *)
(* that exists, whichever others the store has opened meanwhile             *)
(* (_get_connection in episodic.py), for any number of threads.             *)
THEOREM TypeCorrect == Spec => []TypeOK
<1>1. TypeInv => TypeOK
  BY DEF TypeInv, StatementTypes, TableTypes, ControlTypes, Connection, Places, TypeOK
<1> QED BY <1>1, TypeInvInit, TypeInvStep, PTL DEF Spec

-----------------------------------------------------------------------------
(* Promotion.                                                              *)

\* A thread about to commit has its episode on its connection, unless
\* another's commit or rollback has ended the transaction already.
PromiseInv ==
  /\ PromotedUnlessUndone
  /\ \A t \in Threads : pc[t] = "commit" => t \in conns[mine[t]].rows \cup episodes \cup undone

PromotionInv == TypeInv /\ PromiseInv

\* No episode disappears from where it was without a trace.
Remembered ==
  /\ episodes \cup undone \subseteq episodes' \cup undone'
  /\ \A k \in Conns : conns[k].rows \subseteq conns'[k].rows \cup episodes' \cup undone'

LEMMA DiscardRemembers ==
  ASSUME StatementTypes, NEW k \in Conns, NEW tx, Discard(k, tx), episodes \subseteq episodes'
  PROVE  Remembered
BY DEF Discard, Remembered, StatementTypes, Fresh

LEMMA StatementRemembers ==
  ASSUME StatementTypes, NEW k \in Conns, NEW valid, UNCHANGED episodes,
         Fails(k, valid) \/ Rollback(k)
  PROVE  Remembered
<1>1. CASE UNCHANGED <<conns, undone>>
  BY <1>1 DEF Remembered
<1>2. ASSUME NEW tx, Discard(k, tx) PROVE Remembered
  BY <1>2, DiscardRemembers
<1> QED BY <1>1, <1>2 DEF Fails, Rollback

\* A commit keeps what the connection holds.
LEMMA CommitRemembers ==
  ASSUME StatementTypes, NEW k \in Conns, Commit(k)
  PROVE  Remembered /\ conns[k].rows \subseteq episodes'
BY DEF Commit, Remembered, StatementTypes, Fresh

LEMMA FailedCommitRemembers ==
  ASSUME StatementTypes, NEW k \in Conns, CommitFails(k)
  PROVE  Remembered
<1>1. episodes \subseteq episodes'
  BY DEF CommitFails
<1>2. CASE UNCHANGED <<conns, undone>>
  BY <1>1, <1>2 DEF Remembered
<1>3. CASE Discard(k, "closed")
  BY <1>1, <1>3, DiscardRemembers
<1> QED BY <1>2, <1>3 DEF CommitFails

\* A step that remembers, and neither promises nor promotes anything new.
LEMMA PromiseKept ==
  ASSUME TypeInv, PromiseInv, NEW t \in Threads, NEW w \in Places, w # "commit",
         Go(t, w), Remembered, \A o \in Threads \ {t} : mine'[o] = mine[o],
         \A o \in Threads : told'[o] = "promoted" => told[o] = "promoted"
  PROVE  PromiseInv'
<1>1. PromotedUnlessUndone'
  BY DEF PromiseInv, PromotedUnlessUndone, Remembered
<1>2. ASSUME NEW o \in Threads, pc'[o] = "commit"
      PROVE  o \in conns'[mine'[o]].rows \cup episodes' \cup undone'
  <2>1. o # t /\ pc[o] = "commit"
    BY <1>2 DEF Go, TypeInv, ControlTypes
  <2>2. mine'[o] = mine[o] /\ mine[o] \in Conns
    BY <2>1 DEF TypeInv, ControlTypes, ConnectionInv, OnConnection
  <2> QED BY <2>1, <2>2 DEF PromiseInv, Remembered
<1> QED BY <1>1, <1>2 DEF PromiseInv

LEMMA MemoryKeepsPromises ==
  ASSUME TypeInv, PromiseInv, NEW t \in Threads, Memory(t)
  PROVE  PromiseInv'
<1>0. StatementTypes /\ TableTypes /\ ControlTypes
  BY DEF TypeInv
<1>r. ASSUME Raised(t)
      PROVE  /\ \E w \in Places : w # "commit" /\ Go(t, w)
             /\ \A o \in Threads : told'[o] = "promoted" => told[o] = "promoted"
  BY <1>0, <1>r DEF Raised, Places, ControlTypes
<1>m. pc[t] \in OnConnection => mine[t] \in Conns
  BY <1>0 DEF ControlTypes, ConnectionInv
<1>1. CASE Ensure(t)
  BY <1>1, PromiseKept DEF Ensure, Remembered, Places, store
<1>2. CASE GetConnection(t)
  <2>1. PICK w \in Places : w # "commit" /\ Go(t, w)
    BY <1>2 DEF GetConnection, Then, Places
  <2>2. \A o \in Threads \ {t} : mine'[o] = mine[o]
    BY <1>0, <1>2 DEF GetConnection, ControlTypes
  <2>3. Remembered /\ UNCHANGED told
    BY <1>2 DEF GetConnection, Remembered
  <2> QED BY <2>1, <2>2, <2>3, PromiseKept
<1>3. CASE Connect(t)
  <2>1. CASE Raised(t) /\ UNCHANGED <<conns, cur, mine>>
    <3>1. Remembered
      BY <1>3, <2>1 DEF Connect, Remembered
    <3> QED BY <1>r, <2>1, <3>1, PromiseKept
  <2>2. ASSUME NEW k \in Conns \ InUse(t), conns' = [conns EXCEPT ![k] = Fresh],
               mine' = [mine EXCEPT ![t] = k], Go(t, Then[pc[t]]), UNCHANGED told
        PROVE  PromiseInv'
    <3>1. UNCHANGED <<episodes, undone>>
      BY <1>3 DEF Connect
    <3>2. ASSUME NEW o \in Threads, pc'[o] = "commit"
          PROVE  o \in conns'[mine'[o]].rows \cup episodes' \cup undone'
      <4>1. o # t /\ pc[o] = "commit"
        BY <1>0, <1>3, <2>2, <3>2 DEF Connect, Go, Then, ControlTypes
      <4>2. mine'[o] = mine[o] /\ mine[o] # k
        BY <1>0, <2>2, <4>1 DEF InUse, ControlTypes
      <4>3. conns'[mine[o]] = conns[mine[o]]
        BY <1>0, <2>2, <4>1, <4>2 DEF StatementTypes, ControlTypes, ConnectionInv, OnConnection
      <4> QED BY <3>1, <4>1, <4>2, <4>3 DEF PromiseInv
    <3> QED BY <2>2, <3>1, <3>2 DEF PromiseInv, PromotedUnlessUndone
  <2> QED BY <1>3, <2>1, <2>2, FreshId DEF Connect
<1>4. CASE CreateSchema(t)
  <2>1. mine[t] \in Conns
    BY <1>4, <1>m DEF CreateSchema, OnConnection
  <2>2. Remembered
    <3>1. CASE Fails(mine[t], TRUE)
      BY <1>0, <1>4, <2>1, <3>1, StatementRemembers DEF CreateSchema
    <3>2. CASE ~Fails(mine[t], TRUE)
      <4>1. conns' = [conns EXCEPT ![mine[t]].tx = "open", ![mine[t]].ddl = TRUE]
            /\ UNCHANGED <<episodes, undone>>
        BY <1>4, <3>2 DEF CreateSchema
      <4>2. \A k \in Conns : conns'[k].rows = conns[k].rows
        BY <1>0, <2>1, <4>1 DEF StatementTypes, Connection
      <4> QED BY <4>1, <4>2 DEF Remembered
    <3> QED BY <3>1, <3>2
  <2> QED BY <1>4, <2>2, PromiseKept DEF CreateSchema, Places
<1>5. CASE CommitSchema(t)
  <2>1. Remembered
    BY <1>0, <1>5, <1>m, CommitRemembers, FailedCommitRemembers DEF CommitSchema, OnConnection
  <2> QED BY <1>5, <2>1, PromiseKept DEF CommitSchema, Places
<1>6. CASE RollbackSchema(t)
  <2>1. Remembered
    BY <1>0, <1>6, <1>m, StatementRemembers DEF RollbackSchema, OnConnection
  <2> QED BY <1>6, <1>r, <2>1, PromiseKept DEF RollbackSchema
<1>7. CASE Select(t)
  <2>1. mine[t] \in Conns
    BY <1>7, <1>m DEF Select, OnConnection
  <2>2. CASE Fails(mine[t], TableSeen(mine[t])) /\ Raised(t)
    <3>1. Remembered
      BY <1>0, <1>7, <2>1, <2>2, StatementRemembers DEF Select
    <3> QED BY <1>7, <1>r, <2>2, <3>1, PromiseKept DEF Select
  <2>3. CASE ~(Fails(mine[t], TableSeen(mine[t])) /\ Raised(t))
    <3>1. Remembered
      BY <1>0, <1>7, <2>1, <2>3 DEF Select, Remembered, StatementTypes, Connection
    <3> QED BY <1>7, <2>3, <3>1, PromiseKept DEF Select, Places
  <2> QED BY <2>2, <2>3
<1>8. CASE RollbackRead(t)
  <2>1. Remembered
    <3>1. CASE Open(cur)
      BY <1>0, <1>8, <3>1, StatementRemembers DEF RollbackRead, Open, ControlTypes
    <3>2. CASE ~Open(cur)
      BY <1>8, <3>2 DEF RollbackRead, Rollback, Remembered
    <3> QED BY <3>1, <3>2
  <2> QED BY <1>8, <2>1, PromiseKept DEF RollbackRead, Places
<1>9. CASE Insert(t)
  <2>1. mine[t] \in Conns
    BY <1>9, <1>m DEF Insert, OnConnection
  <2>2. CASE Fails(mine[t], TableSeen(mine[t])) /\ Raised(t)
    <3>1. Remembered
      BY <1>0, <1>9, <2>1, <2>2, StatementRemembers DEF Insert
    <3> QED BY <1>9, <1>r, <2>2, <3>1, PromiseKept DEF Insert
  <2>3. CASE ~(Fails(mine[t], TableSeen(mine[t])) /\ Raised(t))
    <3>1. conns' = [conns EXCEPT ![mine[t]].tx = "open", ![mine[t]].rows = @ \cup {t}]
          /\ UNCHANGED <<mine, told, episodes, undone>> /\ Go(t, "commit")
      BY <1>9, <2>3 DEF Insert
    <3>2. \A k \in Conns : conns[k].rows \subseteq conns'[k].rows
      BY <1>0, <2>1, <3>1 DEF StatementTypes, Connection
    <3>3. t \in conns'[mine[t]].rows
      BY <1>0, <2>1, <3>1 DEF StatementTypes, Connection
    <3>4. ASSUME NEW o \in Threads, pc'[o] = "commit"
          PROVE  o \in conns'[mine[o]].rows \cup episodes \cup undone
      <4>1. CASE o = t
        BY <3>3, <4>1
      <4>2. CASE o # t
        <5>1. pc[o] = "commit" /\ mine[o] \in Conns
          BY <1>0, <3>1, <3>4, <4>2 DEF Go, ControlTypes, ConnectionInv, OnConnection
        <5> QED BY <3>2, <5>1 DEF PromiseInv
      <4> QED BY <4>1, <4>2
    <3> QED BY <3>1, <3>4 DEF PromiseInv, PromotedUnlessUndone
  <2> QED BY <2>2, <2>3
<1>10. CASE CommitEpisode(t)
  <2>1. mine[t] \in Conns
    BY <1>10, <1>m DEF CommitEpisode, OnConnection
  <2>2. CASE CommitFails(mine[t]) /\ Raised(t)
    <3>1. Remembered
      BY <1>0, <2>1, <2>2, FailedCommitRemembers
    <3> QED BY <1>10, <1>r, <2>2, <3>1, PromiseKept DEF CommitEpisode
  <2>3. CASE Commit(mine[t]) /\ Go(t, "idle") /\ told' = [told EXCEPT ![t] = "promoted"]
    <3>1. Remembered /\ conns[mine[t]].rows \subseteq episodes'
      BY <1>0, <2>1, <2>3, CommitRemembers
    <3>2. t \in episodes' \cup undone'
      BY <1>10, <3>1 DEF CommitEpisode, PromiseInv, Remembered
    <3>3. PromotedUnlessUndone'
      BY <1>0, <2>3, <3>1, <3>2 DEF PromiseInv, PromotedUnlessUndone, Remembered, ControlTypes
    <3>4. ASSUME NEW o \in Threads, pc'[o] = "commit"
          PROVE  o \in conns'[mine'[o]].rows \cup episodes' \cup undone'
      <4>1. pc[o] = "commit" /\ mine[o] \in Conns /\ mine'[o] = mine[o]
        BY <1>0, <1>10, <2>3, <3>4
        DEF CommitEpisode, Go, ControlTypes, ConnectionInv, OnConnection
      <4> QED BY <3>1, <4>1 DEF PromiseInv, Remembered
    <3> QED BY <3>3, <3>4 DEF PromiseInv
  <2> QED BY <1>10, <2>2, <2>3 DEF CommitEpisode
<1> QED BY <1>1, <1>2, <1>3, <1>4, <1>5, <1>6, <1>7, <1>8, <1>9, <1>10 DEF Memory

LEMMA PromotionInvStep == PromotionInv /\ [Next]_vars => PromotionInv'
<1> SUFFICES ASSUME TypeInv, PromiseInv, [Next]_vars PROVE PromiseInv'
  BY TypeInvStep DEF PromotionInv
<1>0. ControlTypes
  BY DEF TypeInv
<1>1. CASE UNCHANGED vars
  BY <1>1 DEF vars, control, store, PromiseInv, PromotedUnlessUndone
<1>2. ASSUME NEW t \in Threads, Ask(t) PROVE PromiseInv'
  BY <1>0, <1>2 DEF Ask, Enter, Go, PromiseInv, PromotedUnlessUndone, ControlTypes
<1>3. ASSUME NEW t \in Threads, Memory(t) PROVE PromiseInv'
  BY <1>3, MemoryKeepsPromises
<1>4. ASSUME NEW t \in Threads, Queue(t) \/ Return(t) \/ Raise(t) PROVE PromiseInv'
  <2>1. \E w \in Places : w # "commit" /\ Go(t, w)
    BY <1>4 DEF Queue, Dispatch, Woken, TimeOut, Return, Raise, Leave, Enter, Go, Places
  <2>2. UNCHANGED <<conns, mine, episodes, told, undone>>
    BY <1>4 DEF Queue, Dispatch, Woken, TimeOut, Return, Raise, store
  <2>3. Remembered
    BY <2>2 DEF Remembered
  <2> QED BY <2>1, <2>2, <2>3, PromiseKept
<1> QED BY <1>1, <1>2, <1>3, <1>4 DEF Next

(* A session that write_memory_node reported as promoted is in the table,   *)
(* unless another thread's failed statement or rollback undid it before the *)
(* commit: the episode is on the connection its thread commits, however     *)
(* connections come and go in between (save_episode in episodic.py).        *)
THEOREM PromotionsStand == Spec => []PromotedUnlessUndone
<1>1. Init => PromotionInv
  <2>1. Init => PromiseInv
    BY DEF Init, PromiseInv, PromotedUnlessUndone
  <2> QED BY <2>1, TypeInvInit DEF PromotionInv
<1>2. PromotionInv => PromotedUnlessUndone
  BY DEF PromotionInv, PromiseInv
<1> QED BY <1>1, <1>2, PromotionInvStep, PTL DEF Spec
=============================================================================
