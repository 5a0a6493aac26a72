---------------------------- MODULE WorkerProcess ----------------------------
(***************************************************************************)
(* What the runs of one server process share: the semaphores that bound    *)
(* the concurrent calls of a tool (agent/nodes/concurrency.py), the one    *)
(* connection of the vector client (agent/tools/vector_tool.py) and the    *)
(* one of the episodic store (agent/memory/episodic.py), which lives in    *)
(* one transaction for all threads.  A thread reads memory, runs a tool    *)
(* under a slot and promotes its session; any statement may fail.          *)
(***************************************************************************)
EXTENDS Naturals, FiniteSets

CONSTANTS Threads,
          Tools,     \* the tools the workers call
          Limit,     \* TOOL_CONCURRENCY_LIMITS
          MaxFaults  \* bound: statements and connections that fail

ASSUME WorkerProcessAssumption ==
  /\ IsFiniteSet(Threads)
  /\ Limit \in [Tools -> Nat \ {0}]
  /\ MaxFaults \in Nat

VARIABLES
  pc, phase,  \* per thread: its next step, and the node it is in
  tool,       \* the tool its worker was sent
  free,       \* per tool, the semaphore's value
  search,     \* transaction state of the vector client's connection
  conns,      \* the episodic store's connections, per id
  cur,        \* self._conn, 0 for None
  mine,       \* per thread, its local variable conn
  ready,      \* self._schema_ready
  schema,     \* the table exists
  episodes,   \* the threads whose session is in the table
  told,       \* what write_memory_node reported of the session
  faults

\* History: threads whose uncommitted episode was undone by another thread.
VARIABLE undone

slots == <<tool, free>>
store == <<conns, cur, mine, ready, schema, episodes>>
control == <<pc, phase>>
vars == <<control, slots, search, store, told, faults, undone>>

\* Ids are used again; at most one per thread and the current one are in use.
Conns == 1..(Cardinality(Threads) + 1)
Fresh == [tx |-> "idle", rows |-> {}, ddl |-> FALSE]

Go(t, where) == pc' = [pc EXCEPT ![t] = where]
Enter(t, node, where) == /\ phase' = [phase EXCEPT ![t] = node]
                         /\ Go(t, where)
Fault == faults < MaxFaults /\ faults' = faults + 1

-----------------------------------------------------------------------------
(* Postgres under psycopg2, as episodic.py uses it.                        *)

\* The connection's transaction ends, and what it has not committed is gone.
Discard(k, tx) ==
  /\ conns' = [conns EXCEPT ![k] = [Fresh EXCEPT !.tx = tx]]
  /\ undone' = undone \cup conns[k].rows

Runs(k) == conns[k].tx \in {"idle", "open"}

\* A statement that raises: in an aborted transaction every one does.
Fails(k, valid) ==
  \/ /\ ~Runs(k)
     /\ UNCHANGED <<conns, undone, faults>>
  \/ /\ Runs(k) /\ ~valid
     /\ Discard(k, "failed") /\ UNCHANGED faults
  \/ /\ Runs(k) /\ Fault
     /\ \E tx \in {"failed", "closed"} : Discard(k, tx)

\* COMMIT of an aborted transaction rolls it back, and psycopg2 says nothing.
Commit(k) ==
  /\ conns[k].tx # "closed"
  /\ schema' = (schema \/ conns[k].ddl)
  /\ episodes' = episodes \cup conns[k].rows
  /\ conns' = [conns EXCEPT ![k] = Fresh]
  /\ UNCHANGED <<undone, faults>>

\* The connection is lost under COMMIT, which the server carries out or not.
CommitFails(k) ==
  \/ /\ conns[k].tx = "closed"
     /\ UNCHANGED <<conns, undone, faults, schema, episodes>>
  \/ /\ conns[k].tx # "closed" /\ Fault
     /\ Discard(k, "closed")
     /\ \/ UNCHANGED <<schema, episodes>>
        \/ schema' = (schema \/ conns[k].ddl) /\ episodes' = episodes \cup conns[k].rows

TableSeen(k) == schema \/ conns[k].ddl

-----------------------------------------------------------------------------
(* EpisodicMemoryStore, for read_memory (retrieve_episodes) and            *)
(* write_memory (save_episode).                                            *)

\* Mutant of Raised: memory is read again, on the same transaction.
RaisedRetries(t) ==
  IF phase[t] = "read"
  THEN Go(t, "ensure") /\ UNCHANGED <<phase, told>>
  ELSE /\ Go(t, "idle") /\ told' = [told EXCEPT ![t] = "failed"]
       /\ UNCHANGED phase

\* An exception leaves the store: memory_tool rolls back, memory_node reports.
Raised(t) ==
  IF phase[t] = "read"
  THEN Go(t, "rollback") /\ UNCHANGED <<phase, told>>
  ELSE /\ Go(t, "idle") /\ told' = [told EXCEPT ![t] = "failed"]
       /\ UNCHANGED phase

Open(k) == k # 0 /\ conns[k].tx # "closed"

InUse(t) == {cur} \cup {mine[o] : o \in Threads \ {t}}

\* _ensure_schema
Ensure(t) ==
  /\ pc[t] = "ensure"
  /\ Go(t, IF ready THEN "get" ELSE "get_ddl")
  /\ UNCHANGED <<phase, slots, search, store, told, faults, undone>>

Then == [get |-> "execute", get_ddl |-> "ddl", open |-> "execute", open_ddl |-> "ddl"]

\* _get_connection finds a connection, or begins to open one.
GetConnection(t) ==
  /\ pc[t] \in {"get", "get_ddl"}
  /\ IF Open(cur)
     THEN Go(t, Then[pc[t]]) /\ mine' = [mine EXCEPT ![t] = cur]
     ELSE Go(t, IF pc[t] = "get" THEN "open" ELSE "open_ddl") /\ UNCHANGED mine
  /\ UNCHANGED <<phase, slots, search, conns, cur, ready, schema, episodes,
                 told, faults, undone>>

\* Two threads that found none open one each; the later is kept.
Connect(t) ==
  /\ pc[t] \in {"open", "open_ddl"}
  /\ \/ /\ LET k == CHOOSE i \in Conns : i \notin InUse(t)
           IN  /\ conns' = [conns EXCEPT ![k] = Fresh]
               /\ cur' = k /\ mine' = [mine EXCEPT ![t] = k]
        /\ Go(t, Then[pc[t]])
        /\ UNCHANGED <<phase, told, faults>>
     \/ Fault /\ Raised(t) /\ UNCHANGED <<conns, cur, mine>>
  /\ UNCHANGED <<slots, search, ready, schema, episodes, undone>>

\* init_schema: the DDL, its commit, the rollback of its failure.
CreateSchema(t) ==
  /\ pc[t] = "ddl"
  /\ \/ /\ Runs(mine[t])
        /\ conns' = [conns EXCEPT ![mine[t]].tx = "open", ![mine[t]].ddl = TRUE]
        /\ Go(t, "ddl_commit") /\ UNCHANGED <<faults, undone>>
     \/ Fails(mine[t], TRUE) /\ Go(t, "ddl_rollback")
  /\ UNCHANGED <<phase, slots, search, cur, mine, ready, schema, episodes, told>>

CommitSchema(t) ==
  /\ pc[t] = "ddl_commit"
  /\ \/ Commit(mine[t]) /\ ready' = TRUE /\ Go(t, "get")
     \/ CommitFails(mine[t]) /\ Go(t, "ddl_rollback") /\ UNCHANGED ready
  /\ UNCHANGED <<phase, slots, search, cur, mine, told>>

\* Mutant of Healed: the transaction is left as it is.
HealedNever(k) == conns[k].tx

Healed(k) == "idle"

\* conn.rollback(): whoever's statements the transaction holds.
Rollback(k) ==
  \/ Open(k) /\ Discard(k, Healed(k)) /\ UNCHANGED faults
  \/ Open(k) /\ Fault /\ Discard(k, "closed")
  \/ ~Open(k) /\ UNCHANGED <<conns, undone, faults>>

RollbackSchema(t) ==
  /\ pc[t] = "ddl_rollback"
  /\ Rollback(mine[t])
  /\ Raised(t)
  /\ UNCHANGED <<slots, search, cur, mine, ready, schema, episodes>>

\* retrieve_episodes: the transaction that SELECT begins is left open.
Select(t) ==
  /\ pc[t] = "execute" /\ phase[t] = "read"
  /\ \/ /\ Runs(mine[t]) /\ TableSeen(mine[t])
        /\ conns' = [conns EXCEPT ![mine[t]].tx = "open"]
        /\ Go(t, "dispatch") /\ UNCHANGED <<phase, told, faults, undone>>
     \/ Fails(mine[t], TableSeen(mine[t])) /\ Raised(t)
  /\ UNCHANGED <<slots, search, cur, mine, ready, schema, episodes>>

\* MemoryRetrievalTool.search rolls the store back and goes on without episodes.
RollbackRead(t) ==
  /\ pc[t] = "rollback"
  /\ Rollback(cur)
  /\ Go(t, "dispatch")
  /\ UNCHANGED <<phase, slots, search, cur, mine, ready, schema, episodes, told>>

\* save_episode: a failing INSERT leaves the transaction as it is.
Insert(t) ==
  /\ pc[t] = "execute" /\ phase[t] = "write"
  /\ \/ /\ Runs(mine[t]) /\ TableSeen(mine[t])
        /\ conns' = [conns EXCEPT ![mine[t]].tx = "open", ![mine[t]].rows = @ \cup {t}]
        /\ Go(t, "commit") /\ UNCHANGED <<phase, told, faults, undone>>
     \/ Fails(mine[t], TableSeen(mine[t])) /\ Raised(t)
  /\ UNCHANGED <<slots, search, cur, mine, ready, schema, episodes>>

\* Mutant of CommitEpisode: nothing is committed.
CommitEpisodeLeftOpen(t) ==
  /\ pc[t] = "commit"
  /\ Go(t, "idle") /\ told' = [told EXCEPT ![t] = "promoted"]
  /\ UNCHANGED <<phase, slots, search, store, faults, undone>>

CommitEpisode(t) ==
  /\ pc[t] = "commit"
  /\ \/ /\ Commit(mine[t])
        /\ Go(t, "idle") /\ told' = [told EXCEPT ![t] = "promoted"] /\ UNCHANGED phase
     \/ CommitFails(mine[t]) /\ Raised(t)
  /\ UNCHANGED <<slots, search, cur, mine, ready>>

-----------------------------------------------------------------------------
(* sub_task_worker under its ToolSlot, and VectorRetrievalTool.search.     *)

\* A run is over, or goes on to write_memory; promote_session may skip it.
Leave(t) == \/ Enter(t, "write", "ensure")
            \/ Go(t, "idle") /\ UNCHANGED phase

\* Mutant of Release: a tool that raises keeps its slot.
ReleaseOnReturn(t, how) ==
  IF how = "returned" THEN [free EXCEPT ![tool[t]] = @ + 1] ELSE free

\* ToolSlot.__exit__, for how the block is left.
Release(t, how) ==
  IF how = "timeout" THEN free ELSE [free EXCEPT ![tool[t]] = @ + 1]

\* Mutant of Dispatch: the result of the first try is ignored.
DispatchUnchecked(t) ==
  /\ pc[t] = "dispatch"
  /\ \/ \E u \in Tools :
          /\ tool' = [tool EXCEPT ![t] = u]
          /\ free' = [free EXCEPT ![u] = @ - 1] /\ Go(t, "running")
          /\ UNCHANGED phase
     \/ Leave(t) /\ UNCHANGED slots
  /\ UNCHANGED <<search, store, told, faults, undone>>

\* acquire_tool_slot's first, non-blocking try; or no retrieval is planned.
Dispatch(t) ==
  /\ pc[t] = "dispatch"
  /\ \/ \E u \in Tools :
          /\ tool' = [tool EXCEPT ![t] = u]
          /\ IF free[u] > 0
             THEN free' = [free EXCEPT ![u] = @ - 1] /\ Go(t, "running")
             ELSE Go(t, "waiting") /\ UNCHANGED free
          /\ UNCHANGED phase
     \/ Leave(t) /\ UNCHANGED slots
  /\ UNCHANGED <<search, store, told, faults, undone>>

\* Its second try is let in by a release ...
Woken(t) ==
  /\ pc[t] = "waiting" /\ free[tool[t]] > 0
  /\ free' = [free EXCEPT ![tool[t]] = @ - 1] /\ Go(t, "running")
  /\ UNCHANGED <<phase, tool, search, store, told, faults, undone>>

\* Mutant of MayTimeOut: the second try blocks without a timeout.
MayTimeOutNever(t) == FALSE

\* ... or given up after MAX_WAIT_SECONDS, which looks at the value once more.
MayTimeOut(t) == free[tool[t]] = 0

TimeOut(t) ==
  /\ pc[t] = "waiting" /\ MayTimeOut(t)
  /\ free' = Release(t, "timeout") /\ tool' = [tool EXCEPT ![t] = "none"]
  /\ Leave(t)
  /\ UNCHANGED <<search, store, told, faults, undone>>

\* VectorRetrievalTool.search: the envelope reports a failure, and nobody
\* rolls it back.
Search ==
  \/ search \in {"none", "idle", "open"} /\ search' = "open" /\ UNCHANGED faults
  \/ search \in {"none", "idle", "open"} /\ Fault /\ search' \in {"failed", "none"}
  \/ search = "failed" /\ UNCHANGED <<search, faults>>

\* The tool returns, with success or without.
Return(t) ==
  /\ pc[t] = "running"
  /\ IF tool[t] = "vector_retrieval" THEN Search ELSE UNCHANGED <<search, faults>>
  /\ free' = Release(t, "returned") /\ tool' = [tool EXCEPT ![t] = "none"]
  /\ Leave(t)
  /\ UNCHANGED <<store, told, undone>>

\* A malformed payload raises in the block, and ends the run.
Raise(t) ==
  /\ pc[t] = "running"
  /\ free' = Release(t, "raised") /\ tool' = [tool EXCEPT ![t] = "none"]
  /\ Go(t, "idle")
  /\ UNCHANGED <<phase, search, store, told, faults, undone>>

-----------------------------------------------------------------------------

\* A new query begins; the episode of the last one is followed no longer.
Ask(t) ==
  /\ pc[t] = "idle"
  /\ Enter(t, "read", "ensure")
  /\ told' = [told EXCEPT ![t] = "none"]
  /\ episodes' = episodes \ {t} /\ undone' = undone \ {t}
  /\ mine' = [mine EXCEPT ![t] = 0]
  /\ UNCHANGED <<slots, search, conns, cur, ready, schema, faults>>

Init ==
  /\ pc = [t \in Threads |-> "idle"] /\ phase = [t \in Threads |-> "read"]
  /\ tool = [t \in Threads |-> "none"] /\ free = Limit
  /\ search = "none"
  /\ conns = [k \in Conns |-> Fresh] /\ cur = 0 /\ mine = [t \in Threads |-> 0]
  /\ ready = FALSE /\ schema \in BOOLEAN /\ episodes = {}
  /\ told = [t \in Threads |-> "none"] /\ faults = 0 /\ undone = {}

\* What a thread does without waiting for anyone.
Memory(t) ==
  \/ Ensure(t) \/ GetConnection(t) \/ Connect(t)
  \/ CreateSchema(t) \/ CommitSchema(t) \/ RollbackSchema(t)
  \/ Select(t) \/ RollbackRead(t) \/ Insert(t) \/ CommitEpisode(t)

Queue(t) == Dispatch(t) \/ Woken(t) \/ TimeOut(t)

Next == \E t \in Threads : Ask(t) \/ Memory(t) \/ Queue(t) \/ Return(t) \/ Raise(t)

\* Statements return and waits time out; a tool may hang for ever.
Fairness == \A t \in Threads : WF_vars(Memory(t)) /\ WF_vars(Queue(t))

Spec == Init /\ [][Next]_vars /\ Fairness

-----------------------------------------------------------------------------
(* Properties.                                                             *)

TypeOK ==
  /\ pc \in [Threads -> {"idle", "ensure", "get", "get_ddl", "open", "open_ddl", "ddl",
                         "ddl_commit", "ddl_rollback", "execute", "commit", "rollback",
                         "dispatch", "waiting", "running"}]
  /\ phase \in [Threads -> {"read", "write"}]
  /\ tool \in [Threads -> Tools \cup {"none"}]
  /\ free \in [Tools -> Nat]
  /\ search \in {"none", "idle", "open", "failed"}
  /\ conns \in [Conns -> [tx : {"idle", "open", "failed", "closed"},
                          rows : SUBSET Threads, ddl : BOOLEAN]]
  /\ cur \in Conns \cup {0} /\ mine \in [Threads -> Conns \cup {0}]
  /\ ready \in BOOLEAN /\ schema \in BOOLEAN
  /\ episodes \subseteq Threads /\ undone \subseteq Threads
  /\ told \in [Threads -> {"none", "promoted", "failed"}]
  /\ faults \in 0..MaxFaults

Holders(u) == {t \in Threads : pc[t] = "running" /\ tool[t] = u}

(* No slot of a tool is lost or made: the semaphore's value and the calls   *)
(* that run under it add up to the limit, however workers wait, time out,   *)
(* return or raise.                                                         *)
SlotsConserved == \A u \in Tools : free[u] + Cardinality(Holders(u)) = Limit[u]

(* A worker that queues for a slot gets it or is turned away, even when     *)
(* every holder hangs.  The comment on MAX_WAIT_SECONDS promises as much    *)
(* and more, see WaitersExecute.                                            *)
WaitersNotStalled == \A t \in Threads : pc[t] = "waiting" ~> pc[t] # "waiting"

(* The comment at concurrency.py:33-34: a waiter whose time is over executes *)
(* anyway, with a contention warning.  sub_task_worker fails the task        *)
(* instead (parallel_nodes.py:73), as test_parallelization.py:284 asks: one  *)
(* slot, one holder and one waiter refute it.                                *)
WaitersExecute ==
  [][\A t \in Threads : pc[t] = "waiting" /\ pc'[t] # "waiting" => pc'[t] = "running"]_vars

(* A session reported as promoted is in the table, unless another thread's  *)
(* failure or rollback ended the transaction both were in.                  *)
PromotedUnlessUndone ==
  \A t \in Threads : told[t] = "promoted" => t \in episodes \cup undone

(* A statement that fails while reading memory does not make the store      *)
(* unusable: if runs keep reading, the connection does not stay aborted.    *)
Aborted == cur # 0 /\ conns[cur].tx = "failed"
ReadsHeal == []<>(\E t \in Threads : pc[t] = "execute" /\ phase[t] = "read") => []<>~Aborted

(* Memory is context, not a condition: whatever the database does, a run    *)
(* that reads memory gets to its plan.                                      *)
MemoryDegrades ==
  \A t \in Threads : pc[t] = "ensure" /\ phase[t] = "read" ~> pc[t] = "dispatch"

(* An episode reported as promoted is durable.                              *)
PromotedIsDurable == \A t \in Threads : told[t] = "promoted" => t \in episodes
=============================================================================
