---------------------------- MODULE AuditLedger ----------------------------
(***************************************************************************)
(* The audit ledger of agent/guardrails/audit.py and persistent_audit.py,  *)
(* as the governance nodes use it: one AUDIT_LEDGER object per process,    *)
(* called without a lock by every thread that runs a graph, and one        *)
(* Postgres table shared by all processes.                                 *)
(*                                                                         *)
(* An entry's hash covers its predecessor's hash and a fresh timestamp, so *)
(* it is modelled by the ordinal of the event, which no other entry has;   *)
(* GENESIS stands for sixty-four zeros.  The INSERT and its commit are one *)
(* step, which fails when the database is unreachable.                     *)
(***************************************************************************)
EXTENDS Naturals, Sequences, FiniteSets

CONSTANTS Processes,  \* gateway processes (replicas)
          Threads,    \* threads that run graphs, over all processes
          ProcessOf,  \* the process a thread belongs to
          UtcSession, \* the database session renders timestamps in UTC
          MaxEvents,  \* bound: governance events recorded
          MaxRestarts,\* bound: process restarts
          MaxOutages  \* bound: times the database becomes unreachable

ASSUME LedgerAssumption ==
  /\ ProcessOf \in [Threads -> Processes]
  /\ UtcSession \in BOOLEAN
  /\ MaxEvents \in Nat /\ MaxRestarts \in Nat /\ MaxOutages \in Nat

GENESIS == 0

\* A ledger entry: its index, its own hash and its predecessor's.
Entry == [index : Nat, hash : Nat, prev : Nat]

VARIABLES
  entries,            \* the in-memory chain of each process
  schema_initialized, \* _schema_initialized of each process
  db_available,       \* _db_available of each process
  pc,                 \* where each thread is: "idle", "tail", "make",
                      \* "append", "insert"
  tail,               \* the rows _load_tail returned to a thread: none or one
  entry,              \* the entry a thread has built
  rows,               \* the audit_ledger table
  db_up,              \* Postgres answers
  events,             \* events recorded or being recorded so far
  restarts, outages

\* History variables, read by the properties only.
VARIABLES
  returned,  \* entries record_transition has returned to its caller
  announced, \* entries whose absence from the table was announced on stdout
  boot,      \* the life of each process: the restart that began it
  origin,    \* the process, and its life, that recorded each event
  raced      \* the hashes of entries whose recordings overlapped in one process:
             \* one was made between the making and the appending of the other,
             \* or on a list no longer empty when its loaded tail came

local == <<pc, tail, entry>>
memory == <<entries, schema_initialized, db_available>>
database == <<rows, db_up, outages>>
told == <<returned, announced>>
lives == <<boot, origin>>
vars == <<memory, local, database, events, restarts, told, lives, raced>>

NoEntry == [index |-> 0, hash |-> 0, prev |-> GENESIS]

\* The rows without a row of a higher index: ORDER BY entry_index DESC LIMIT 1.
TailRows == {r \in rows : \A s \in rows : s.index <= r.index}

\* Mutants of NextIndex: the last element's index; the same, from zero on.
NextIndexOfLast(chain) == Len(chain) - 1
NextIndexLow(chain) == IF chain = <<>> THEN 0 ELSE Len(chain) - 1

\* index=len(self.entries).
NextIndex(chain) == Len(chain)

\* Mutant of PrevHash: the last row of the table.
PrevHashOfRow(chain) ==
  IF rows = {} THEN GENESIS ELSE (CHOOSE r \in TailRows : TRUE).hash

\* The last element's hash, or sixty-four zeros.
PrevHash(chain) == IF chain = <<>> THEN GENESIS ELSE chain[Len(chain)].hash

-----------------------------------------------------------------------------

\* A governance event: _ensure_audit_schema, once per process.  init_schema
\* decides for the life of the process whether there is a database; its failure
\* is announced as MEMORY-ONLY.
EnsureSchema(t) ==
  LET p == ProcessOf[t] IN
  /\ pc[t] = "idle"
  /\ events < MaxEvents
  /\ events' = events + 1
  /\ IF schema_initialized[p]
     THEN UNCHANGED <<schema_initialized, db_available>>
     ELSE /\ schema_initialized' = [schema_initialized EXCEPT ![p] = TRUE]
          /\ db_available' = [db_available EXCEPT ![p] = db_up]
  /\ entry' = [entry EXCEPT ![t] = [index |-> 0, hash |-> events', prev |-> GENESIS]]
  /\ pc' = [pc EXCEPT ![t] = "tail"]
  /\ origin' = Append(origin, <<p, boot[p]>>)
  /\ UNCHANGED <<entries, tail, database, restarts, told, boot, raced>>

\* record_transition on an empty list: _load_tail, whose failure is silent and
\* reads like an empty table.
LoadTail(t) ==
  LET p == ProcessOf[t] IN
  /\ pc[t] = "tail"
  /\ tail' = [tail EXCEPT ![t] =
                IF entries[p] = <<>> /\ db_available[p] /\ db_up
                THEN TailRows ELSE {}]
  /\ pc' = [pc EXCEPT ![t] = "make"]
  /\ UNCHANGED <<memory, entry, database, events, restarts, told, lives, raced>>

\* The threads that have made an entry for t's ledger and not yet appended it.
Appending(t) == {u \in Threads : ProcessOf[u] = ProcessOf[t] /\ pc[u] = "append"}

\* MerkleAuditLedger.record_transition: the index is the length of the list,
\* the predecessor its last element, after the loaded tail has been appended.
MakeEntry(t) ==
  LET p == ProcessOf[t] IN
  /\ pc[t] = "make"
  /\ \/ tail[t] = {} /\ UNCHANGED entries
     \/ \E r \in tail[t] : entries' = [entries EXCEPT ![p] = Append(@, r)]
  /\ entry' = [entry EXCEPT ![t] = [index |-> NextIndex(entries'[p]),
                                   hash |-> entry[t].hash,
                                   prev |-> PrevHash(entries'[p])]]
  /\ raced' = raced \cup {{entry[t].hash, entry[u].hash} : u \in Appending(t)}
                    \cup (IF tail[t] # {} /\ entries[p] # <<>>
                          THEN {{entry[t].hash}} ELSE {})
  /\ pc' = [pc EXCEPT ![t] = "append"]
  /\ UNCHANGED <<schema_initialized, db_available, tail, database, events,
                 restarts, told, lives>>

AppendEntry(t) ==
  LET p == ProcessOf[t] IN
  /\ pc[t] = "append"
  /\ entries' = [entries EXCEPT ![p] = Append(@, entry[t])]
  /\ pc' = [pc EXCEPT ![t] = "insert"]
  /\ UNCHANGED <<schema_initialized, db_available, tail, entry, database, events,
                 restarts, told, lives, raced>>

\* INSERT ... ON CONFLICT (entry_index) DO NOTHING.
InsertRow(e) ==
  rows' = IF \E r \in rows : r.index = e.index THEN rows ELSE rows \cup {e}

\* The entry goes to the table when the process has a database.  A failed
\* write is announced and the chain continues in memory; so is, once and for
\* all of its entries, a process that found no database when it started.  A
\* commit whose acknowledgement is lost is announced though the row is there.
Insert(t) ==
  LET p == ProcessOf[t] IN
  /\ pc[t] = "insert"
  /\ \/ /\ db_available[p] /\ db_up
        /\ InsertRow(entry[t])
        /\ UNCHANGED announced
     \/ /\ db_available[p]
        /\ ~db_up
        /\ announced' = announced \cup {entry[t]}
        /\ UNCHANGED rows
     \/ /\ db_available[p] /\ db_up /\ outages < MaxOutages
        /\ InsertRow(entry[t])
        /\ announced' = announced \cup {entry[t]}
     \/ /\ ~db_available[p]
        /\ announced' = announced \cup {entry[t]}
        /\ UNCHANGED rows
  /\ returned' = returned \cup {entry[t]}
  /\ pc' = [pc EXCEPT ![t] = "idle"]
  /\ UNCHANGED <<memory, tail, entry, db_up, outages, events, restarts, lives, raced>>

\* A process dies and is started again: its memory and its threads' work in
\* progress are lost.
Restart(p) ==
  /\ restarts < MaxRestarts
  /\ restarts' = restarts + 1
  /\ entries' = [entries EXCEPT ![p] = <<>>]
  /\ schema_initialized' = [schema_initialized EXCEPT ![p] = FALSE]
  /\ db_available' = [db_available EXCEPT ![p] = FALSE]
  /\ pc' = [t \in Threads |-> IF ProcessOf[t] = p THEN "idle" ELSE pc[t]]
  /\ boot' = [boot EXCEPT ![p] = restarts']
  /\ UNCHANGED <<tail, entry, database, events, told, origin, raced>>

DatabaseDown ==
  /\ db_up /\ outages < MaxOutages
  /\ db_up' = FALSE
  /\ outages' = outages + 1
  /\ UNCHANGED <<memory, local, rows, events, restarts, told, lives, raced>>

DatabaseUp ==
  /\ ~db_up
  /\ db_up' = TRUE
  /\ UNCHANGED <<memory, local, rows, outages, events, restarts, told, lives, raced>>

Init ==
  /\ entries = [p \in Processes |-> <<>>]
  /\ schema_initialized = [p \in Processes |-> FALSE]
  /\ db_available = [p \in Processes |-> FALSE]
  /\ pc = [t \in Threads |-> "idle"]
  /\ tail = [t \in Threads |-> {}]
  /\ entry = [t \in Threads |-> NoEntry]
  /\ rows = {}
  /\ db_up \in BOOLEAN
  /\ events = 0 /\ restarts = 0 /\ outages = 0
  /\ returned = {} /\ announced = {}
  /\ boot = [p \in Processes |-> 0] /\ origin = <<>> /\ raced = {}

Record(t) ==
  EnsureSchema(t) \/ LoadTail(t) \/ MakeEntry(t) \/ AppendEntry(t) \/ Insert(t)

Next ==
  \/ \E t \in Threads : Record(t)
  \/ \E p \in Processes : Restart(p)
  \/ DatabaseDown \/ DatabaseUp

Spec == Init /\ [][Next]_vars

-----------------------------------------------------------------------------
(* Properties.                                                             *)

(* Type invariant: the ledger objects, the threads' locals, the table.     *)
TypeOK ==
  /\ entries \in [Processes -> Seq(Entry)]
  /\ schema_initialized \in [Processes -> BOOLEAN]
  /\ db_available \in [Processes -> BOOLEAN]
  /\ pc \in [Threads -> {"idle", "tail", "make", "append", "insert"}]
  /\ tail \in [Threads -> SUBSET Entry]
  /\ entry \in [Threads -> Entry]
  /\ rows \subseteq Entry
  /\ db_up \in BOOLEAN
  /\ events \in 0..MaxEvents
  /\ restarts \in 0..MaxRestarts
  /\ outages \in 0..MaxOutages
  /\ returned \subseteq Entry
  /\ announced \subseteq Entry
  /\ boot \in [Processes -> 0..MaxRestarts]
  /\ origin \in Seq(Processes \X (0..MaxRestarts))
  /\ Len(origin) = events
  /\ raced \subseteq SUBSET Nat

(* "Audit gaps are announced loudly rather than silently"                   *)
(* (persistent_audit.py:16-17): an entry whose recording has returned is in *)
(* the table, or its absence has been announced.                            *)
NoSilentGap == returned \subseteq rows \cup announced

(* An entry is lost silently only to a row that has its index, and only     *)
(* when that row was recorded by another process, or before a restart, or   *)
(* by a thread whose recording overlapped with the entry's own: a process   *)
(* that records one event after another never drops one of its own life.    *)
SilentGapIsCollision ==
  \A e \in returned \ (rows \cup announced) :
    \E r \in rows : /\ r.index = e.index
                    /\ \/ origin[r.hash] # origin[e.hash]
                       \/ {r.hash, e.hash} \in raced

\* verify_integrity(from_db=True): every row follows the row below it, and its
\* hash is recomputed from columns of which only the timestamp may come back
\* different: TIMESTAMPTZ is read in the session's time zone.
Below(r) == {s \in rows : s.index < r.index}
VerifiesDurable ==
  \A r \in rows :
    /\ UtcSession
    /\ IF Below(r) = {} THEN r.prev = GENESIS
       ELSE \E s \in Below(r) : /\ \A q \in Below(r) : q.index <= s.index
                                /\ r.prev = s.hash

(* The durable chain cannot verify over a hole: when verification passes,   *)
(* every row but the first has its predecessor in the table, whatever was   *)
(* restarted, unreachable or recorded by other processes.  Only recordings  *)
(* that overlapped in one process can leave a hole no verification finds,   *)
(* next to an entry of theirs.                                              *)
VerifiedHasNoHole ==
  VerifiesDurable =>
    \A r \in rows : r.index > 0 =>
      \/ \E s \in rows : s.index + 1 = r.index
      \/ \E pair \in raced : pair \cap {r.hash, r.prev} # {}

(* "A restarted process continues the same hash chain (no fork at the       *)
(* genesis boundary)" (persistent_audit.py:53-54): as long as no gap has    *)
(* been announced, the durable chain verifies.                              *)
UnannouncedChainVerifies == announced = {} => VerifiesDurable
=============================================================================
