# Formal models of the financial reasoning agent

TLA+ models of this repository's agent, the TLC instances that check them and
TLAPS proofs about them. Every definition is translated from the Python source;
`PROJECT.json` ("map") names the lines each one stands for.

## 1. The system

A question goes to a FastAPI gateway, which runs a LangGraph graph on a
checkpointed thread. The graph plans sub-tasks, runs the retrieval tools in
parallel, evaluates financial risk over what came back, suspends for a human
reviewer when the risk is high, computes, and synthesizes an answer. Governance
events go to a hash-chained audit ledger, finished sessions to episodic memory.

| component | state it keeps | operations | hard behaviour | what makes it correct |
|---|---|---|---|---|
| Orchestrator (`agent/graph.py`, `state/schema.py`) | `AgentStateV1` in the checkpointer, the next node, the superstep count | nodes, routers, reducers, `interrupt` and resume, recursion limit | cycles; state kept by reducers over queries on one thread; verdicts that arrive between two retrieval waves | nothing is answered that governance has not seen; every query ends; a rejection is final |
| Fan-out and workers (`nodes/parallel_nodes.py`) | the queue `tool_calls`, the envelopes in `tool_results` and `sub_task_results` | dispatch of ready calls, worker, fan-in | parallel branches, failures, re-entry of the fan-out | no task runs twice; both result stores agree |
| Planner (`nodes/plan_node.py`, `tools/decomposer.py`) | none | LLM plan and its validation, rule plan, refinement | whatever the model proposes; a refinement that looks like a new query | accepted plans can be executed |
| Math (`nodes/compute_node.py`, `tools/safe_math.py`) | none | resolve references, evaluate, fail cleanly | references to tasks that have not run | arithmetic comes after the retrieval it needs |
| Synthesizer (`nodes/synthesize_node.py`, `program_validation.py`) | none | sufficiency, program mode (samples, vote, verifier, references into a table), grounding, refusal, critique | the iteration limit; whatever the model samples; references by text | no run ends without an answer or a refusal; a reference means the figure that was filed; answers are grounded |
| Risk engine and gate (`guardrails/risk_engine.py`, `nodes/hitl_nodes.py`) | `hitl_status`, `risk_evaluated` | evaluate, suspend, apply a verdict, edit the queue | unknown verdicts, repeated suspension | high risk reaches an answer only past a reviewer |
| Audit ledger (`guardrails/audit.py`, `persistent_audit.py`) | a list per process, a Postgres table shared by all | record, load the tail, insert, verify | threads and replicas without a lock, outages, restarts | gaps are announced; the chain verifies; verification finds holes |
| Memory (`memory/*`, `nodes/memory_node.py`, `tools/memory_tool.py`) | Postgres episodes over one connection per process, Redis working state | read, promote, save | one transaction shared by all threads, failures swallowed, statements without a rollback | memory never fails a query; what is reported as promoted is in the table |
| Tool slots (`nodes/concurrency.py`) | one bounded semaphore per tool | acquire with a timeout, release | timeout racing a release | the bound holds, no slot is lost |
| Gateway (`server/routes.py`) | `JOB_STORE`, `ACTIVE_THREADS` in memory, checkpoints in Redis or in memory | submit, poll, list approvals, inspect, resume | two runs on one thread, listing during a run, restart | a suspended thread can be found; what a client is told happened; every request is answered |
| Streaming (`server/streaming.py`) | a queue per request | worker thread, generator | last frame read from a later state | the client learns how the run ended |
| Sandbox (`agent/sandbox`) | a scratch directory | filter, run, time out | what outlives the timeout | nothing survives an execution |
| Retrieval tools (`agent/tools`) | one connection each | graph, vector and table queries, fusion | ladders of weaker queries; reads while the stores are being filled | results belong to the anchored filing and to the year asked for |
| Evaluation (`evaluation/`) | result files | run, auto-approve, score, gate | bounded auto-approval | a regression does not pass the gate |
| Telemetry (`agent/telemetry`) | counters, spans | quota guard | check-then-increment | the budget holds |
| Ingestion (`ingestion/`) | JSON files | parse, normalize | header detection done twice, by different rules | no figure and no sentence is lost; rows keep their place |
| Loaders (`ingestion/graph_loader.py`, `knowledge/vector_store/loader.py`) | Neo4j, pgvector | wipe, merge in batches, link, validate, upsert | commands cut short and run again, by other versions of the code | complete loads are exact; readers see reports whole |
| LLM client, MCP server, UI, infrastructure | — | adapters and deployment | — | not modelled |

How they interact: the gateway and the evaluator call `agent.invoke` or
`agent.stream` on a thread id; LangGraph runs nodes in supersteps and saves the
state after each; nodes call tools synchronously, workers of one fan-out
concurrently; the gate's nodes call the ledger object of their process; a resume
is a new invoke that executes the gate's node again with the verdict. All runs of
a process share its tool slots and its database connections. The loaders fill,
offline, the stores the tools read.

`PROJECT.json` lists the hazards of this code, each at its line, with the
property that covers it or the reason none does. The smaller ones did not make
the list: references of several calculations resolved against one state, and a
malformed year that raises (`compute_node.py:187`, `:194`, both in `AgentGraph`);
the ledger's shared connection and its list replaced during verification
(`persistent_audit.py:108`, `:205`, `:243`); check and increment of the trace quota
(`quota.py:51`); what outlives a docker timeout (`sandbox/runner.py:264`); metric
links that follow a synonym instead of the row's own label (`graph_loader.py`);
a schema that counts as ready although another thread's rollback has undone it
(`episodic.py:125`, in `WorkerProcess`);
sentence indices that do not count blank sentences (`text_chunker.py`).

## 2. Modules

| module | models | instances |
|---|---|---|
| `AgentGraph` | one conversation thread: every node, edge, router and reducer of the graph, parallel workers, the gate, queries submitted one after another, LangGraph's recursion limit | `MCAgentGraph` |
| `GovernedQuery` | what the graph promises of a thread, without nodes or plans: gather, inspect, suspend, release or reject, answer or refuse | through `AgentGraph!Governed` |
| `AgentGraphProofs` | theorems about `AgentGraph` | — |
| `AgentGraphRefinement` | `AgentGraph` implements `GovernedQuery` | — |
| `AuditLedger` | the ledger objects of several processes, used by several threads, and the table they share | `MCAuditLedger` |
| `AuditLedgerProofs` | theorems about `AuditLedger` | — |
| `Gateway` | the endpoints, the jobs, the streams and the registry of one gateway process, over the checkpoints of the threads; restarts | `MCGateway` |
| `GatewayProofs` | theorems about `Gateway` | — |
| `Extraction` | pure operators: header detection of parser and normaliser, columns and years, text windows, metric names, the loaders' payloads | — |
| `FilingPipeline` | one filing on its way through parser, normaliser and both loaders | `MCFilingPipeline` |
| `FilingPipelineProofs` | theorems about `Extraction` and `FilingPipeline` | — |
| `ProgramMode` | a question about a filing that went through `FilingPipeline`: the extracted table, cell references, samples, vote, verifier, grounding, fallback | `MCProgramMode` |
| `ProgramModeProofs` | theorems about `ProgramMode`, on top of those about the pipeline | — |
| `KnowledgeBase` | Neo4j and pgvector under loads that may be cut short and repeated, and the anchored graph query | `MCKnowledgeBase` |
| `KnowledgeBaseProofs` | theorems about `KnowledgeBase` | — |
| `WorkerProcess` | what the threads of one process share: tool slots, the vector client's connection, the episodic store's connection and transaction | `MCWorkerProcess` |
| `WorkerProcessProofs` | theorems about `WorkerProcess` | — |

### AgentGraph

Variables carry the names of the fields of `AgentStateV1` (`tool_calls`,
`tool_results`, `sub_task_results`, `hitl_status`, `risk_evaluated`,
`iteration_count`, `final_answer`, `is_terminal`). `run`, `next` and `steps` are
LangGraph's: whether an invoke is running, the node of the next superstep and the
supersteps it has used. `dispatched` and `writes` are the workers of a fan-out
that run and the envelopes of those that have returned. The variables under
"History" are read by properties only.

One action is one node with the router on its outgoing edge, because LangGraph
evaluates the router on the updated state before the next superstep. Workers of
one fan-out are an action each, in any order; `WorkersDone` applies their writes
through the reducers when the last has returned. `HitlGate` is the node up to
`interrupt()`, `Resume` the rest of it in the invoke that carries the verdict.
`WorkerRaises` and `ComputeRaises` are the two places where a malformed year ends
the invoke with an exception.

Abstractions. An envelope is its task, tool and a finding: what it holds (error,
empty, text, amount) and how severe the risk engine will judge it. Which finding a
tool returns is chosen freely. CRITICAL is counted with HIGH, both escalate. The
engine's statistics are a free choice between what it must do (escalate on HIGH)
and what it may do (outliers need figures, the composite ceiling needs three
MEDIUM reasons). `tool_calls`, `tool_results` and `sub_task_results` are sets: no
property is about their order. Queries on one thread follow one another; the
gateway does not enforce that, and concurrent invokes on one thread belong to the
gateway's model. Errors of the language model are not a case of their own: they
lead to the rule plan or to the template answer. When a table is in hand,
`Synthesize` may add the envelope of a program's result (`ProgramResult`), as program
mode does; how the program came about is `ProgramMode`'s subject. `cited` is all the
evidence in hand, which an answer is built from.

### GovernedQuery

The abstract specification keeps seven variables: the phase of the invoke, the
items on the thread, those the risk engine has read, those a reviewer has
released, the verdict, the answer and what it cites. The refinement mapping in
`AgentGraph` (`Governed`) takes the retrieved envelopes an answer may quote for the
items and those found HIGH for the flagged ones. `WorkersDone` gathers, `EvalRisk`
inspects, `HitlGate` suspends, `Resume` releases or rejects, `Synthesize` answers
or refuses; planning, routing, fusion, arithmetic and the critique are invisible.
It says more than the invariants do: a reviewer is asked only when everything on
the thread has been inspected, a refusal is given only with nothing in hand, a
rejected query does nothing but confirm the rejection. It says nothing about
arithmetic, whose results may be answered ungoverned (see the findings), and keeps
`held` across queries, because the code does.

### AuditLedger

One `record_transition` is five steps of a thread: `EnsureSchema` (once per
process), `LoadTail`, `MakeEntry` (index and predecessor are read), `AppendEntry`,
`Insert`. Nothing locks the ledger object, so threads interleave between all of
them. A hash is modelled by the ordinal of its event: SHA-256 over a fresh
timestamp is taken to be injective. INSERT and commit are one step. The transaction
that threads of one process share is not modelled here (`WorkerProcess` does it for
the episodic store). A restart empties the memory of a process and abandons what its
threads were doing; Postgres may go away and come back. `VerifiesDurable` is the
verification of the table: linkage, and each entry's hash recomputed from its columns.
The columns come back as they were written, except the timestamp, which Postgres
renders in the session's time zone; `UtcSession` says whether that is UTC. `boot`,
`origin` and `raced` are read by properties only: the life of each process, the process
and life that recorded an event, and the recordings that overlapped on one ledger
object. Left out is that `verify_integrity(from_db=True)` replaces the list while it
runs (`persistent_audit.py:243`), since nothing but tests calls it.

### Gateway

A request is a job (`query_async_endpoint`), a stream (`query_stream_endpoint`) or a
resume. The handlers are coroutines of one event loop, so what one does between two
awaits is one step; the graph runs beside it in worker threads, one per request, and
nothing keeps two of them off one conversation thread. A run of the graph is what the
gateway sees of `AgentGraph`: it writes a checkpoint after each superstep and
suspends, ends or raises. `ListApprovals` is the listing with its pruning of
`ACTIVE_THREADS`; `JobEnd` and `Forward` decide a job's status and a stream's closing
frame from a checkpoint read after the run. `Restart` forgets jobs, registry and runs
and takes Redis or a `MemorySaver` for its checkpoints, whichever it finds. `writer`
and `lost` are read by properties only: whose run wrote a thread's latest checkpoint,
and how a thread with something on it left the registry, by a `"restart"`, by a
listing that came `"early"`, before the run of an accepted request had begun, or by one
that saw the thread ended by another run (`"overtaken"`). Left out: frames that carry no answer, the
read-only endpoints, and what a verdict does to the run (in `AgentGraph`).

### Extraction, FilingPipeline and ProgramMode

A cell is what the regular expressions tell apart: blank, words, words that name a
period, the same with a date, digits inside words, a number, a percentage, one with a
decimal point repeated in brackets (`11.1% ( 11.1 % )`), a negative in FinQA's form (`-3 ( 3 )`,
`-0.3 ( 0.3 )`), one of two years. The parser judges how many rows are header with a
numeric test that drops other characters, and so reads `-3 ( 3 )` as -33 and cannot read
the repeated percentage; the normaliser matches the whole cell and reads it, but not the
negatives. `ParserNumeric` and `NormalizerNumeric` are the two sets, `HeaderDepth` and
`HeaderRows` what follows from them, and `GraphPayload` combines both, as
`build_graph_payload` does. `YearLabels` are labels that are bare numbers. A sentence has
ten letters or digits, four, or none; a window with fewer than ten in all is not
embedded. `Without` is a list with its blank items left out, as a
recursive function, because the prover knows nothing of `SelectSeq`. `FilingPipeline`
runs the commands in their order; a filing whose header rows have different lengths
ends its command (`NormalizeRaises`).

`ProgramMode` goes on from the loaded filing. `ExtractTable` is
`TableExtractionTool.extract`, its rows a set that names each one's place, `Rendered` the table the model sees, `ResolveCell` the
ladder of `_resolve_cell` (exact label or overlapping ones; exact header, overlapping
one, or the best by words, if any word matches). Labels overlap when the text of one is
part of the other's (`PartOf`, so `tax` overlaps `pretax`), share words by `ShareTerm`,
and end the expression of a reference when they hold an apostrophe (`Apostrophes`). The
vote counts values, not programs: `ValueOf` is what a program computes, to six decimals.
A sample is any program of a given set or none; samples
arrive in any order; `Vote` is `_generate_and_execute_program` after the last, with the
verifier selecting a candidate, writing its own program or failing. Values are
distinct per cell, so that reading the wrong cell always shows. The literals of the
prompt's worked examples are among those the verifier accepts, as in the code. A row
with a single figure resolves whatever header is asked for; when a row has one header
twice, the model sees the last figure and a reference means the first. The model is
assumed to be enabled and the table to be among the evidence; without them the
synthesizer goes where `fallback` goes.

### KnowledgeBase

A command is a sequence of transactions: batches of the wipe, batches of payloads, the
year links, the validation; or one batch of chunks per record. `Abort` ends it between
any two, and any version of the ingestion code may be run next. `Merge` is the Cypher
MERGE of `_merge_batch_tx` (creates what is missing, overwrites attributes, removes
nothing), `Delete` is DETACH DELETE. `Derived` is what a version derives from a record,
that is what `Extraction` computes. `Query` is the anchored ladder of `query_metrics` with its
RETURN DISTINCT: a figure comes once per company that filed the report and once per
relevance it has by the metrics its row is linked to (`Relevance`).
Abstractions: the vector loader's batches are one record each; labels stand for
normalised metric names; figures of one row are taken to differ in amount, so that no
two of them fall together; the limit of 150 records is not reached. A chunk's key is its
record with its section and index.

### WorkerProcess

A thread reads memory, asks for a slot, runs a tool and promotes its session. Each
statement, commit and rollback of `episodic.py` is a step, on the connection the
thread got from `_get_connection` and the transaction it shares with every other
thread. A statement in an aborted transaction raises, COMMIT of one rolls back
silently, a connection may be lost under any of them (`MaxFaults`). Two threads that
both find no connection open one each and the later is kept. The schema may be
missing although it counts as ready, after another thread's rollback. The shared
transaction also lets a thread read what another has not committed, which no property
depends on. The vector client never rolls back: once its transaction is aborted every
later search fails. `ToolSlot` is `Dispatch`, `Woken`, `TimeOut` and `Release`. An
episode is followed until its thread starts the next query.

## 3. What the runs check

All passing runs explore their instance completely, the longest in about two minutes:
`gateway_requests`, some 220,000 states and two temporal properties. The largest is
`audit_replicas`, with some 3.8 million states.

| run | instance | shows |
|---|---|---|
| `graph_rules` | plans of the rule decomposer, no LLM, no edits, `FairSpec` | `MathSeesAllRetrieval`, `EveryQueryAnswered`, `ApprovedRunAnswers` |
| `graph_llm` | every plan of up to two tasks, valid or not, and eight longer shapes; anchored, so the table task is on every queue | `FinishedHasAnswer`, `ResultsMirrored`, `OneApprovalSuffices`, `NoTaskRunsTwice` |
| `graph_thread` | two queries on one thread, two LLM plans, four queues a reviewer may put in place with EDIT, once per query | `TypeOK`; `EvidenceInspected` and `FlaggedEvidenceReleased` across queries and edits; `RejectionIsFinal`; the refinement `ImplementsGovernedQuery` |
| `audit_replicas` | two threads of one process and a second process, four events, an outage, a restart | `SilentGapIsCollision`, `VerifiedHasNoHole`, `TypeOK` |
| `gateway_requests` | two queries and a verdict on one thread, one restart, `FairSpec` | `SuspendedIsListed`, `ToldWhatHappened`, `EveryRequestAnswered`, `TypeOK` |
| `filing_corpus` | every table of two or three small rows in one, two or three columns, every text of up to four sentences; some of them asked about with three samples | `FiguresSurvive`, `SentencesCovered`, `PlacesKept`; `CitedIsFiled` from the raw filing to a program's operand; `VoteOverruledOnlyByVetted`; `TypeOK` |
| `knowledge_loads` | two records of one company, two versions of the code that disagree on one of them, three commands, one of them with a wipe | `CompleteLoadIsExact`, `OrphansOnlyFromTornWipe`, `ReportsAreWhole`, `AnchoredAnswers`, `VectorTableConverges`, `CommandsEnd`, `TypeOK` |
| `worker_runs` | two threads, one tool with one slot, one failing statement or connection | `SlotsConserved`, `PromotedUnlessUndone`, `WaitersNotStalled`, `ReadsHeal`, `MemoryDegrades`, `TypeOK` |

Where the code and what is said of it disagree, a run shows the disagreement:

| run | property | what happens |
|---|---|---|
| `graph_ungoverned_math` | `ComputedFiguresGoverned` | `risk_evaluated` is still set from the pass before `compute`, so the computed figure goes straight to synthesis (`graph.py:73`) |
| `audit_restart` | `UnannouncedChainVerifies` | after a restart the next index is 1, whatever the tail's was: entries are dropped without a word or link to one that is not there, though the chain "continues" by `persistent_audit.py:52` (`:154`) |
| `gateway_listing` | `PendingAwaitReview` | a thread between two supersteps has a next node too, so it is listed as waiting for a reviewer and can be resumed while it runs (`routes.py:234`) |
| `program_ungrounded` | `AnswerIsGrounded` | a sampled program with a literal the model made up wins the vote; nothing compares it with the evidence (`synthesize_node.py:217`) |

Further counterexamples are kept as configurations that are not among the runs;
`tlc -config <cfg> <module>` finds the property violated:

| configuration | module | property | what happens |
|---|---|---|---|
| `AgentGraph_livelock.cfg` | `MCAgentGraph` | `NeverOutOfSteps` | a retrieval that depends on a `safe_math` task is never ready; router and risk engine alternate until the recursion limit (`graph.py:54`) |
| `AgentGraph_dropped_retrieval.cfg` | `MCAgentGraph` | `MathSeesAllRetrieval` | APPROVE between two retrieval waves goes to `compute` and drops the second wave (`graph.py:106`) |
| `AgentGraph_dropped_edit.cfg` | `MCAgentGraph` | `EditedCallsRun` | an edited queue of `safe_math` calls is never executed (`graph.py:103`) |
| `AgentGraph_stale_evidence.cfg` | `MCAgentGraph` | `EvidenceFromThisQuery` | a second query on a thread is taken for a refinement and answered from the first one's evidence (`plan_node.py:162`) |
| `AuditLedger_threads.cfg` | `MCAuditLedger` | `NoSilentGap` | two writers (threads here, replicas likewise) take one index; ON CONFLICT DO NOTHING drops the second silently (`persistent_audit.py:180`) |
| `Gateway_pruned.cfg` | `MCGateway` | `MidRunKept` | the listing drops a thread whose run is under way, when it looks before the first checkpoint or after another run has ended the thread; the comment at `routes.py:262` says such threads are kept |
| `Worker_contention.cfg` | `MCWorkerProcess` | `WaitersExecute` | the comment at `concurrency.py:33` says that a worker whose wait is over executes anyway; `parallel_nodes.py:73` fails its task, as `test_parallelization.py:284` asks |
| `Worker_promoted.cfg` | `MCWorkerProcess` | `PromotedIsDurable` | another thread's rollback undoes an episode between its INSERT and its commit, and the commit says nothing (`episodic.py:190`); `memory_node.py:50` reports the session as promoted all the same |
| `Filing_negatives.cfg` | `MCFilingPipeline` | `NegativesSurvive` | `-3 ( 3 )`, FinQA's own form, is not matched and becomes no Value (`normalizer.py:42`), though the module's head promises accounting negatives (`:3`) |
| `Filing_source_row.cfg` | `MCFilingPipeline` | `SourceIndexIsOriginal` | parser and normaliser disagree on the header, and the row's place in the filing is off by one (`graph_loader.py:189`) |
| `Program_ambiguous.cfg` | `MCProgramMode` | `ReferenceIsUnambiguous` | a label that matches several rows is resolved to the first, where the docstring (`synthesize_node.py:81`) says that an ambiguous reference fails the program |

`graph_rules` and `AgentGraph_dropped_retrieval` check the same property: it holds for
the plans of the rules, which have one retrieval wave under their arithmetic, and
fails for a plan with two. `SilentGapIsCollision` (between whom an entry can be lost)
and `AuditLedger_threads` (that it is) are such a pair too, and so are `SuspendedIsListed`
and `Gateway_pruned`, `CitedIsFiled` and `Program_ambiguous`, `FiguresSurvive` and
`Filing_negatives`, `PlacesKept` and `Filing_source_row`, `PromotedUnlessUndone` and
`Worker_promoted`.

What the ledger promises is more than the code keeps ("gaps are announced", "restarts
never fork the chain"), in a deployment of one thread and one process already. The two
properties of `audit_replicas` are what does hold in every deployment: who can be the
cause of a silent loss, and which holes verification can overlook.

### Bounds

`RecursionLimit = 25` is LangGraph's default. Two iterations of the refinement
loop already repeat its control state and the limit allows all three. Plans of up
to two tasks are exhaustive; the longer ones are the shapes two tasks cannot have
(two waves, retrieval behind arithmetic, arithmetic over arithmetic, malformed
years, a wide fan-out, three MEDIUM findings). Two queries suffice for what a
query can leave for the next, since everything but the two reducers starts over.
`MaxEdits` bounds a reviewer who would edit for ever. In `graph_thread` queries
are not anchored to a filing, so that a program's result is never carried from one query
to the next there; `graph_llm` has it within one query, the proofs have both. The ledger's
counters (`MaxEvents`, `MaxRestarts`, `MaxOutages`) bound what the environment does; the
first collision needs two events and one restart or a second writer, the instances
go beyond that. The two threads of one process may be exchanged (`Pooled`). The model stops at its event bound, so deadlock is not checked
there; it is checked in every graph run and in `worker_runs`.

`Queries`, `Reviews` and `MaxRestarts` of `Gateway`: a race needs two runs on one
thread, and a third request to see what they left; threads do not influence one
another in the handlers, so one is enough. `MaxColumns` is 3 because the tests on
figures compare with a third of the columns; `Samples = 3` is the smallest number with
a majority, a tie and an agreement. `BatchSize = 1` puts a crash between any two
records; `WipeSize = 12` is the size of a full graph of one of the versions, so that a
wipe ends with an exactly full batch in some behaviours and spans several batches in
others. `MaxRuns = 3` allows a command that is cut short, another version's, and a
repetition. `MaxFaults = 1` in `worker_runs`: one failed statement aborts the shared
transaction, and every later statement on it fails without being counted. The models of gateway,
filing and stores stop at their bounds, so deadlock is not checked there.

### Fairness

`AgentGraph`'s `FairSpec` adds `WF_vars(Step)`: once an invoke is running LangGraph
executes superstep after superstep until it suspends, ends or fails, and every tool
call returns. Nothing is assumed of reviewers and callers: `Resume` and `NewQuery`
carry no fairness, and the liveness properties ask nothing that needs them.

`Gateway`'s `FairSpec`: worker threads run and the event loop wakes its coroutines
(`Run`, `Await` of each request). A run ends because `AgentGraph` bounds its supersteps;
`Superstep` itself carries no fairness. Clients, reviewers and restarts owe nothing.

`KnowledgeBase`: a command that is not killed goes on to its next transaction.

`WorkerProcess`: statements return and a wait for a slot times out (`Memory`, `Queue`).
`Return` carries no fairness, because a tool may hang; `WaitersNotStalled` holds all
the same, through the timeout.

## 4. What is proved

TLAPS checks each theorem for every value of the constants: any set of LLM plans
and edits, any recursion limit, any number of queries, processes, threads, tools,
slots, events, faults, restarts, outages, samples, filings, records, code versions
and aborted commands. Every safety invariant and action property of the passing
runs is stated by a theorem.

| theorem | property | needs |
|---|---|---|
| `AgentGraphProofs!TypeCorrect` | `TypeOK` | — |
| `GovernanceReadsEvidence` | `EvidenceInspected` | — |
| `FlaggedNeedsRelease` | `FlaggedEvidenceReleased` | — |
| `MirroredResults` | `ResultsMirrored` | — |
| `ApprovedOnce` | `OneApprovalSuffices` | — |
| `FinishedAnswered` | `FinishedHasAnswer` | — |
| `RejectionStands` | `RejectionIsFinal` | — |
| `TasksRunOnce` | `NoTaskRunsTwice` | — |
| `RulesComputeLast` | `MathSeesAllRetrieval` | plans of the rules, no edits |
| `AgentGraphRefinement!GraphImplementsGovernedQuery` | `ImplementsGovernedQuery` | — |
| `AuditLedgerProofs!TypeCorrect` | `TypeOK` | — |
| `SilentLossesExplained` | `SilentGapIsCollision` | — |
| `VerificationFindsHoles` | `VerifiedHasNoHole` | — |
| `GatewayProofs!TypeCorrect` | `TypeOK` | — |
| `SuspendedListed` | `SuspendedIsListed` | — |
| `ToldTheTruth` | `ToldWhatHappened` | — |
| `FilingPipelineProofs!TypeCorrect` | `TypeOK` | — |
| `NoFigureLost` | `FiguresSurvive` | — |
| `EverySentenceCovered` | `SentencesCovered` | — |
| `RowsInPlace` | `PlacesKept` | — |
| `ProgramModeProofs!PipelineKept` | the four above, while questions are answered | — |
| `VoteStands` | `VoteOverruledOnlyByVetted` | — |
| `CitationsAreFiled` | `CitedIsFiled` | — |
| `KnowledgeBaseProofs!TypeCorrect` | `TypeOK` | — |
| `OrphansExplained` | `OrphansOnlyFromTornWipe` | — |
| `ReportsWhole` | `ReportsAreWhole` | — |
| `LoadsAreExact` | `CompleteLoadIsExact` | — |
| `AnswersAnchored` | `AnchoredAnswers` | — |
| `VectorsConverge` | `VectorTableConverges` | — |
| `WorkerProcessProofs!TypeCorrect` | `TypeOK` | — |
| `SlotsAreConserved` | `SlotsConserved` | — |
| `PromotionsStand` | `PromotedUnlessUndone` | — |

### Assumptions

The constants are typed by `InputsAssumption`, `LedgerAssumption`,
`GatewayAssumption`, `ExtractionAssumption`, `FilingsAssumption`,
`ProgramAssumption`, `KnowledgeBaseAssumption` and `WorkerProcessAssumption`, which
TLC evaluates in the passing runs. Three of them say more than a type. Plans and
threads are finite. A filing has a first row, and no row is wider than `MaxColumns`,
which may be any number. What a version of the ingestion code derives from a record
(`Derived`) links figures and metrics only to rows it has made: `FilingPipeline!TypeOK`
says so of the code in this repository, and is proved of every filing.

The condition in the last column is one without which the property is false:
`AgentGraph_dropped_retrieval.cfg` shows it for a plan of the language model.

### The graph

None of the properties is inductive: each speaks of the moment an answer exists, and
what makes it true happened several nodes earlier. `IInv` states at each node what
must already have happened. `ControlInv` ties `final_answer`, `is_terminal` and a
rejection to the node the run has reached; `GovernanceInv` says at which nodes all
evidence has been inspected, and released if it was flagged, and rests on the two
result stores being mirrored: synthesis reads both, the risk engine one
(`AllEnvelopesIsToolResults`); `ApprovalInv` says that a query which was suspended
holds evidence, so that after an APPROVE the run goes on to an answer and never back
to the gate. `compute` may be entered before governance (the fan-out router goes
there when nothing can be fetched) and then leads to `eval_risk`; the invariant
distinguishes the two by `risk_evaluated`. `ComputeRetrievesNothing` closes the case
of the stale flag: what `compute` adds is not retrieved evidence, which is why
`EvidenceInspected` survives although `ComputedFiguresGoverned` does not.
`SynthesisRetrievesNothing` says the same of a program's result.

`DispatchInv` is what keeps a task from running twice: task ids are unique on the
queue, except where a reviewer wrote it, and no pending retrieval has a result,
except between the workers' return and the aggregation. `RulesInv` is the reason why
arithmetic waits in the plans of the rules and nowhere else: their retrieval has one
first wave of a vector search and the table, nothing it finds can escalate
(`OneSearchPasses`), so the run is at none of the nodes that would pass over a pending
retrieval (`Waiting # {} => next \in ...`). A plan of the language model whose first
wave asks the graph breaks `OneSearch`, and the property with it.

### The refinement

Under `IInv` each node that does more than stutter gets a lemma naming the abstract
step it takes (`WorkersDoneGathers`, `EvalRiskInspects`, `HitlGateSuspends`,
`ResumeDecides`, `ApplyOverrideConfirms`, `SynthesizeAnswers`, `WriteMemoryEnds`,
`FailureFails`, `NewQueryRefines`); `StepRefines` goes through the nodes. `Cleared` at
the entry of synthesis is what makes its step an `Answer`, `Inspected` at the gate
what makes suspending a `Suspend`.

### The ledger

With several writers the table is not a chain, and the list of a process need not be
one. `LinkInv` is what is left: hashes are unique, an entry's index is its predecessor's
plus one, or it is 1 (its predecessor was loaded at the start of a process), or one of
the two was recorded while another was; and two entries of one life of a process share an
index only if their recordings overlapped. `FreshInv` says that a hash not yet used names
nothing, `LifeInv` that a life which goes on has every entry it recorded below the length
of its list, `PlaceInv` what stands at the end of a list and what is about to be put
there. From them a table in which every row links to the one below has no hole but next
to an overlap, and `GapInv` keeps, for every entry that was lost, the row it was lost to.

### The gateway

`WriterInv` says that the request whose run wrote a thread's checkpoint is as far as
the checkpoint says; `MovedInv` that a run which has written has left a checkpoint;
`ListedInv` that a thread which is neither registered nor lost has nothing to wait for;
`QueueInv` what a stream's queue may hold at each point of
its run. `ToldWhatHappened` is an action property: the step that gives a client its
last word is compared with what the run did, and with what another run of the thread
did if that has moved the checkpoint; the queue's invariant is what makes the closing
frame come after the answer. Nothing is assumed of who wrote last.

### The pipeline and its questions

The commands are functions of the filing, so the invariant is short: what a command
wrote is what the commands in their order make of the filing. The work is in lemmas
about the operators, for tables and texts of any length. `WindowCovers` shows that
windows of three sentences with a stride of two leave no sentence out, down to the
last, `ProseCovered` lifts it to the chunks of a record: a sentence with enough letters
keeps every window it is in. `RichRowsAreData` and `PlainRowsAreHeader` compare the two
header detections, and `PlacesHold` puts them together: they agree when the second row is
rich in figures both tests read, or the third is and two rows of words precede it, which is
`PlacesKept`. `FiguresBound` says which row the normaliser may take away, which is
`FiguresSurvive`; that property excepts the negatives, which are lost wherever they
stand.
`ModeImplementsPipeline` carries all of it over to `ProgramMode`, where `CitedHolds`
goes from the raw filing through parser, normaliser, payload and extracted table to
the operand, and `VoteIsRight` from the samples to the answer.

### The stores

`IInv` of `KnowledgeBaseProofs` has a part for each way in which the graph can be
between two states. `WrittenInv` says that reports are whole for every version that
wrote them (a batch is one transaction), `FilersInv` that the company which filed a
report is one of those that such a version names, `OneVersionInv` that a graph which
only one version wrote holds nothing that version would not derive, `ProgressInv` and
`FinishedInv` that a load started on all records has each behind it or ahead of it,
and that the last pass leaves no year link missing. Exactness is the last two together:
nothing too much, nothing missing. A wipe that is cut short breaks `WrittenInv` and
leaves orphans, which is why these two speak of `torn`; a complete load repairs the
former. `AnchoredAnswers` needs no `torn`: the ladder returns figures of a report as
long as a company still reaches it (`LadderStops`). A figure comes twice by its relevance
only when its row is linked to the metric asked for and to another (`RelevanceIs`), or by
its companies, of which one version names one.

### The process

`SlotsConserved` is nearly inductive; `SlotInv` adds that a thread which waits for a
slot or holds one knows its tool, and three lemmas cover a thread that is no holder
(`Bystander`), one that becomes one (`Taken`) and one that ceases to be (`Returned`), by
counting the holders. `TypeInv` needs more: a thread that works on a connection has
one, and `Connect` always finds an id that nobody uses (`FreshId`: at most one per thread
and the current one are in use, and there is one more). The same fact is what
`PromotionsStand` rests on. Its invariant says that a thread about to commit finds its
episode on its own connection, in the table, or undone; `Remembered` is what every
statement, commit and rollback has in common: no episode leaves the place it was in
without a trace.

### Only model-checked

Liveness needs ENABLED, which the prover does not have: `EveryQueryAnswered`,
`ApprovedRunAnswers`, `EveryRequestAnswered`, `CommandsEnd`, `WaitersNotStalled`,
`ReadsHeal` and `MemoryDegrades` stay with TLC, on the instances of section 3. So do
the properties that the code violates: a counterexample needs no proof. What
the recursive functions of `Extraction` compute for every input would need induction
over data; the lemmas state what the proofs need of them (types, lengths, which
element is where) and the corpus of `filing_corpus` evaluates them.

## 5. Plan

1. done: `AgentGraph`, `AuditLedger`, their instances and proofs; `GovernedQuery`,
   checked and proved to be implemented by the graph.
2. done: `Gateway` with its streams; `WorkerProcess` (slots, the shared connections),
   proved type correct with its two main invariants.
3. done: `Extraction`, `FilingPipeline`, `ProgramMode` and `KnowledgeBase`: from the raw
   filing to the stores, and from the stores to the operand of a program.
4. done: every safety invariant and action property of the passing runs proved:
   `Gateway`, `FilingPipeline`, `ProgramMode` and `KnowledgeBase` with inductive
   invariants of their own, `NoTaskRunsTwice` and the arithmetic of the rules' plans
   for the graph.
5. next: abstract specifications of the ledger and of the stores, with the refinement
   proved (a table that is appended to; a set of reports that are whole).
6. later: value picking in `compute_node`, rank fusion, the ledger's shared connection
   with INSERT and commit split.

## 6. Not modelled

The LLM client, the MCP adapters, the Streamlit page, infrastructure and dataset
files hold no state the properties are about. No node calls the sandbox. The trace
quota is one comparison and one increment; the evaluator and its gate compare scores
and keep no state of their own; procedural memory is a similarity lookup. Prompts,
regular expressions of the decomposer, units and scales of amounts, risk scores, answer
texts and citations are data. Similarity search, rank fusion, embeddings and database
engines are external: their results are free choices.
