----------------------------- MODULE AgentGraph -----------------------------
(***************************************************************************)
(* The LangGraph orchestrator of agent/graph.py: one conversation thread,  *)
(* the nodes of the graph, the routers on its edges, the Send fan-out, the *)
(* human-in-the-loop gate, and the queries that are submitted one after    *)
(* another on the thread.                                                  *)
(*                                                                         *)
(* One action is one node together with the router on its outgoing edge:   *)
(* LangGraph applies a node's update and evaluates the router on the       *)
(* updated state before the next superstep starts.  The parallel workers   *)
(* of one fan-out are one action each, since they run concurrently; their  *)
(* updates reach the state together, when the superstep ends.              *)
(*                                                                         *)
(* Data is abstracted to what the routers, the risk engine and the         *)
(* synthesizer tell apart: an envelope says whether the tool failed,       *)
(* returned nothing, text only, or a figure, and how severe the risk       *)
(* engine finds it.  Lists whose order no property is about are sets.      *)
(***************************************************************************)
EXTENDS Naturals, FiniteSets

CONSTANTS LLMProposals,   \* the plans the planner model may emit, valid or not
          EditPlans,      \* the tool_calls lists a reviewer may send with EDIT
          Anchored,       \* TRUE when the caller supplies a record_id
          RecursionLimit, \* LangGraph's bound on the supersteps of one invoke
          MaxQueries,     \* bound: queries submitted on the thread
          MaxEdits        \* bound: EDIT verdicts given to one query

MAX_ITERATIONS == 3

\* Mutant of MAX_GRAPH_ITERATIONS: the second constant drifts from the first.
DriftedMaxIterations == 4

\* The same limit, defined a second time in synthesize_node.py.
MAX_GRAPH_ITERATIONS == 3

RetrievalTools == {"graph_retrieval", "vector_retrieval"}
FanOutTools == RetrievalTools \cup {"table_extract"}
Tools == FanOutTools \cup {"safe_math"}

\* A sub-task as the planners describe it; refs are the task_N.amount
\* references in a safe_math expression, well_formed is FALSE when the payload
\* carries a fiscal year that is not an integer.
Task == [task_id : Nat, tool : Tools, deps : SUBSET Nat,
         refs : SUBSET Nat, well_formed : BOOLEAN]

Call == [task_id : Nat, tool : Tools, deps : SUBSET Nat, refs : SUBSET Nat,
         well_formed : BOOLEAN, status : {"PENDING", "COMPLETED"}]

DataKinds == {"error", "empty", "text", "amount"}
Severities == {"NONE", "MEDIUM", "HIGH"}
Finding == [data : DataKinds, severity : Severities]

Harmless(d) == [data |-> d, severity |-> "NONE"]
Failure == Harmless("error")

\* What a tool call can come back with, as the risk engine will judge it: a
\* failed call (the tool's own failure or no concurrency slot in time), no
\* rows, rows.  Only graph rows and math results carry figures it can find
\* HIGH, only chunks a similarity it can find MEDIUM; table rows it never reads.
Findings(tool) ==
  {Failure} \cup
  CASE tool = "vector_retrieval" ->
         {Harmless("empty"), Harmless("text"),
          [data |-> "text", severity |-> "MEDIUM"]}
    [] tool = "graph_retrieval" ->
         {Harmless("empty"), Harmless("text"), Harmless("amount"),
          [data |-> "amount", severity |-> "HIGH"]}
    [] tool = "table_extract" -> {Harmless("empty"), Harmless("text")}
    [] OTHER -> {Harmless("amount"), [data |-> "amount", severity |-> "HIGH"]}

\* A result envelope; query is the ordinal of the query it was produced for.
Envelope == [task_id : Nat, tool : Tools, finding : Finding, query : Nat]

ASSUME InputsAssumption ==
  /\ LLMProposals \subseteq SUBSET Task
  /\ EditPlans \subseteq SUBSET Call
  /\ \A p \in LLMProposals \cup EditPlans : IsFiniteSet(p)
  /\ Anchored \in BOOLEAN
  /\ RecursionLimit \in Nat
  /\ MaxQueries \in Nat \ {0}
  /\ MaxEdits \in Nat

VARIABLES
  run,      \* "running", "suspended", "finished", "crashed", "out_of_steps"
  next,     \* the node of the next superstep
  steps,    \* supersteps executed by the current invoke
  query,    \* ordinal of the query being answered
  iteration_count, tool_calls, tool_results, sub_task_results,
  hitl_status, risk_evaluated, final_answer, is_terminal,
  dispatched, \* calls sent to workers that have not returned yet
  writes,     \* envelopes of workers that have returned in this superstep
  episodes    \* what write_memory promoted: [query, answer]

\* History variables, read by the properties only.
VARIABLES
  inspected, \* envelopes the risk engine has read for this query
  released,  \* envelopes a reviewer had before them when releasing this query
  approved,  \* a reviewer answered APPROVE in this query
  edits,     \* EDIT verdicts given in this query
  edited,    \* task ids a reviewer has put on the queue in this query
  cited      \* the evidence the synthesized answer was built from

graph == <<run, next, steps>>
state == <<iteration_count, tool_calls, tool_results, sub_task_results,
           hitl_status, risk_evaluated, final_answer, is_terminal>>
workers == <<dispatched, writes>>
history == <<inspected, released, approved, edits, edited, cited>>
vars == <<graph, query, state, workers, episodes, history>>

-----------------------------------------------------------------------------
(* The reducers and the queries over the state that the nodes share.       *)

Ids(S) == {x.task_id : x \in S}

Pending(calls, tools) == {c \in calls : c.status = "PENDING" /\ c.tool \in tools}

\* Mutant of Extend: failed envelopes are dropped.
ExtendWithSuccesses(left, right) == left \cup {e \in right : e.finding # Failure}

\* append_tool_results, the reducer of tool_results.
Extend(left, right) == left \cup right

\* merge_sub_task_results: the right envelope of a task replaces the left one.
Merge(left, right) == {e \in left : e.task_id \notin Ids(right)} \cup right

HasPayload(e) == e.finding.data \in {"text", "amount"}

\* tool_results plus the sub_task_results it has no envelope for: what fusion
\* and synthesis read.  The risk engine reads tool_results alone.
AllEnvelopes ==
  tool_results \cup
  {e \in sub_task_results :
     ~ \E r \in tool_results : r.task_id = e.task_id /\ r.tool = e.tool}

\* Mutant of HasResult: a failed call has no result and is tried again.
HasUsableResult(c) == \E e \in sub_task_results : e.task_id = c.task_id /\ HasPayload(e)

\* A call is completed by any envelope of its task, failed or not.
HasResult(c) == c.task_id \in Ids(sub_task_results)

\* Mutant of Evidence: text alone does not count as evidence.
EvidenceOfFigures == {e \in AllEnvelopes : e.finding.data = "amount"}

\* The envelopes that count as evidence for an answer.
Evidence == {e \in AllEnvelopes : e.tool # "table_extract" /\ HasPayload(e)}

\* The value of task_N.amount: looked up in sub_task_results, then in
\* tool_results.
HasAmount(id) ==
  \E e \in sub_task_results \cup tool_results :
     e.task_id = id /\ e.finding.data = "amount"

Resolved(c) == \A r \in c.refs : HasAmount(r)

EnvelopeOf(c, f) ==
  [task_id |-> c.task_id, tool |-> c.tool, finding |-> f, query |-> query]

-----------------------------------------------------------------------------
(* Plans.                                                                  *)

T(id, tool, deps) ==
  [task_id |-> id, tool |-> tool, deps |-> deps,
   refs |-> IF tool = "safe_math" THEN deps ELSE {}, well_formed |-> TRUE]

\* decompose_query: a vector task that anchors the filing, then one graph task
\* (driver and lookup questions), or two operands and their quotient or change.
RulePlans ==
  LET lookup == {T(1, "vector_retrieval", {}), T(2, "graph_retrieval", {1})}
  IN  {lookup,
       lookup \cup {T(3, "graph_retrieval", {1}), T(4, "safe_math", {2, 3})}}

\* _validate_llm_plan, and the rejection of an empty plan.
ValidPlan(p) ==
  /\ p # {}
  /\ Ids(p) = 1..Cardinality(p)
  /\ \A t \in p : t.deps \subseteq 1..(t.task_id - 1)
  /\ (\E t \in p : t.tool = "safe_math") =>
       \E t \in p : t.tool \in RetrievalTools

\* task_table, which plan_node adds to every anchored plan.  It and
\* task_program are 0, the number no task_N.amount of a plan names.
TableTask == T(0, "table_extract", {})

Queue(p) ==
  {[task_id |-> t.task_id, tool |-> t.tool, deps |-> t.deps, refs |-> t.refs,
    well_formed |-> t.well_formed, status |-> "PENDING"] :
     t \in p \cup (IF Anchored THEN {TableTask} ELSE {})}

-----------------------------------------------------------------------------
(* The routers.                                                            *)

\* Mutant of Ready: a call waits for dependencies that have failed.
ReadyOnSuccess(calls) ==
  {c \in Pending(calls, FanOutTools) :
     c.deps \subseteq Ids({e \in sub_task_results : HasPayload(e)})}

\* The pending retrieval calls whose dependencies all have a result, failed
\* or not.
Ready(calls) ==
  {c \in Pending(calls, FanOutTools) : c.deps \subseteq Ids(sub_task_results)}

\* Mutant of FanOutRouter: with nothing to run it answers without governance.
FanOutRouterUngoverned(calls) ==
  /\ dispatched' = Ready(calls)
  /\ next' = IF Ready(calls) # {} THEN "sub_task_worker"
             ELSE IF Pending(calls, {"safe_math"}) # {} THEN "compute"
             ELSE "synthesize_answer"

\* fan_out_router: Send the ready calls to workers, else name the next node.
FanOutRouter(calls) ==
  /\ dispatched' = Ready(calls)
  /\ next' = IF Ready(calls) # {} THEN "sub_task_worker"
             ELSE IF Pending(calls, {"safe_math"}) # {} THEN "compute"
             ELSE IF tool_results # {} THEN "fuse_context"
             ELSE "synthesize_answer"

\* Mutants of RouteAfterAggregate: governance is bypassed; it is bypassed once
\* it has run.
RouteAfterAggregateUngoverned ==
  IF tool_results # {} THEN "synthesize_answer" ELSE "eval_risk"
RouteAfterAggregateOnce ==
  IF tool_results = {} THEN "eval_risk"
  ELSE IF risk_evaluated THEN "synthesize_answer" ELSE "fuse_context"

RouteAfterAggregate == IF tool_results # {} THEN "fuse_context" ELSE "eval_risk"

\* Mutant of RouteAfterRisk: arithmetic before the retrieval still pending.
RouteAfterRiskMathFirst(status) ==
  IF status = "PENDING" THEN "hitl_gate"
  ELSE IF Pending(tool_calls, {"safe_math"}) # {} THEN "compute"
  ELSE IF Pending(tool_calls, RetrievalTools) # {} THEN "fan_out_router_node"
  ELSE "synthesize_answer"

RouteAfterRisk(status) ==
  IF status = "PENDING" THEN "hitl_gate"
  ELSE IF Pending(tool_calls, RetrievalTools) # {} /\ status = "APPROVED"
       THEN "fan_out_router_node"
  ELSE IF Pending(tool_calls, {"safe_math"}) # {} THEN "compute"
  ELSE "synthesize_answer"

RouteAfterCompute == IF risk_evaluated THEN "synthesize_answer" ELSE "eval_risk"

\* Mutants of RouteAfterOverride: APPROVE ends the run without an answer;
\* APPROVE resumes the retrieval; REJECT is not told apart.
RouteAfterOverrideEnds ==
  IF hitl_status = "EDIT" THEN "synthesize_answer" ELSE "write_memory"
RouteAfterOverrideRetrieves ==
  IF is_terminal THEN "write_memory"
  ELSE IF Pending(tool_calls, RetrievalTools) # {} THEN "fan_out_router_node"
  ELSE IF Pending(tool_calls, {"safe_math"}) # {} THEN "compute"
  ELSE "synthesize_answer"
RouteAfterOverrideComputes ==
  IF hitl_status = "EDIT" /\ Pending(tool_calls, RetrievalTools) # {}
  THEN "fan_out_router_node"
  ELSE IF Pending(tool_calls, {"safe_math"}) # {} THEN "compute"
  ELSE IF final_answer = "none" THEN "synthesize_answer"
  ELSE "write_memory"

RouteAfterOverride ==
  IF is_terminal \/ hitl_status = "REJECT" THEN "write_memory"
  ELSE IF hitl_status = "EDIT" /\ Pending(tool_calls, RetrievalTools) # {}
       THEN "fan_out_router_node"
  ELSE IF hitl_status = "EDIT" /\ final_answer = "none" THEN "synthesize_answer"
  ELSE IF Pending(tool_calls, {"safe_math"}) # {} THEN "compute"
  ELSE IF final_answer = "none" THEN "synthesize_answer"
  ELSE "write_memory"

\* Mutant of RouteAfterSynthesize: every answer is refined.
RouteAfterSynthesizeLoops(terminal) == "plan"

RouteAfterSynthesize(terminal) ==
  IF terminal \/ iteration_count >= MAX_ITERATIONS THEN "write_memory" ELSE "plan"

-----------------------------------------------------------------------------
(* The nodes.                                                              *)

\* A node runs in a superstep of its own while the invoke has supersteps left.
Superstep(node) ==
  /\ run = "running"
  /\ next = node
  /\ steps < RecursionLimit
  /\ steps' = steps + 1

ReadMemory ==
  /\ Superstep("read_memory")
  /\ next' = "plan"
  /\ UNCHANGED <<run, query, state, workers, episodes, history>>

\* plan_node: with results on the thread and no answer it keeps the queue it
\* has; otherwise it replaces the queue by an accepted LLM plan, or by the
\* rules when there is no such plan.
Plan ==
  /\ Superstep("plan")
  /\ iteration_count' = iteration_count + 1
  /\ risk_evaluated' = FALSE
  /\ IF tool_results # {} /\ final_answer = "none"
     THEN tool_calls' = tool_calls
     ELSE \E p \in {q \in LLMProposals : ValidPlan(q)} \cup RulePlans :
            tool_calls' = Queue(p)
  /\ FanOutRouter(tool_calls')
  /\ UNCHANGED <<run, query, tool_results, sub_task_results, hitl_status,
                 final_answer, is_terminal, writes, episodes, history>>

FanOutRouterNode ==
  /\ Superstep("fan_out_router_node")
  /\ FanOutRouter(tool_calls)
  /\ UNCHANGED <<run, query, state, writes, episodes, history>>

\* sub_task_worker: one dispatched call runs to its envelope.
Worker(c) ==
  /\ run = "running" /\ next = "sub_task_worker" /\ steps < RecursionLimit
  /\ ~(c.tool = "graph_retrieval" /\ ~c.well_formed)
  /\ dispatched' = dispatched \ {c}
  /\ \E f \in Findings(c.tool) : writes' = writes \cup {EnvelopeOf(c, f)}
  /\ UNCHANGED <<graph, query, state, episodes, history>>

\* GraphQueryInput rejects a year that is not an integer: the exception leaves
\* the worker and ends the invoke, and the superstep's writes are not applied.
WorkerRaises(c) ==
  /\ run = "running" /\ next = "sub_task_worker" /\ steps < RecursionLimit
  /\ c.tool = "graph_retrieval" /\ ~c.well_formed
  /\ run' = "crashed"
  /\ dispatched' = {} /\ writes' = {}
  /\ UNCHANGED <<next, steps, query, state, episodes, history>>

\* The superstep of the workers ends when all have returned: LangGraph applies
\* their updates through the reducers.
WorkersDone ==
  /\ Superstep("sub_task_worker")
  /\ dispatched = {}
  /\ tool_results' = Extend(tool_results, writes)
  /\ sub_task_results' = Merge(sub_task_results, writes)
  /\ writes' = {}
  /\ next' = "aggregate_sub_tasks"
  /\ UNCHANGED <<run, query, iteration_count, tool_calls, hitl_status,
                 risk_evaluated, final_answer, is_terminal, dispatched,
                 episodes, history>>

Aggregate ==
  /\ Superstep("aggregate_sub_tasks")
  /\ tool_calls' = {IF HasResult(c) THEN [c EXCEPT !.status = "COMPLETED"] ELSE c :
                    c \in tool_calls}
  /\ next' = RouteAfterAggregate
  /\ UNCHANGED <<run, query, iteration_count, tool_results, sub_task_results,
                 hitl_status, risk_evaluated, final_answer, is_terminal,
                 workers, episodes, history>>

FuseContext ==
  /\ Superstep("fuse_context")
  /\ next' = "eval_risk"
  /\ UNCHANGED <<run, query, state, workers, episodes, history>>

\* FinancialRiskEngine.evaluate_state over tool_results: a HIGH reason always
\* escalates; figures may be outliers of one another; three MEDIUM reasons
\* reach the composite ceiling unless they coincide and are deduplicated.
MustEscalate == \E e \in tool_results : e.finding.severity = "HIGH"

MayEscalate ==
  \/ \E e \in tool_results : e.finding.data = "amount"
  \/ Cardinality({e \in tool_results : e.finding.severity = "MEDIUM"}) >= 3

EvalRisk ==
  /\ Superstep("eval_risk")
  /\ \E requires_hitl \in BOOLEAN :
       /\ MustEscalate => requires_hitl
       /\ requires_hitl => MayEscalate
       /\ hitl_status' = IF requires_hitl THEN "PENDING" ELSE "APPROVED"
  /\ risk_evaluated' = TRUE
  /\ inspected' = tool_results
  /\ next' = RouteAfterRisk(hitl_status')
  /\ UNCHANGED <<run, query, iteration_count, tool_calls, tool_results,
                 sub_task_results, final_answer, is_terminal, workers, episodes,
                 released, approved, edits, edited, cited>>

\* hitl_gate_node up to interrupt(): the invoke returns, the thread stays in
\* the checkpointer with hitl_gate next.
HitlGate ==
  /\ run = "running" /\ next = "hitl_gate" /\ steps < RecursionLimit
  /\ run' = "suspended"
  /\ UNCHANGED <<next, steps, query, state, workers, episodes, history>>

\* Command(resume): a new invoke re-executes hitl_gate with the verdict; what
\* is neither APPROVE nor EDIT fails closed to REJECT; EDIT may replace the
\* queue.
Resume(verdict) ==
  /\ run = "suspended"
  /\ run' = "running"
  /\ steps' = 1
  /\ next' = "apply_override"
  /\ hitl_status' = IF verdict \in {"APPROVE", "EDIT"} THEN verdict ELSE "REJECT"
  /\ verdict = "EDIT" => edits < MaxEdits
  /\ edits' = IF verdict = "EDIT" THEN edits + 1 ELSE edits
  /\ \/ UNCHANGED <<tool_calls, edited>>
     \/ /\ verdict = "EDIT"
        /\ \E calls \in EditPlans : /\ tool_calls' = calls
                                    /\ edited' = edited \cup Ids(calls)
  /\ released' = IF verdict \in {"APPROVE", "EDIT"} THEN tool_results ELSE released
  /\ approved' = (approved \/ verdict = "APPROVE")
  /\ UNCHANGED <<query, iteration_count, tool_results, sub_task_results,
                 risk_evaluated, final_answer, is_terminal, workers, episodes,
                 inspected, cited>>

ApplyOverride ==
  /\ Superstep("apply_override")
  /\ IF hitl_status = "REJECT"
     THEN final_answer' = "rejected" /\ is_terminal' = TRUE
     ELSE UNCHANGED <<final_answer, is_terminal>>
  /\ next' = RouteAfterOverride
  /\ UNCHANGED <<run, query, iteration_count, tool_calls, tool_results,
                 sub_task_results, hitl_status, risk_evaluated, workers,
                 episodes, history>>

\* compute_node runs every pending safe_math against the state it started
\* from, and takes all of them off the queue.  An expression with a reference
\* left unresolved fails in tool_results alone.
Compute ==
  LET math == Pending(tool_calls, {"safe_math"}) IN
  /\ Superstep("compute")
  /\ \A c \in tool_calls : c.tool \in RetrievalTools => c.well_formed
  /\ \E f \in [math -> Findings("safe_math")] :
       LET executed == {EnvelopeOf(c, f[c]) : c \in {m \in math : Resolved(m)}}
           skipped == {EnvelopeOf(c, Failure) : c \in {m \in math : ~Resolved(m)}}
       IN  /\ tool_results' = Extend(tool_results, executed \cup skipped)
           /\ sub_task_results' = Merge(sub_task_results, executed)
  /\ tool_calls' = tool_calls \ math
  /\ next' = RouteAfterCompute
  /\ UNCHANGED <<run, query, iteration_count, hitl_status, risk_evaluated,
                 final_answer, is_terminal, workers, episodes, history>>

\* int(year) on the payload of any retrieval call still on the queue.
ComputeRaises ==
  /\ run = "running" /\ next = "compute" /\ steps < RecursionLimit
  /\ \E c \in tool_calls : c.tool \in RetrievalTools /\ ~c.well_formed
  /\ run' = "crashed"
  /\ UNCHANGED <<next, steps, query, state, workers, episodes, history>>

\* The answer a program computed over the extracted table, entered as a result
\* of safe_math.  Its expression is all numerals, so that only as an outlier
\* among other figures can it escalate a later query.
ProgramResult ==
  [task_id |-> TableTask.task_id, tool |-> "safe_math",
   finding |-> Harmless("amount"), query |-> query]

\* synthesize_node: an answer from the evidence there is, an honest refusal at
\* the iteration limit, else a critique that asks for another iteration.  With
\* a table in hand the answer may be a program's (ProgramMode has the details).
Synthesize ==
  LET outcome == IF Evidence # {} THEN "synthesised"
                 ELSE IF iteration_count >= MAX_GRAPH_ITERATIONS
                      THEN "insufficient"
                 ELSE "none"
  IN
  /\ Superstep("synthesize_answer")
  /\ final_answer' = IF outcome = "none" THEN final_answer ELSE outcome
  /\ is_terminal' = (outcome # "none")
  /\ cited' = IF outcome = "synthesised"
              THEN {e \in AllEnvelopes : HasPayload(e)} ELSE cited
  /\ \/ UNCHANGED tool_results
     \/ /\ outcome = "synthesised"
        /\ \E e \in AllEnvelopes : e.tool = "table_extract" /\ HasPayload(e)
        /\ tool_results' = Extend(tool_results, {ProgramResult})
  /\ next' = RouteAfterSynthesize(outcome # "none")
  /\ UNCHANGED <<run, query, iteration_count, tool_calls, sub_task_results,
                 hitl_status, risk_evaluated, workers, episodes, inspected,
                 released, approved, edits, edited>>

\* write_memory_node: promote_session, whose failure is swallowed, then END.
WriteMemory ==
  /\ Superstep("write_memory")
  /\ \/ /\ final_answer # "none" \/ sub_task_results # {}
        /\ episodes' = episodes \cup {[query |-> query, answer |-> final_answer]}
     \/ UNCHANGED episodes
  /\ is_terminal' = TRUE
  /\ run' = "finished"
  /\ next' = "END"
  /\ UNCHANGED <<query, iteration_count, tool_calls, tool_results,
                 sub_task_results, hitl_status, risk_evaluated, final_answer,
                 workers, history>>

\* GraphRecursionError: supersteps are left to run and the invoke has none.
OutOfSteps ==
  /\ run = "running"
  /\ steps >= RecursionLimit
  /\ run' = "out_of_steps"
  /\ UNCHANGED <<next, steps, query, state, workers, episodes, history>>

\* A further query on the same thread_id, once the last invoke has returned.
\* The routes pass a fresh AgentStateV1: plain fields start over, and the
\* reducers of tool_results and sub_task_results merge the empty defaults into
\* what the checkpoint holds.
NewQuery ==
  /\ run # "running"
  /\ query < MaxQueries
  /\ query' = query + 1
  /\ run' = "running" /\ next' = "read_memory" /\ steps' = 0
  /\ iteration_count' = 0
  /\ tool_calls' = {}
  /\ hitl_status' = "NONE"
  /\ risk_evaluated' = FALSE
  /\ final_answer' = "none"
  /\ is_terminal' = FALSE
  /\ dispatched' = {} /\ writes' = {}
  /\ inspected' = {} /\ released' = {} /\ approved' = FALSE
  /\ edits' = 0 /\ edited' = {} /\ cited' = {}
  /\ UNCHANGED <<tool_results, sub_task_results, episodes>>

\* No further query comes: the thread rests.
Rest ==
  /\ run \notin {"running", "suspended"}
  /\ query = MaxQueries
  /\ UNCHANGED vars

Init ==
  /\ run = "running" /\ next = "read_memory" /\ steps = 0
  /\ query = 1
  /\ iteration_count = 0
  /\ tool_calls = {} /\ tool_results = {} /\ sub_task_results = {}
  /\ hitl_status = "NONE" /\ risk_evaluated = FALSE
  /\ final_answer = "none" /\ is_terminal = FALSE
  /\ dispatched = {} /\ writes = {}
  /\ episodes = {}
  /\ inspected = {} /\ released = {} /\ approved = FALSE
  /\ edits = 0 /\ edited = {} /\ cited = {}

\* What the LangGraph runtime does by itself once a query is submitted.
Step ==
  \/ ReadMemory \/ Plan \/ FanOutRouterNode
  \/ \E c \in dispatched : Worker(c) \/ WorkerRaises(c)
  \/ WorkersDone \/ Aggregate \/ FuseContext \/ EvalRisk \/ HitlGate
  \/ ApplyOverride \/ Compute \/ ComputeRaises \/ Synthesize \/ WriteMemory
  \/ OutOfSteps

Next ==
  \/ Step
  \/ \E verdict \in {"APPROVE", "REJECT", "EDIT", "OTHER"} : Resume(verdict)
  \/ NewQuery
  \/ Rest

Spec == Init /\ [][Next]_vars

\* The runtime runs an invoke to its end; reviewers and callers owe nothing.
FairSpec == Spec /\ WF_vars(Step)

-----------------------------------------------------------------------------
(* Properties.                                                             *)

(* Type invariant: AgentStateV1's fields and the runtime's.                *)
TypeOK ==
  /\ run \in {"running", "suspended", "finished", "crashed", "out_of_steps"}
  /\ next \in {"read_memory", "plan", "sub_task_worker", "aggregate_sub_tasks",
               "fan_out_router_node", "fuse_context", "eval_risk", "hitl_gate",
               "apply_override", "compute", "synthesize_answer",
               "write_memory", "END"}
  /\ steps \in Nat
  /\ query \in 1..MaxQueries
  /\ iteration_count \in 0..MAX_ITERATIONS
  /\ tool_calls \subseteq Call
  /\ tool_results \subseteq Envelope
  /\ sub_task_results \subseteq Envelope
  /\ hitl_status \in {"NONE", "PENDING", "APPROVED", "APPROVE", "REJECT", "EDIT"}
  /\ risk_evaluated \in BOOLEAN
  /\ final_answer \in {"none", "synthesised", "insufficient", "rejected"}
  /\ is_terminal \in BOOLEAN
  /\ dispatched \subseteq Call
  /\ writes \subseteq Envelope
  /\ episodes \subseteq [query : Nat,
                         answer : {"none", "synthesised", "insufficient", "rejected"}]
  /\ inspected \subseteq Envelope
  /\ released \subseteq Envelope
  /\ approved \in BOOLEAN
  /\ edits \in 0..MaxEdits
  /\ edited \subseteq Nat
  /\ cited \subseteq Envelope

\* Retrieved evidence that an answer may quote.
Retrieved(S) == {e \in S : e.tool \in RetrievalTools /\ HasPayload(e)}

(* Every retrieved row or chunk an answer was built from had been read by  *)
(* the risk engine in this query, on whatever path the routers took and    *)
(* also when it was left on the thread by an earlier query.                *)
EvidenceInspected ==
  final_answer = "synthesised" => Retrieved(cited) \subseteq inspected

(* A retrieved figure the risk engine finds HIGH reaches an answer only    *)
(* after a reviewer has answered APPROVE or EDIT with it in view.          *)
FlaggedEvidenceReleased ==
  final_answer = "synthesised" =>
    {e \in Retrieved(cited) : e.finding.severity = "HIGH"} \subseteq released

(* sub_task_results holds nothing that tool_results lacks: the risk engine *)
(* reads tool_results alone, synthesis reads both, and an envelope in only *)
(* the second would escape governance.                                     *)
ResultsMirrored == sub_task_results \subseteq tool_results

(* One APPROVE is enough: whatever the risk engine escalated on is evidence *)
(* to answer from, so an approved query never suspends a second time.  The  *)
(* evaluator's bounded auto-approval loop relies on it.                     *)
OneApprovalSuffices == run = "suspended" => ~approved

(* A run that reaches END has an answer, be it a refusal: the router's      *)
(* iteration limit and the synthesizer's, two constants in two files, agree.*)
FinishedHasAnswer == run = "finished" => final_answer # "none"

(* A rejection is final: from the verdict to the end of the query no tool   *)
(* runs, the verdict stands and the only answer is the rejection.           *)
RejectionIsFinal ==
  [][hitl_status = "REJECT" /\ query' = query =>
       /\ hitl_status' = "REJECT"
       /\ tool_results' = tool_results
       /\ final_answer' \in {"none", "rejected"}]_vars

(* A call whose task has a result is not dispatched again, whatever loop    *)
(* leads back to the fan-out, unless a reviewer put it on the queue.        *)
NoTaskRunsTwice ==
  [][Ids(dispatched' \ dispatched) \cap Ids(sub_task_results) \subseteq edited]_vars

(* safe_math runs only once every retrieval task it refers to has run: an   *)
(* unresolved reference means the retrieval found nothing.                  *)
MathSeesAllRetrieval ==
  next = "compute" =>
    \A m \in Pending(tool_calls, {"safe_math"}) :
      m.refs \cap Ids(Pending(tool_calls, RetrievalTools)) = {}

(* Every query gets an answer or waits for a reviewer: the self-correction  *)
(* loop is bounded and never ends in an error of the runtime.               *)
EveryQueryAnswered == run = "running" ~> run \in {"finished", "suspended"}

(* Once a reviewer has approved, the run ends with a synthesized answer.    *)
ApprovedRunAnswers ==
  approved ~> (run = "crashed" \/ (run = "finished" /\ final_answer = "synthesised"))

(* Figures computed by safe_math pass governance before they are answered.  *)
ComputedFiguresGoverned ==
  final_answer = "synthesised" =>
    {e \in cited : e.tool = "safe_math"} \subseteq inspected

(* An answer is built from evidence retrieved for its own query.            *)
EvidenceFromThisQuery ==
  final_answer = "synthesised" => \A e \in cited : e.query = query

(* The calls a reviewer put on the queue with EDIT are executed before the  *)
(* query is answered.                                                       *)
EditedCallsRun ==
  final_answer = "synthesised" =>
    ~ \E c \in tool_calls : /\ c.status = "PENDING"
                            /\ c.task_id \in edited
                            /\ c.deps \subseteq Ids(sub_task_results)

(* The runtime's superstep bound is never what stops a query.               *)
NeverOutOfSteps == run # "out_of_steps"

-----------------------------------------------------------------------------
(* What the graph promises of a thread, and the refinement mapping: the    *)
(* items are the retrieved envelopes an answer may quote, the flagged ones *)
(* those the risk engine finds HIGH.                                       *)

Items == Retrieved(Envelope)
Flagged == {e \in Items : e.finding.severity = "HIGH"}

Governed == INSTANCE GovernedQuery WITH
  phase <- run, held <- Retrieved(tool_results),
  inspected <- Retrieved(inspected), released <- Retrieved(released),
  rejected <- hitl_status = "REJECT", answer <- final_answer,
  cited <- Retrieved(cited)

(* The graph, whatever path its routers take, does what GovernedQuery      *)
(* allows: it asks a reviewer only with everything inspected, answers only *)
(* from what governance has passed, refuses only with nothing in hand, and *)
(* every step of every node is one of its steps or invisible to it.        *)
ImplementsGovernedQuery == Governed!Spec
=============================================================================
