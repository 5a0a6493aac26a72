-------------------------- MODULE AgentGraphProofs --------------------------
(***************************************************************************)
(* Proofs about AgentGraph, for every set of LLM proposals, of reviewers'  *)
(* edits, every superstep bound and any number of queries on the thread.   *)
(***************************************************************************)
EXTENDS AgentGraph, FiniteSetTheorems, TLAPS

-----------------------------------------------------------------------------
(* What the helpers return.                                                *)

LEMMA FindingsTyped == \A tool \in Tools : Findings(tool) \subseteq Finding
  BY DEF Findings, Tools, FanOutTools, RetrievalTools, Finding, Failure,
         Harmless, DataKinds, Severities

\* A figure or a finding above NONE is evidence, whatever tool it came from.
LEMMA SevereIsEvidence ==
  ASSUME NEW tool \in Tools, NEW f \in Findings(tool),
         f.data = "amount" \/ f.severity # "NONE"
  PROVE  tool # "table_extract" /\ f.data \in {"text", "amount"}
  BY DEF Findings, Tools, FanOutTools, RetrievalTools, Failure, Harmless

LEMMA TypedT ==
  ASSUME NEW id \in Nat, NEW tool \in Tools, NEW deps \in SUBSET Nat
  PROVE  T(id, tool, deps) \in Task
  BY DEF T, Task

LEMMA RulePlansTyped == RulePlans \subseteq SUBSET Task
<1>1. /\ T(1, "vector_retrieval", {}) \in Task
      /\ T(2, "graph_retrieval", {1}) \in Task
      /\ T(3, "graph_retrieval", {1}) \in Task
      /\ T(4, "safe_math", {2, 3}) \in Task
  BY TypedT DEF Tools, FanOutTools, RetrievalTools
<1> QED BY <1>1, Zenon DEF RulePlans

LEMMA QueueTyped ==
  ASSUME NEW p \in SUBSET Task
  PROVE  Queue(p) \in SUBSET Call
<1>1. TableTask \in Task
  BY TypedT DEF TableTask, Tools, FanOutTools
<1> QED BY <1>1 DEF Queue, Task, Call

LEMMA EnvelopeTyped ==
  ASSUME TypeOK, NEW c \in Call, NEW f \in Findings(c.tool)
  PROVE  EnvelopeOf(c, f) \in Envelope
<1>1. query \in Nat
  BY InputsAssumption DEF TypeOK
<1>2. f \in Finding
  BY FindingsTyped DEF Call
<1> QED BY <1>1, <1>2 DEF EnvelopeOf, Envelope, Call

\* Synthesis adds at most the result of a program, which is no retrieval.
LEMMA SynthesisAdds ==
  ASSUME TypeOK, Synthesize
  PROVE  \E added \in SUBSET Envelope :
           /\ \A e \in added : /\ e.tool = "safe_math"
                               /\ e.finding \in Findings("safe_math")
           /\ tool_results' = tool_results \cup added
<1>1. query \in Nat
  BY InputsAssumption DEF TypeOK
<1>2. /\ ProgramResult \in Envelope
      /\ ProgramResult.tool = "safe_math"
      /\ ProgramResult.finding \in Findings("safe_math")
  BY <1>1 DEF ProgramResult, TableTask, T, Envelope, Tools, Finding, DataKinds,
              Severities, Harmless, Findings
<1>3. \/ tool_results' = tool_results \cup {}
      \/ tool_results' = tool_results \cup {ProgramResult}
  BY DEF Synthesize, Extend
<1>4. CASE tool_results' = tool_results \cup {}
  BY <1>4
<1>5. CASE tool_results' = tool_results \cup {ProgramResult}
  BY <1>2, <1>5
<1> QED BY <1>3, <1>4, <1>5

\* The nodes a fan-out can lead to.
LEMMA FanOutTargets ==
  ASSUME NEW calls \in SUBSET Call, FanOutRouter(calls)
  PROVE  /\ dispatched' \in SUBSET Call
         /\ next' \in {"sub_task_worker", "compute", "fuse_context",
                       "synthesize_answer"}
         /\ next' = "synthesize_answer" => tool_results = {}
  BY DEF FanOutRouter, Ready, Pending

-----------------------------------------------------------------------------
(* Type correctness.                                                       *)

\* iteration_count stays within its limit because plan, which increments it,
\* is entered only below the limit.
TypeInv ==
  /\ TypeOK
  /\ next = "read_memory" => iteration_count = 0
  /\ next = "plan" => iteration_count < MAX_ITERATIONS

LEMMA TypeInvInit == Init => TypeInv
<1> SUFFICES ASSUME Init PROVE TypeInv
  OBVIOUS
<1> USE DEF Init
<1>1. risk_evaluated \in BOOLEAN /\ is_terminal \in BOOLEAN /\ approved \in BOOLEAN
  BY Zenon
<1>2. query \in 1..MaxQueries /\ edits \in 0..MaxEdits /\ steps \in Nat
  BY InputsAssumption
<1>3. iteration_count = 0 /\ iteration_count \in 0..MAX_ITERATIONS
  BY DEF MAX_ITERATIONS
<1>4. next = "read_memory" /\ next # "plan"
  OBVIOUS
<1> QED BY <1>1, <1>2, <1>3, <1>4 DEF TypeInv, TypeOK

LEMMA TypeInvStep == TypeInv /\ [Next]_vars => TypeInv'
<1> SUFFICES ASSUME TypeInv, [Next]_vars PROVE TypeInv'
  OBVIOUS
<1> USE DEF TypeInv, TypeOK, MAX_ITERATIONS, graph, state, workers, history, vars,
        Superstep
<1>1. CASE ReadMemory BY <1>1 DEF ReadMemory
<1>2. CASE Plan
  <2>1. tool_calls' \in SUBSET Call
    BY <1>2, QueueTyped, RulePlansTyped, InputsAssumption DEF Plan
  <2>2. FanOutRouter(tool_calls')
    BY <1>2 DEF Plan
  <2>3. /\ dispatched' \in SUBSET Call
        /\ next' \in {"sub_task_worker", "compute", "fuse_context",
                      "synthesize_answer"}
    BY <2>1, <2>2, FanOutTargets
  <2>4. risk_evaluated' \in BOOLEAN
    BY <1>2, Zenon DEF Plan
  <2>5. iteration_count' \in 0..MAX_ITERATIONS
    BY <1>2 DEF Plan
  <2> QED BY <1>2, <2>1, <2>3, <2>4, <2>5 DEF Plan
<1>3. CASE FanOutRouterNode
  <2>1. /\ dispatched' \in SUBSET Call
        /\ next' \in {"sub_task_worker", "compute", "fuse_context",
                      "synthesize_answer"}
    BY <1>3, FanOutTargets DEF FanOutRouterNode
  <2> QED BY <1>3, <2>1 DEF FanOutRouterNode
<1>4. ASSUME NEW c \in dispatched, Worker(c) PROVE TypeInv'
  <2>1. writes' \in SUBSET Envelope
    BY <1>4, EnvelopeTyped DEF Worker
  <2> QED BY <1>4, <2>1 DEF Worker
<1>5. ASSUME NEW c \in dispatched, WorkerRaises(c) PROVE TypeInv'
  BY <1>5 DEF WorkerRaises
<1>6. CASE WorkersDone BY <1>6 DEF WorkersDone, Extend, Merge
<1>7. CASE Aggregate
  <2>1. tool_calls' \in SUBSET Call
    BY <1>7 DEF Aggregate, Call
  <2> QED BY <1>7, <2>1 DEF Aggregate, RouteAfterAggregate
<1>8. CASE FuseContext BY <1>8 DEF FuseContext
<1>9. CASE EvalRisk BY <1>9 DEF EvalRisk, RouteAfterRisk
<1>10. CASE HitlGate BY <1>10 DEF HitlGate
<1>11. CASE ApplyOverride
  <2>1. is_terminal' \in BOOLEAN
    BY <1>11, Zenon DEF ApplyOverride
  <2>2. next' \in {"fan_out_router_node", "compute", "synthesize_answer",
                   "write_memory"}
    BY <1>11 DEF ApplyOverride, RouteAfterOverride
  <2> QED BY <1>11, <2>1, <2>2 DEF ApplyOverride
<1>12. CASE Compute
  <2> DEFINE math == Pending(tool_calls, {"safe_math"})
  <2>1. \A c \in math : c \in Call /\ c.tool = "safe_math"
    BY DEF Pending
  <2>2. PICK f \in [math -> Findings("safe_math")] :
          /\ tool_results' = Extend(tool_results,
               {EnvelopeOf(c, f[c]) : c \in {m \in math : Resolved(m)}} \cup
               {EnvelopeOf(c, Failure) : c \in {m \in math : ~Resolved(m)}})
          /\ sub_task_results' = Merge(sub_task_results,
               {EnvelopeOf(c, f[c]) : c \in {m \in math : Resolved(m)}})
    BY <1>12 DEF Compute
  <2>3. Failure \in Findings("safe_math")
    BY DEF Findings
  <2>4. \A c \in math : /\ EnvelopeOf(c, f[c]) \in Envelope
                        /\ EnvelopeOf(c, Failure) \in Envelope
    BY <2>1, <2>3, EnvelopeTyped
  <2>5. tool_results' \in SUBSET Envelope /\ sub_task_results' \in SUBSET Envelope
    <3> HIDE DEF math
    <3> QED BY <2>2, <2>4 DEF Extend, Merge
  <2> QED BY <1>12, <2>5 DEF Compute, RouteAfterCompute
<1>13. CASE ComputeRaises BY <1>13 DEF ComputeRaises
<1>14. CASE Synthesize
  <2>1. cited' \in SUBSET Envelope
    BY <1>14 DEF Synthesize, AllEnvelopes
  <2>2. tool_results' \in SUBSET Envelope
    BY <1>14, SynthesisAdds
  <2> QED BY <1>14, <2>1, <2>2 DEF Synthesize, RouteAfterSynthesize
<1>15. CASE WriteMemory
  <2>1. query \in Nat
    BY InputsAssumption
  <2> QED BY <1>15, <2>1 DEF WriteMemory
<1>16. CASE OutOfSteps BY <1>16 DEF OutOfSteps
<1>17. ASSUME NEW verdict, Resume(verdict) PROVE TypeInv'
  <2>1. tool_calls' \in SUBSET Call /\ edited' \in SUBSET Nat
    BY <1>17, InputsAssumption DEF Resume, Ids, Call
  <2> QED BY <1>17, <2>1, InputsAssumption DEF Resume
<1>18. CASE NewQuery
  <2>1. /\ risk_evaluated' \in BOOLEAN
        /\ is_terminal' \in BOOLEAN
        /\ approved' \in BOOLEAN
    BY <1>18, Zenon DEF NewQuery
  <2>2. query' \in 1..MaxQueries /\ edits' \in 0..MaxEdits
    BY <1>18, InputsAssumption DEF NewQuery
  <2> QED BY <1>18, <2>1, <2>2 DEF NewQuery
<1>19. CASE Rest BY <1>19 DEF Rest
<1>20. CASE UNCHANGED vars BY <1>20
<1> QED
  BY <1>1, <1>2, <1>3, <1>4, <1>5, <1>6, <1>7, <1>8, <1>9, <1>10, <1>11, <1>12,
     <1>13, <1>14, <1>15, <1>16, <1>17, <1>18, <1>19, <1>20 DEF Next, Step

(* Every reachable state has the types of AgentStateV1 and of the runtime, *)
(* and iteration_count never passes MAX_ITERATIONS.                        *)
THEOREM TypeCorrect == Spec => []TypeOK
<1>1. TypeInv => TypeOK
  BY DEF TypeInv
<1> QED BY <1>1, TypeInvInit, TypeInvStep, PTL DEF Spec

-----------------------------------------------------------------------------
(* The inductive invariant behind the governance properties.  None of them *)
(* is inductive by itself: what an answer quotes depends on the path to    *)
(* synthesis, so the invariant says of every node what must have happened  *)
(* before it is entered.                                                   *)

\* Retrieved figures the risk engine finds HIGH.
High(S) == {e \in Retrieved(S) : e.finding.severity = "HIGH"}

\* Everything retrieved has been read by the risk engine, and what it finds
\* HIGH released by a reviewer.
Inspected == Retrieved(tool_results) \subseteq inspected
Cleared == Inspected /\ High(tool_results) \subseteq released

\* The runtime's status, the answer and the terminal flag follow the node.
ControlInv ==
  /\ run = "suspended" => next = "hitl_gate"
  /\ run = "finished" => next = "END"
  /\ final_answer # "none" => next \in {"write_memory", "END"}
  /\ is_terminal => next \in {"write_memory", "END"}
  /\ next \in {"write_memory", "END"} => final_answer # "none"
  /\ hitl_status = "REJECT" =>
       /\ next \in {"apply_override", "write_memory", "END"}
       /\ final_answer \in {"none", "rejected"}

\* What governance has seen when a node is entered.  compute is entered before
\* governance too, and then leads to eval_risk.
GovernanceInv ==
  /\ ResultsMirrored
  /\ next \in {"hitl_gate", "apply_override"} => Inspected
  /\ next = "apply_override" /\ hitl_status # "REJECT" => Cleared
  /\ next \in {"fan_out_router_node", "synthesize_answer"} => Cleared
  /\ next = "compute" /\ risk_evaluated => Cleared
  /\ EvidenceInspected
  /\ FlaggedEvidenceReleased

\* Every envelope is one its tool can produce.
Genuine(S) == \A e \in S : e.finding \in Findings(e.tool)

EvidenceHeld ==
  \E e \in tool_results : e.tool # "table_extract" /\ HasPayload(e)

\* There is something to answer from whenever a reviewer is asked, and an
\* approved run goes straight to its answer.
ApprovalInv ==
  /\ Genuine(tool_results) /\ Genuine(writes)
  /\ next \in {"hitl_gate", "apply_override"} => risk_evaluated /\ EvidenceHeld
  /\ approved =>
       /\ next \in {"apply_override", "compute", "synthesize_answer",
                    "write_memory", "END"}
       /\ next = "apply_override" => hitl_status = "APPROVE"
       /\ risk_evaluated /\ EvidenceHeld

-----------------------------------------------------------------------------
(* Control.                                                                *)

LEMMA ControlStep == TypeOK /\ ControlInv /\ [Next]_vars => ControlInv'
<1> SUFFICES ASSUME TypeOK, ControlInv, [Next]_vars PROVE ControlInv'
  OBVIOUS
<1> USE DEF ControlInv, graph, state, workers, history, vars, Superstep
<1>1. CASE ReadMemory BY <1>1 DEF ReadMemory
<1>2. CASE Plan
  <2>1. next' \in {"sub_task_worker", "compute", "fuse_context",
                   "synthesize_answer"}
    BY <1>2 DEF Plan, FanOutRouter
  <2>2. /\ next = "plan" /\ run = "running" /\ run' = run
        /\ UNCHANGED <<final_answer, is_terminal, hitl_status>>
    BY <1>2 DEF Plan
  <2> QED BY <2>1, <2>2
<1>3. CASE FanOutRouterNode
  <2>1. next' \in {"sub_task_worker", "compute", "fuse_context",
                   "synthesize_answer"}
    BY <1>3 DEF FanOutRouterNode, FanOutRouter
  <2> QED BY <1>3, <2>1 DEF FanOutRouterNode
<1>4. ASSUME NEW c \in dispatched, Worker(c) PROVE ControlInv'
  BY <1>4 DEF Worker
<1>5. ASSUME NEW c \in dispatched, WorkerRaises(c) PROVE ControlInv'
  BY <1>5 DEF WorkerRaises
<1>6. CASE WorkersDone BY <1>6 DEF WorkersDone
<1>7. CASE Aggregate
  <2>1. next' \in {"fuse_context", "eval_risk"}
    BY <1>7 DEF Aggregate, RouteAfterAggregate
  <2> QED BY <1>7, <2>1 DEF Aggregate
<1>8. CASE FuseContext BY <1>8 DEF FuseContext
<1>9. CASE EvalRisk
  <2>1. /\ next' \in {"hitl_gate", "fan_out_router_node", "compute",
                      "synthesize_answer"}
        /\ hitl_status' # "REJECT"
    BY <1>9 DEF EvalRisk, RouteAfterRisk
  <2> QED BY <1>9, <2>1 DEF EvalRisk
<1>10. CASE HitlGate BY <1>10 DEF HitlGate
<1>11. CASE ApplyOverride
  <2>1. final_answer = "none" /\ ~is_terminal
    BY <1>11 DEF ApplyOverride, TypeOK
  <2>2. CASE hitl_status = "REJECT"
    <3>1. next' = "write_memory" /\ final_answer' = "rejected"
      BY <1>11, <2>2 DEF ApplyOverride, RouteAfterOverride
    <3> QED BY <1>11, <3>1 DEF ApplyOverride
  <2>3. CASE hitl_status # "REJECT"
    <3>1. next' \in {"fan_out_router_node", "compute", "synthesize_answer"}
      BY <1>11, <2>1, <2>3 DEF ApplyOverride, RouteAfterOverride
    <3> QED BY <1>11, <2>1, <2>3, <3>1 DEF ApplyOverride
  <2> QED BY <2>2, <2>3
<1>12. CASE Compute
  <2>1. next' \in {"eval_risk", "synthesize_answer"}
    BY <1>12 DEF Compute, RouteAfterCompute
  <2>2. /\ next = "compute" /\ run = "running" /\ run' = run
        /\ UNCHANGED <<final_answer, is_terminal, hitl_status>>
    BY <1>12 DEF Compute
  <2> QED BY <2>1, <2>2
<1>13. CASE ComputeRaises BY <1>13 DEF ComputeRaises
<1>14. CASE Synthesize
  <2>1. /\ next = "synthesize_answer" /\ run = "running" /\ run' = run
        /\ hitl_status' = hitl_status
        /\ final_answer = "none" /\ hitl_status # "REJECT"
    BY <1>14 DEF Synthesize
  <2>2. \/ /\ final_answer' \in {"synthesised", "insufficient"}
           /\ next' = "write_memory"
        \/ /\ final_answer' = "none" /\ is_terminal' = FALSE
           /\ iteration_count < MAX_ITERATIONS
           /\ next' = "plan"
    BY <1>14, <2>1 DEF Synthesize, RouteAfterSynthesize, TypeOK,
                       MAX_ITERATIONS, MAX_GRAPH_ITERATIONS
  <2> QED BY <2>1, <2>2
<1>15. CASE WriteMemory BY <1>15 DEF WriteMemory
<1>16. CASE OutOfSteps BY <1>16 DEF OutOfSteps
<1>17. ASSUME NEW verdict, Resume(verdict) PROVE ControlInv'
  BY <1>17 DEF Resume
<1>18. CASE NewQuery BY <1>18 DEF NewQuery
<1>19. CASE Rest BY <1>19 DEF Rest
<1>20. CASE UNCHANGED vars BY <1>20
<1> QED
  BY <1>1, <1>2, <1>3, <1>4, <1>5, <1>6, <1>7, <1>8, <1>9, <1>10, <1>11, <1>12,
     <1>13, <1>14, <1>15, <1>16, <1>17, <1>18, <1>19, <1>20 DEF Next, Step

-----------------------------------------------------------------------------
(* Governance.                                                             *)

\* compute adds results of safe_math, and nothing it adds counts as retrieved.
LEMMA ComputeAdds ==
  ASSUME TypeOK, Compute
  PROVE  \E executed, skipped \in SUBSET Envelope :
           /\ \A e \in executed \cup skipped :
                e.tool = "safe_math" /\ e.finding \in Findings("safe_math")
           /\ tool_results' = tool_results \cup executed \cup skipped
           /\ sub_task_results' = Merge(sub_task_results, executed)
<1> DEFINE math == Pending(tool_calls, {"safe_math"})
<1>1. \A c \in math : c \in Call /\ c.tool = "safe_math"
  BY DEF Pending, TypeOK
<1>2. PICK f \in [math -> Findings("safe_math")] :
        /\ tool_results' = Extend(tool_results,
             {EnvelopeOf(c, f[c]) : c \in {m \in math : Resolved(m)}} \cup
             {EnvelopeOf(c, Failure) : c \in {m \in math : ~Resolved(m)}})
        /\ sub_task_results' = Merge(sub_task_results,
             {EnvelopeOf(c, f[c]) : c \in {m \in math : Resolved(m)}})
  BY DEF Compute
<1>3. Failure \in Findings("safe_math")
  BY DEF Findings
<1> DEFINE executed == {EnvelopeOf(c, f[c]) : c \in {m \in math : Resolved(m)}}
           skipped == {EnvelopeOf(c, Failure) : c \in {m \in math : ~Resolved(m)}}
<1> HIDE DEF math
<1>4. \A c \in math : /\ EnvelopeOf(c, f[c]) \in Envelope
                      /\ EnvelopeOf(c, Failure) \in Envelope
  BY <1>1, <1>3, EnvelopeTyped
<1>5. \A c \in math :
        /\ EnvelopeOf(c, f[c]).tool = "safe_math"
        /\ EnvelopeOf(c, f[c]).finding \in Findings("safe_math")
        /\ EnvelopeOf(c, Failure).tool = "safe_math"
        /\ EnvelopeOf(c, Failure).finding \in Findings("safe_math")
  BY <1>1, <1>3 DEF EnvelopeOf
<1>6. executed \in SUBSET Envelope /\ skipped \in SUBSET Envelope
  BY <1>4
<1>7. \A e \in executed \cup skipped :
        e.tool = "safe_math" /\ e.finding \in Findings("safe_math")
  BY <1>5
<1>8. /\ tool_results' = tool_results \cup executed \cup skipped
      /\ sub_task_results' = Merge(sub_task_results, executed)
  BY <1>2 DEF Extend
<1> QED BY <1>6, <1>7, <1>8

LEMMA ComputeRetrievesNothing ==
  ASSUME TypeOK, ResultsMirrored, Compute
  PROVE  /\ Retrieved(tool_results') = Retrieved(tool_results)
         /\ ResultsMirrored'
         /\ tool_results \subseteq tool_results'
<1>1. PICK executed \in SUBSET Envelope, skipped \in SUBSET Envelope :
        /\ \A e \in executed \cup skipped :
             e.tool = "safe_math" /\ e.finding \in Findings("safe_math")
        /\ tool_results' = tool_results \cup executed \cup skipped
        /\ sub_task_results' = Merge(sub_task_results, executed)
  BY ComputeAdds
<1>2. Retrieved(tool_results') = Retrieved(tool_results)
  BY <1>1 DEF Retrieved, RetrievalTools
<1> QED BY <1>1, <1>2 DEF ResultsMirrored, Merge

LEMMA SynthesisRetrievesNothing ==
  ASSUME TypeOK, ResultsMirrored, Synthesize
  PROVE  /\ Retrieved(tool_results') = Retrieved(tool_results)
         /\ ResultsMirrored'
         /\ tool_results \subseteq tool_results'
<1>1. PICK added \in SUBSET Envelope :
        /\ \A e \in added : e.tool = "safe_math"
        /\ tool_results' = tool_results \cup added
  BY SynthesisAdds
<1>2. Retrieved(tool_results') = Retrieved(tool_results)
  BY <1>1 DEF Retrieved, RetrievalTools
<1>3. sub_task_results' = sub_task_results
  BY DEF Synthesize
<1> QED BY <1>1, <1>2, <1>3 DEF ResultsMirrored

\* With the results mirrored, synthesis reads exactly what governance reads.
LEMMA AllEnvelopesIsToolResults == ResultsMirrored => AllEnvelopes = tool_results
  BY DEF ResultsMirrored, AllEnvelopes

LEMMA GovernanceStep ==
  TypeOK /\ ControlInv /\ GovernanceInv /\ [Next]_vars => GovernanceInv'
<1> SUFFICES ASSUME TypeOK, ControlInv, GovernanceInv, [Next]_vars
             PROVE  GovernanceInv'
  OBVIOUS
<1> USE DEF GovernanceInv, ResultsMirrored, Cleared, Inspected, EvidenceInspected,
        FlaggedEvidenceReleased, High, graph, state, workers, history, vars,
        Superstep
<1>0. next \notin {"write_memory", "END"} => final_answer = "none"
  BY DEF ControlInv
<1>1. CASE ReadMemory BY <1>1 DEF ReadMemory
<1>2. CASE Plan
  <2>1. /\ next' \in {"sub_task_worker", "compute", "fuse_context",
                      "synthesize_answer"}
        /\ next' = "synthesize_answer" => tool_results = {}
        /\ risk_evaluated' = FALSE
    BY <1>2 DEF Plan, FanOutRouter
  <2> QED BY <1>0, <1>2, <2>1 DEF Plan, Retrieved
<1>3. CASE FanOutRouterNode
  <2>1. next' \in {"sub_task_worker", "compute", "fuse_context",
                   "synthesize_answer"}
    BY <1>3 DEF FanOutRouterNode, FanOutRouter
  <2> QED BY <1>3, <2>1 DEF FanOutRouterNode
<1>4. ASSUME NEW c \in dispatched, Worker(c) PROVE GovernanceInv'
  BY <1>4 DEF Worker
<1>5. ASSUME NEW c \in dispatched, WorkerRaises(c) PROVE GovernanceInv'
  BY <1>5 DEF WorkerRaises
<1>6. CASE WorkersDone
  <2>1. ResultsMirrored'
    BY <1>6 DEF WorkersDone, Extend, Merge
  <2> QED BY <1>0, <1>6, <2>1 DEF WorkersDone
<1>7. CASE Aggregate
  <2>1. next' \in {"fuse_context", "eval_risk"}
    BY <1>7 DEF Aggregate, RouteAfterAggregate
  <2> QED BY <1>7, <2>1 DEF Aggregate
<1>8. CASE FuseContext BY <1>8 DEF FuseContext
<1>9. CASE EvalRisk
  <2>1. inspected' = tool_results /\ final_answer' = "none"
    BY <1>0, <1>9 DEF EvalRisk
  <2>2. Inspected'
    BY <1>9, <2>1 DEF EvalRisk, Retrieved
  <2>3. CASE hitl_status' = "PENDING"
    <3>1. next' = "hitl_gate"
      BY <1>9, <2>3 DEF EvalRisk, RouteAfterRisk
    <3> QED BY <1>9, <2>1, <2>2, <3>1 DEF EvalRisk
  <2>4. CASE hitl_status' # "PENDING"
    <3>1. ~MustEscalate
      BY <1>9, <2>4 DEF EvalRisk
    <3>2. Cleared'
      BY <1>9, <2>2, <3>1 DEF EvalRisk, MustEscalate, Retrieved
    <3>3. next' \in {"fan_out_router_node", "compute", "synthesize_answer"}
      BY <1>9, <2>4 DEF EvalRisk, RouteAfterRisk
    <3> QED BY <1>9, <2>1, <3>2, <3>3 DEF EvalRisk
  <2> QED BY <2>3, <2>4
<1>10. CASE HitlGate BY <1>10 DEF HitlGate
<1>11. CASE ApplyOverride
  <2>1. CASE hitl_status = "REJECT"
    <3>1. next' = "write_memory" /\ final_answer' = "rejected"
      BY <1>11, <2>1 DEF ApplyOverride, RouteAfterOverride
    <3> QED BY <1>11, <3>1 DEF ApplyOverride
  <2>2. CASE hitl_status # "REJECT"
    <3>1. Cleared /\ final_answer = "none"
      BY <1>0, <1>11, <2>2 DEF ApplyOverride, ControlInv
    <3>2. next' \in {"fan_out_router_node", "compute", "synthesize_answer",
                     "write_memory"}
      BY <1>11 DEF ApplyOverride, RouteAfterOverride
    <3> QED BY <1>11, <2>2, <3>1, <3>2 DEF ApplyOverride
  <2> QED BY <2>1, <2>2
<1>12. CASE Compute
  <2>1. /\ Retrieved(tool_results') = Retrieved(tool_results)
        /\ ResultsMirrored'
    BY <1>12, ComputeRetrievesNothing
  <2>2. /\ next' \in {"eval_risk", "synthesize_answer"}
        /\ next' = "synthesize_answer" => risk_evaluated
    BY <1>12 DEF Compute, RouteAfterCompute
  <2>3. /\ next = "compute" /\ final_answer' = "none"
        /\ UNCHANGED <<inspected, released, hitl_status>>
    BY <1>0, <1>12 DEF Compute, ControlInv
  <2> QED BY <2>1, <2>2, <2>3
<1>13. CASE ComputeRaises BY <1>13 DEF ComputeRaises
<1>14. CASE Synthesize
  <2>1. Cleared
    BY <1>14 DEF Synthesize
  <2>2. /\ next' \in {"write_memory", "plan"}
        /\ UNCHANGED <<inspected, released>>
    BY <1>14 DEF Synthesize, RouteAfterSynthesize
  <2>3. final_answer' = "synthesised" => cited' \subseteq tool_results
    BY <1>0, <1>14, AllEnvelopesIsToolResults DEF Synthesize, ControlInv
  <2>4. ResultsMirrored'
    BY <1>14, SynthesisRetrievesNothing
  <2>5. final_answer' = "synthesised" =>
          /\ Retrieved(cited') \subseteq inspected'
          /\ {e \in Retrieved(cited') : e.finding.severity = "HIGH"} \subseteq released'
    BY <2>1, <2>2, <2>3 DEF Retrieved
  <2> QED BY <2>2, <2>4, <2>5
<1>15. CASE WriteMemory BY <1>15 DEF WriteMemory
<1>16. CASE OutOfSteps BY <1>16 DEF OutOfSteps
<1>17. ASSUME NEW verdict, Resume(verdict) PROVE GovernanceInv'
  <2>1. next = "hitl_gate" /\ Inspected /\ final_answer = "none"
    BY <1>17 DEF Resume, ControlInv
  <2>2. /\ next' = "apply_override"
        /\ hitl_status' # "REJECT" => released' = tool_results
        /\ UNCHANGED <<tool_results, sub_task_results, inspected, final_answer>>
    BY <1>17 DEF Resume
  <2> QED BY <2>1, <2>2 DEF Retrieved
<1>18. CASE NewQuery BY <1>18 DEF NewQuery
<1>19. CASE Rest BY <1>19 DEF Rest
<1>20. CASE UNCHANGED vars BY <1>20
<1> QED
  BY <1>1, <1>2, <1>3, <1>4, <1>5, <1>6, <1>7, <1>8, <1>9, <1>10, <1>11, <1>12,
     <1>13, <1>14, <1>15, <1>16, <1>17, <1>18, <1>19, <1>20 DEF Next, Step

-----------------------------------------------------------------------------
(* Approval.                                                               *)

\* What the risk engine escalates on is evidence.
LEMMA EscalationHasEvidence ==
  ASSUME TypeOK, Genuine(tool_results), MayEscalate
  PROVE  EvidenceHeld
<1>1. CASE \E e \in tool_results : e.finding.data = "amount"
  <2>1. PICK e \in tool_results : e.finding.data = "amount"
    BY <1>1
  <2>2. e.tool \in Tools /\ e.finding \in Findings(e.tool)
    BY DEF TypeOK, Envelope, Genuine
  <2>3. e.tool # "table_extract" /\ e.finding.data \in {"text", "amount"}
    BY <2>1, <2>2, SevereIsEvidence
  <2> QED BY <2>3 DEF EvidenceHeld, HasPayload
<1>2. CASE Cardinality({e \in tool_results : e.finding.severity = "MEDIUM"}) >= 3
  <2>1. {e \in tool_results : e.finding.severity = "MEDIUM"} # {}
    <3>1. Cardinality({}) = 0
      BY FS_EmptySet
    <3>2. ~(0 >= 3)
      OBVIOUS
    <3> QED BY <1>2, <3>1, <3>2, Zenon
  <2>2. PICK e \in tool_results : e.finding.severity = "MEDIUM"
    BY <2>1
  <2>3. e.tool \in Tools /\ e.finding \in Findings(e.tool)
    BY DEF TypeOK, Envelope, Genuine
  <2>4. e.tool # "table_extract" /\ e.finding.data \in {"text", "amount"}
    BY <2>2, <2>3, SevereIsEvidence
  <2> QED BY <2>4 DEF EvidenceHeld, HasPayload
<1> QED BY <1>1, <1>2 DEF MayEscalate

LEMMA HeldEvidenceIsRead ==
  ASSUME ResultsMirrored, EvidenceHeld
  PROVE  Evidence # {}
  BY AllEnvelopesIsToolResults DEF EvidenceHeld, Evidence

LEMMA ApprovalStep ==
  TypeOK /\ ControlInv /\ ResultsMirrored /\ ApprovalInv /\ [Next]_vars
    => ApprovalInv'
<1> SUFFICES ASSUME TypeOK, ControlInv, ResultsMirrored, ApprovalInv, [Next]_vars
             PROVE  ApprovalInv'
  OBVIOUS
<1> USE DEF ApprovalInv, Genuine, EvidenceHeld, HasPayload, graph, state, workers,
        history, vars, Superstep
<1>1. CASE ReadMemory BY <1>1 DEF ReadMemory
<1>2. CASE Plan
  <2>1. next' \in {"sub_task_worker", "compute", "fuse_context",
                   "synthesize_answer"}
    BY <1>2 DEF Plan, FanOutRouter
  <2>2. ~approved /\ UNCHANGED <<approved, tool_results, writes>>
    BY <1>2 DEF Plan
  <2> QED BY <2>1, <2>2
<1>3. CASE FanOutRouterNode
  <2>1. next' \in {"sub_task_worker", "compute", "fuse_context",
                   "synthesize_answer"}
    BY <1>3 DEF FanOutRouterNode, FanOutRouter
  <2>2. ~approved /\ UNCHANGED <<approved, tool_results, writes>>
    BY <1>3 DEF FanOutRouterNode
  <2> QED BY <2>1, <2>2
<1>4. ASSUME NEW c \in dispatched, Worker(c) PROVE ApprovalInv'
  <2>1. Genuine(writes')
    BY <1>4 DEF Worker, EnvelopeOf
  <2>2. /\ ~approved /\ next = "sub_task_worker"
        /\ UNCHANGED <<approved, next, tool_results>>
    BY <1>4 DEF Worker
  <2> QED BY <2>1, <2>2
<1>5. ASSUME NEW c \in dispatched, WorkerRaises(c) PROVE ApprovalInv'
  BY <1>5 DEF WorkerRaises
<1>6. CASE WorkersDone BY <1>6 DEF WorkersDone, Extend
<1>7. CASE Aggregate
  <2>1. next' \in {"fuse_context", "eval_risk"}
    BY <1>7 DEF Aggregate, RouteAfterAggregate
  <2> QED BY <1>7, <2>1 DEF Aggregate
<1>8. CASE FuseContext BY <1>8 DEF FuseContext
<1>9. CASE EvalRisk
  <2>1. /\ ~approved
        /\ next' \in {"hitl_gate", "fan_out_router_node", "compute",
                      "synthesize_answer"}
        /\ next' = "hitl_gate" => MayEscalate
        /\ risk_evaluated' = TRUE
        /\ UNCHANGED <<approved, tool_results, writes>>
    BY <1>9 DEF EvalRisk, RouteAfterRisk
  <2>2. next' = "hitl_gate" => EvidenceHeld
    BY <2>1, EscalationHasEvidence
  <2> QED BY <2>1, <2>2
<1>10. CASE HitlGate BY <1>10 DEF HitlGate
<1>11. CASE ApplyOverride
  <2>1. next' \in {"fan_out_router_node", "compute", "synthesize_answer",
                   "write_memory"}
    BY <1>11 DEF ApplyOverride, RouteAfterOverride
  <2>2. approved => next' # "fan_out_router_node"
    BY <1>11 DEF ApplyOverride, RouteAfterOverride
  <2> QED BY <1>11, <2>1, <2>2 DEF ApplyOverride
<1>12. CASE Compute
  <2>1. PICK executed \in SUBSET Envelope, skipped \in SUBSET Envelope :
          /\ \A e \in executed \cup skipped :
               e.tool = "safe_math" /\ e.finding \in Findings("safe_math")
          /\ tool_results' = tool_results \cup executed \cup skipped
    BY <1>12, ComputeAdds
  <2>2. Genuine(tool_results')
    BY <2>1
  <2>3. /\ next' \in {"eval_risk", "synthesize_answer"}
        /\ risk_evaluated => next' = "synthesize_answer"
    BY <1>12 DEF Compute, RouteAfterCompute
  <2>4. UNCHANGED <<approved, risk_evaluated, writes>>
    BY <1>12 DEF Compute
  <2>5. EvidenceHeld => EvidenceHeld'
    BY <2>1
  <2> QED BY <2>2, <2>3, <2>4, <2>5
<1>13. CASE ComputeRaises BY <1>13 DEF ComputeRaises
<1>14. CASE Synthesize
  <2>1. /\ next' \in {"write_memory", "plan"}
        /\ UNCHANGED <<approved, risk_evaluated, writes>>
    BY <1>14 DEF Synthesize, RouteAfterSynthesize
  <2>2. approved => next' = "write_memory"
    BY <1>14, HeldEvidenceIsRead DEF Synthesize, RouteAfterSynthesize
  <2>3. PICK added \in SUBSET Envelope :
          /\ \A e \in added : e.finding \in Findings(e.tool)
          /\ tool_results' = tool_results \cup added
    BY <1>14, SynthesisAdds
  <2>4. Genuine(tool_results') /\ (EvidenceHeld => EvidenceHeld')
    BY <2>3
  <2> QED BY <2>1, <2>2, <2>4
<1>15. CASE WriteMemory BY <1>15 DEF WriteMemory
<1>16. CASE OutOfSteps BY <1>16 DEF OutOfSteps
<1>17. ASSUME NEW verdict, Resume(verdict) PROVE ApprovalInv'
  <2>1. next = "hitl_gate" /\ ~approved /\ risk_evaluated /\ EvidenceHeld
    BY <1>17 DEF Resume, ControlInv
  <2>2. /\ next' = "apply_override"
        /\ approved' => hitl_status' = "APPROVE"
        /\ UNCHANGED <<tool_results, writes, risk_evaluated>>
    BY <1>17, <2>1 DEF Resume
  <2> QED BY <2>1, <2>2
<1>18. CASE NewQuery BY <1>18 DEF NewQuery
<1>19. CASE Rest BY <1>19 DEF Rest
<1>20. CASE UNCHANGED vars BY <1>20
<1> QED
  BY <1>1, <1>2, <1>3, <1>4, <1>5, <1>6, <1>7, <1>8, <1>9, <1>10, <1>11, <1>12,
     <1>13, <1>14, <1>15, <1>16, <1>17, <1>18, <1>19, <1>20 DEF Next, Step

-----------------------------------------------------------------------------
(* Dispatch.                                                               *)

\* Task ids are unique on the queue, except among calls a reviewer has put
\* there.
OneCallPerTask ==
  \A c, d \in tool_calls : c.task_id = d.task_id /\ c.task_id \notin edited => c = d

\* A pending retrieval call has no result yet, except until the results that
\* have just come in are aggregated, and except what a reviewer asks for again.
NoneToRepeat ==
  next # "aggregate_sub_tasks" =>
    \A c \in Pending(tool_calls, FanOutTools) : HasResult(c) => c.task_id \in edited

DispatchInv == OneCallPerTask /\ NoneToRepeat

\* The validator's test of the ids makes them unique.
LEMMA ValidIdsUnique ==
  ASSUME NEW p \in LLMProposals, ValidPlan(p)
  PROVE  /\ \A s, t \in p : s.task_id = t.task_id => s = t
         /\ \A t \in p : t.task_id # 0
<1> DEFINE n == Cardinality(p)
           f == [t \in p |-> t.task_id]
<1>1. IsFiniteSet(p) /\ n \in Nat
  BY InputsAssumption, FS_CardinalityType
<1>2. Ids(p) = 1..n
  BY DEF ValidPlan
<1> HIDE DEF n
<1>3. IsFiniteSet(1..n) /\ Cardinality(1..n) = n
  BY <1>1, FS_Interval
<1>4. f \in Surjection(p, 1..n)
  BY <1>2 DEF Surjection, Ids
<1>5. f \in Injection(p, 1..n)
  BY <1>1, <1>3, <1>4, FS_Surjection DEF n
<1>6. \A s, t \in p : f[s] = f[t] => s = t
  BY <1>5 DEF Injection, IsInjective
<1>7. \A t \in p : t.task_id \in 1..n
  BY <1>2 DEF Ids
<1> QED BY <1>1, <1>6, <1>7

LEMMA QueueUnique ==
  ASSUME NEW p \in {q \in LLMProposals : ValidPlan(q)} \cup RulePlans
  PROVE  \A c, d \in Queue(p) : c.task_id = d.task_id => c = d
<1>1. /\ \A s, t \in p : s.task_id = t.task_id => s = t
      /\ \A t \in p : t.task_id # 0
  <2>1. CASE p \in RulePlans
    <3> DEFINE vector == T(1, "vector_retrieval", {})
               graph1 == T(2, "graph_retrieval", {1})
               graph2 == T(3, "graph_retrieval", {1})
               math == T(4, "safe_math", {2, 3})
    <3>1. /\ vector.task_id = 1 /\ graph1.task_id = 2
          /\ graph2.task_id = 3 /\ math.task_id = 4
      BY DEF T
    <3>2. p \subseteq {vector, graph1, graph2, math}
      BY <2>1 DEF RulePlans
    <3> HIDE DEF vector, graph1, graph2, math
    <3> QED BY <3>1, <3>2
  <2>2. CASE p \in LLMProposals /\ ValidPlan(p)
    BY <2>2, ValidIdsUnique
  <2> QED BY <2>1, <2>2
<1>2. TableTask.task_id = 0
  BY DEF TableTask, T
<1>3. \A s, t \in p \cup {TableTask} : s.task_id = t.task_id => s = t
  BY <1>1, <1>2
<1> QED BY <1>3 DEF Queue

\* A step that changes neither the queue nor the results.
LEMMA DispatchKept ==
  ASSUME DispatchInv, UNCHANGED <<tool_calls, sub_task_results, edited>>,
         next' = "aggregate_sub_tasks" \/ next # "aggregate_sub_tasks"
  PROVE  DispatchInv'
  BY DEF DispatchInv, OneCallPerTask, NoneToRepeat, Pending, HasResult, Ids

LEMMA DispatchStep ==
  TypeOK /\ ControlInv /\ ResultsMirrored /\ DispatchInv /\ [Next]_vars => DispatchInv'
<1> SUFFICES ASSUME TypeOK, ControlInv, ResultsMirrored, DispatchInv, [Next]_vars
             PROVE  DispatchInv'
  OBVIOUS
<1> USE DEF graph, state, workers, history, vars, Superstep
<1>1. CASE Plan
  <2>1. CASE tool_calls' = tool_calls
    BY <1>1, <2>1, DispatchKept DEF Plan
  <2>2. ASSUME NEW p \in {q \in LLMProposals : ValidPlan(q)} \cup RulePlans,
               tool_calls' = Queue(p), sub_task_results = {}
        PROVE  DispatchInv'
    BY <1>1, <2>2, QueueUnique
       DEF Plan, DispatchInv, OneCallPerTask, NoneToRepeat, HasResult, Ids
  <2>3. final_answer = "none"
    BY <1>1 DEF Plan, ControlInv
  <2> QED BY <1>1, <2>1, <2>2, <2>3 DEF Plan, ResultsMirrored
<1>2. CASE WorkersDone
  BY <1>2 DEF WorkersDone, DispatchInv, OneCallPerTask, NoneToRepeat
<1>3. CASE Aggregate
  <2>1. /\ \A c \in tool_calls' : \E o \in tool_calls :
             c = IF HasResult(o) THEN [o EXCEPT !.status = "COMPLETED"] ELSE o
        /\ UNCHANGED <<sub_task_results, edited>>
    BY <1>3 DEF Aggregate
  <2>2. ASSUME NEW c \in tool_calls', NEW o \in tool_calls,
               c = IF HasResult(o) THEN [o EXCEPT !.status = "COMPLETED"] ELSE o
        PROVE  c.task_id = o.task_id /\ (c.status = "PENDING" => ~HasResult(c))
    BY <2>2 DEF TypeOK, Call, HasResult
  <2>3. OneCallPerTask'
    BY <2>1, <2>2 DEF DispatchInv, OneCallPerTask
  <2>4. \A c \in tool_calls' : c.status = "PENDING" => ~HasResult(c)
    BY <2>1, <2>2
  <2> QED BY <2>1, <2>3, <2>4 DEF DispatchInv, NoneToRepeat, Pending, HasResult
<1>4. CASE Compute
  <2> DEFINE math == Pending(tool_calls, {"safe_math"})
  <2>1. /\ tool_calls' = tool_calls \ math
        /\ edited' = edited /\ next = "compute"
    BY <1>4 DEF Compute
  <2>2. ASSUME NEW c \in tool_calls', HasResult(c)'
        PROVE  HasResult(c) \/ \E m \in math : m.task_id = c.task_id
    <3>1. PICK f \in [math -> Findings("safe_math")] :
            sub_task_results' = Merge(sub_task_results,
              {EnvelopeOf(m, f[m]) : m \in {x \in math : Resolved(x)}})
      BY <1>4 DEF Compute
    <3>2. PICK e \in sub_task_results' : e.task_id = c.task_id
      BY <2>2 DEF HasResult, Ids
    <3> HIDE DEF math
    <3> QED BY <3>1, <3>2 DEF Merge, HasResult, Ids, EnvelopeOf
  <2>3. OneCallPerTask'
    BY <2>1 DEF DispatchInv, OneCallPerTask
  <2>4. NoneToRepeat'
    <3> SUFFICES ASSUME NEW c \in tool_calls', c.status = "PENDING",
                        c.tool \in FanOutTools, HasResult(c)', c.task_id \notin edited
                 PROVE  FALSE
      BY <2>1 DEF NoneToRepeat, Pending
    <3>1. ~HasResult(c)
      BY <2>1 DEF DispatchInv, NoneToRepeat, Pending
    <3>2. PICK m \in math : m.task_id = c.task_id
      BY <2>2, <3>1
    <3>3. m = c
      BY <2>1, <3>2 DEF DispatchInv, OneCallPerTask, Pending
    <3> QED BY <3>2, <3>3 DEF Pending, FanOutTools, RetrievalTools
  <2> QED BY <2>3, <2>4 DEF DispatchInv
<1>5. ASSUME NEW verdict, Resume(verdict) PROVE DispatchInv'
  <2>1. CASE UNCHANGED <<tool_calls, edited>>
    BY <1>5, <2>1, DispatchKept DEF Resume, ControlInv
  <2>2. CASE \E calls \in EditPlans : tool_calls' = calls /\ edited' = edited \cup Ids(calls)
    <3>1. \A c \in tool_calls' : c.task_id \in edited'
      BY <2>2 DEF Ids
    <3> QED BY <3>1 DEF DispatchInv, OneCallPerTask, NoneToRepeat, Pending
  <2> QED BY <1>5, <2>1, <2>2 DEF Resume
<1>6. CASE NewQuery
  BY <1>6 DEF NewQuery, DispatchInv, OneCallPerTask, NoneToRepeat, Pending
<1>7. ASSUME NEW c \in dispatched, Worker(c) \/ WorkerRaises(c) PROVE DispatchInv'
  BY <1>7, DispatchKept DEF Worker, WorkerRaises
<1>8. CASE \/ ReadMemory \/ FanOutRouterNode \/ FuseContext \/ EvalRisk \/ HitlGate
           \/ ApplyOverride \/ ComputeRaises \/ Synthesize \/ WriteMemory
  BY <1>8, DispatchKept
     DEF ReadMemory, FanOutRouterNode, FuseContext, EvalRisk, HitlGate, ApplyOverride,
         ComputeRaises, Synthesize, WriteMemory
<1>9. CASE OutOfSteps \/ Rest \/ UNCHANGED vars
  BY <1>9, DispatchKept DEF OutOfSteps, Rest
<1> QED BY <1>1, <1>2, <1>3, <1>4, <1>5, <1>6, <1>7, <1>8, <1>9 DEF Next, Step

-----------------------------------------------------------------------------
(* The theorems.                                                           *)

IInv == TypeInv /\ ControlInv /\ GovernanceInv /\ ApprovalInv /\ DispatchInv

LEMMA IInvInductive == Spec => []IInv
<1>1. Init => IInv
  <2> SUFFICES ASSUME Init PROVE IInv
    OBVIOUS
  <2>1. TypeInv
    BY TypeInvInit
  <2>2. ControlInv /\ GovernanceInv
    BY DEF Init, ControlInv, GovernanceInv, ResultsMirrored, EvidenceInspected,
           FlaggedEvidenceReleased
  <2>3. ApprovalInv
    BY DEF Init, ApprovalInv, Genuine
  <2>4. DispatchInv
    BY DEF Init, DispatchInv, OneCallPerTask, NoneToRepeat, Pending
  <2> QED BY <2>1, <2>2, <2>3, <2>4 DEF IInv
<1>2. IInv /\ [Next]_vars => IInv'
  BY TypeInvStep, ControlStep, GovernanceStep, ApprovalStep, DispatchStep
     DEF IInv, TypeInv, GovernanceInv
<1> QED BY <1>1, <1>2, PTL DEF Spec

(* No answer quotes a retrieved row or chunk the risk engine has not read, *)
(* whatever plans, edits, failures and earlier queries led to it.          *)
THEOREM GovernanceReadsEvidence == Spec => []EvidenceInspected
<1>1. IInv => EvidenceInspected
  BY DEF IInv, GovernanceInv
<1> QED BY <1>1, IInvInductive, PTL

(* No answer quotes a retrieved figure found HIGH that no reviewer had     *)
(* before them when releasing the query.                                   *)
THEOREM FlaggedNeedsRelease == Spec => []FlaggedEvidenceReleased
<1>1. IInv => FlaggedEvidenceReleased
  BY DEF IInv, GovernanceInv
<1> QED BY <1>1, IInvInductive, PTL

(* What synthesis reads is what governance reads.                          *)
THEOREM MirroredResults == Spec => []ResultsMirrored
<1>1. IInv => ResultsMirrored
  BY DEF IInv, GovernanceInv
<1> QED BY <1>1, IInvInductive, PTL

(* An approved query never suspends again.                                 *)
THEOREM ApprovedOnce == Spec => []OneApprovalSuffices
<1>1. IInv => OneApprovalSuffices
  BY DEF IInv, ControlInv, ApprovalInv, OneApprovalSuffices
<1> QED BY <1>1, IInvInductive, PTL

(* A run that reaches END has an answer.                                   *)
THEOREM FinishedAnswered == Spec => []FinishedHasAnswer
<1>1. IInv => FinishedHasAnswer
  BY DEF IInv, ControlInv, FinishedHasAnswer
<1> QED BY <1>1, IInvInductive, PTL

(* After REJECT no tool runs, the verdict stands and no answer but the     *)
(* rejection is given.                                                     *)
THEOREM RejectionStands == Spec => RejectionIsFinal
<1> DEFINE A == hitl_status = "REJECT" /\ query' = query =>
                 /\ hitl_status' = "REJECT"
                 /\ tool_results' = tool_results
                 /\ final_answer' \in {"none", "rejected"}
<1>1. IInv /\ IInv' /\ [Next]_vars => [A]_vars
  <2> SUFFICES ASSUME IInv, IInv', [Next]_vars,
                      hitl_status = "REJECT", query' = query
               PROVE  /\ hitl_status' = "REJECT"
                      /\ tool_results' = tool_results
                      /\ final_answer' \in {"none", "rejected"}
    OBVIOUS
  <2>1. next \in {"apply_override", "write_memory", "END"} /\ run # "suspended"
    BY DEF IInv, ControlInv
  <2>2. CASE ApplyOverride
    BY <2>2 DEF ApplyOverride, history
  <2>3. CASE WriteMemory
    BY <2>3 DEF WriteMemory, IInv, ControlInv
  <2>4. CASE OutOfSteps \/ Rest \/ UNCHANGED vars
    BY <2>4 DEF OutOfSteps, Rest, vars, state, graph, IInv, ControlInv
  <2>5. CASE NewQuery
    BY <2>5 DEF NewQuery, IInv, TypeInv, TypeOK
  <2>6. CASE \E verdict : Resume(verdict)
    BY <2>1, <2>6 DEF Resume
  <2>7. \/ ApplyOverride \/ WriteMemory \/ OutOfSteps \/ Rest \/ UNCHANGED vars
        \/ NewQuery \/ \E verdict : Resume(verdict)
    BY <2>1 DEF Next, Step, Superstep, ReadMemory, Plan, FanOutRouterNode, Worker,
                WorkerRaises, WorkersDone, Aggregate, FuseContext, EvalRisk,
                HitlGate, Compute, ComputeRaises, Synthesize
  <2> QED BY <2>2, <2>3, <2>4, <2>5, <2>6, <2>7
<1> QED BY <1>1, IInvInductive, PTL DEF Spec, RejectionIsFinal

(* A task that has a result is not dispatched again in any loop back to    *)
(* the fan-out, unless a reviewer has put it on the queue.                 *)
THEOREM TasksRunOnce == Spec => NoTaskRunsTwice
<1> DEFINE A == Ids(dispatched' \ dispatched) \cap Ids(sub_task_results) \subseteq edited
<1>1. IInv /\ [Next]_vars => [A]_vars
  <2> SUFFICES ASSUME IInv, [Next]_vars, NEW c \in dispatched' \ dispatched,
                      HasResult(c)
               PROVE  c.task_id \in edited
    BY DEF HasResult, Ids
  <2>1. Plan \/ FanOutRouterNode
    BY DEF Next, Step, Superstep, ReadMemory, Worker, WorkerRaises, WorkersDone,
           Aggregate, FuseContext, EvalRisk, HitlGate, ApplyOverride, Compute,
           ComputeRaises, Synthesize, WriteMemory, OutOfSteps, Resume, NewQuery, Rest,
           vars, workers
  <2>2. c \in Pending(tool_calls', FanOutTools)
    BY <2>1 DEF Plan, FanOutRouterNode, FanOutRouter, Ready, state
  <2>3. tool_calls' = tool_calls \/ sub_task_results = {}
    BY <2>1 DEF Plan, FanOutRouterNode, state, IInv, GovernanceInv, ResultsMirrored,
                ControlInv, Superstep
  <2>4. next # "aggregate_sub_tasks"
    BY <2>1 DEF Plan, FanOutRouterNode, Superstep
  <2> QED BY <2>2, <2>3, <2>4 DEF IInv, DispatchInv, NoneToRepeat, HasResult, Ids
<1> QED BY <1>1, IInvInductive, PTL DEF Spec, NoTaskRunsTwice

-----------------------------------------------------------------------------
(* The plans of the rules.  Whether arithmetic waits for all retrieval     *)
(* depends on the plan and on the risk engine: it may send a query to the  *)
(* reviewer while retrieval is pending, and APPROVE does not go back to    *)
(* it.  The rules' plans have two waves, and the first finds nothing that  *)
(* can escalate.                                                           *)

Waiting == Pending(tool_calls, RetrievalTools)

\* The tasks that have been sent out or have a result.
Sent == Ids(dispatched) \cup Ids(writes) \cup Ids(sub_task_results)

Behind == {c \in Waiting : c.task_id \notin Sent}

FirstWave == {"vector_retrieval", "table_extract"}

\* Nothing but the filing's table and one vector search has come in.
OneSearch ==
  LET found == tool_results \cup writes
      Searches(S) == {x \in S : x.tool = "vector_retrieval"}
  IN  /\ \A x \in found \cup dispatched : x.tool \in FirstWave
      /\ \A x, y \in Searches(found) : x = y
      /\ \A x, y \in Searches(dispatched) : x = y
      /\ Searches(found) = {} \/ Searches(dispatched) = {}

RulesInv ==
  /\ edited = {}
  /\ \A c \in tool_calls : c.tool \in RetrievalTools => c.deps \subseteq {1}
  /\ \A c \in tool_calls \cup dispatched : c.well_formed = TRUE
  /\ next # "sub_task_worker" => dispatched = {} /\ writes = {}
  /\ Waiting # {} => next \in {"sub_task_worker", "aggregate_sub_tasks", "fuse_context",
                               "eval_risk", "fan_out_router_node"}
  /\ Behind # {} => OneSearch /\ 1 \in Sent

LEMMA RuleQueueShape ==
  ASSUME NEW p \in RulePlans
  PROVE  /\ \A c \in Queue(p) : /\ c.well_formed = TRUE
                                /\ c.tool \in RetrievalTools => c.deps \subseteq {1}
                                /\ c.tool # "safe_math" /\ c.deps = {} => c.tool \in FirstWave
                                /\ c.tool = "vector_retrieval" => c.task_id = 1
         /\ \E c \in Queue(p) : /\ c.status = "PENDING" /\ c.task_id = 1
                                /\ c.tool = "vector_retrieval" /\ c.deps = {}
<1> DEFINE vector == T(1, "vector_retrieval", {})
           graph1 == T(2, "graph_retrieval", {1})
           graph2 == T(3, "graph_retrieval", {1})
           math == T(4, "safe_math", {2, 3})
           Shape(t) == /\ t.well_formed = TRUE
                       /\ t.tool \in RetrievalTools => t.deps \subseteq {1}
                       /\ t.tool # "safe_math" /\ t.deps = {} => t.tool \in FirstWave
                       /\ t.tool = "vector_retrieval" => t.task_id = 1
<1>1. Shape(vector) /\ Shape(graph1) /\ Shape(graph2) /\ Shape(math) /\ Shape(TableTask)
  BY DEF T, TableTask, RetrievalTools, FirstWave
<1>2. vector \in p /\ p \subseteq {vector, graph1, graph2, math}
  BY DEF RulePlans
<1>3. vector.task_id = 1 /\ vector.tool = "vector_retrieval" /\ vector.deps = {}
  BY DEF T
<1> HIDE DEF vector, graph1, graph2, math
<1>4. \A t \in p \cup {TableTask} : Shape(t)
  BY <1>1, <1>2
<1>5. \A c \in Queue(p) : Shape(c)
  <2>1. TAKE c \in Queue(p)
  <2>2. PICK t \in p \cup {TableTask} :
          /\ c.task_id = t.task_id /\ c.tool = t.tool /\ c.deps = t.deps
          /\ c.well_formed = t.well_formed
    BY DEF Queue
  <2>3. Shape(t)
    BY <1>4
  <2>4. QED
    BY <2>2, <2>3
<1>6. \E c \in Queue(p) : /\ c.status = "PENDING" /\ c.task_id = 1
                          /\ c.tool = "vector_retrieval" /\ c.deps = {}
  <2> DEFINE c == [task_id |-> vector.task_id, tool |-> vector.tool, deps |-> vector.deps,
                   refs |-> vector.refs, well_formed |-> vector.well_formed,
                   status |-> "PENDING"]
  <2>1. c \in Queue(p)
    BY <1>2 DEF Queue
  <2>2. /\ c.status = "PENDING" /\ c.task_id = 1
        /\ c.tool = "vector_retrieval" /\ c.deps = {}
    BY <1>3
  <2> QED BY <2>1, <2>2
<1> QED BY <1>5, <1>6

\* One search and a table give the risk engine nothing to escalate on.
LEMMA OneSearchPasses ==
  ASSUME TypeOK, Genuine(tool_results), OneSearch
  PROVE  ~MayEscalate
<1> DEFINE medium == {e \in tool_results : e.finding.severity = "MEDIUM"}
<1>1. \A e \in tool_results : /\ e.finding.data # "amount"
                              /\ e.finding.severity = "MEDIUM" => e.tool = "vector_retrieval"
  <2>1. TAKE e \in tool_results
  <2>2. e.tool \in FirstWave /\ e.finding \in Findings(e.tool)
    BY DEF OneSearch, Genuine
  <2>3. QED
    BY <2>2 DEF FirstWave, Findings, Failure, Harmless
<1>2. \A d, e \in medium : d = e
  BY <1>1 DEF OneSearch
<1>3. Cardinality(medium) \in {0, 1}
  <2> HIDE DEF medium
  <2>1. CASE medium = {}
    BY <2>1, FS_EmptySet
  <2>2. CASE medium # {}
    <3>1. PICK e \in medium : TRUE
      BY <2>2
    <3>2. medium = {e}
      BY <1>2, <3>1
    <3>3. Cardinality({e}) = 1
      BY FS_Singleton
    <3>4. Cardinality(medium) = 1
      BY <3>2, <3>3
    <3> QED BY <3>4
  <2> QED BY <2>1, <2>2
<1> QED BY <1>1, <1>3 DEF MayEscalate

\* While retrieval waits and no results have yet to be aggregated, what waits
\* has not been sent.
LEMMA WaitingIsBehind ==
  ASSUME DispatchInv, RulesInv,
         next \notin {"sub_task_worker", "aggregate_sub_tasks"}
  PROVE  Behind = Waiting
<1>1. dispatched = {} /\ writes = {} /\ Sent = Ids(sub_task_results)
  BY DEF RulesInv, Sent, Ids
<1>2. \A c \in Waiting : ~HasResult(c)
  BY DEF DispatchInv, NoneToRepeat, RulesInv, Waiting, Pending, FanOutTools
<1> QED BY <1>1, <1>2 DEF Behind, HasResult

\* A step to a node of which the invariant says nothing, with no retrieval
\* pending.
LEMMA RulesKept ==
  ASSUME RulesInv, Waiting = {}, tool_calls' \subseteq tool_calls,
         next # "sub_task_worker", next' # "sub_task_worker",
         UNCHANGED <<edited, dispatched, writes>>
  PROVE  RulesInv'
<1>1. Waiting' = {}
  BY DEF Waiting, Pending
<1> QED BY <1>1 DEF RulesInv, Behind

LEMMA RulesStep ==
  ASSUME LLMProposals = {}, EditPlans = {}
  PROVE  IInv /\ RulesInv /\ [Next]_vars => RulesInv'
<1> SUFFICES ASSUME IInv, RulesInv, [Next]_vars PROVE RulesInv'
  OBVIOUS
<1>0. /\ TypeOK /\ ControlInv /\ ResultsMirrored /\ DispatchInv
      /\ Genuine(tool_results)
  BY DEF IInv, TypeInv, GovernanceInv, ApprovalInv
<1> USE DEF graph, state, workers, history, vars, Superstep
<1>1. CASE Plan
  <2>1. /\ next = "plan" /\ Waiting = {} /\ dispatched = {} /\ writes = {}
        /\ final_answer = "none" /\ FanOutRouter(tool_calls')
        /\ UNCHANGED <<tool_results, sub_task_results, writes, edited>>
    BY <1>0, <1>1 DEF Plan, RulesInv, ControlInv
  <2>2. /\ dispatched' = Ready(tool_calls')
        /\ dispatched' # {} => next' = "sub_task_worker"
        /\ next' # "sub_task_worker" => dispatched' = {}
    BY <2>1 DEF FanOutRouter
  <2>3. CASE tool_calls' = tool_calls
    <3>1. Waiting' = {} /\ dispatched' \subseteq tool_calls
      BY <2>1, <2>2, <2>3 DEF Waiting, Pending, Ready
    <3> QED BY <2>1, <2>2, <2>3, <3>1 DEF RulesInv, Behind
  <2>4. ASSUME NEW p \in RulePlans, tool_calls' = Queue(p), tool_results = {}
        PROVE  RulesInv'
    <3>1. sub_task_results = {} /\ Ids(sub_task_results) = {}
      BY <1>0, <2>4 DEF ResultsMirrored, Ids
    <3>2. /\ \A c \in Queue(p) : /\ c.well_formed = TRUE
                                 /\ c.tool \in RetrievalTools => c.deps \subseteq {1}
                                 /\ c.tool # "safe_math" /\ c.deps = {} => c.tool \in FirstWave
                                 /\ c.tool = "vector_retrieval" => c.task_id = 1
          /\ \A c, d \in Queue(p) : c.task_id = d.task_id => c = d
      BY RuleQueueShape, QueueUnique
    <3>3. PICK c \in Queue(p) : /\ c.status = "PENDING" /\ c.task_id = 1
                               /\ c.tool = "vector_retrieval" /\ c.deps = {}
      BY RuleQueueShape
    <3>4. c \in dispatched'
      BY <2>2, <2>4, <3>3 DEF Ready, Pending, FanOutTools, RetrievalTools
    <3>5. \A d \in dispatched' : /\ d \in Queue(p) /\ d.tool # "safe_math"
                                 /\ d.deps = {}
      BY <2>2, <2>4, <3>1 DEF Ready, Pending, FanOutTools, RetrievalTools
    <3>6. OneSearch'
      BY <2>1, <2>4, <3>2, <3>5 DEF OneSearch
    <3>7. 1 \in Sent'
      BY <3>3, <3>4 DEF Sent, Ids
    <3>8. next' = "sub_task_worker"
      BY <2>2, <3>4
    <3> QED BY <2>1, <2>4, <3>2, <3>5, <3>6, <3>7, <3>8 DEF RulesInv
  <2> QED BY <1>1, <2>1, <2>3, <2>4 DEF Plan
<1>2. CASE FanOutRouterNode
  <2>1. /\ next = "fan_out_router_node" /\ dispatched = {} /\ writes = {}
        /\ UNCHANGED <<tool_calls, tool_results, sub_task_results, writes, edited>>
        /\ FanOutRouter(tool_calls)
    BY <1>2 DEF FanOutRouterNode, RulesInv
  <2>2. /\ dispatched' = Ready(tool_calls)
        /\ dispatched' # {} => next' = "sub_task_worker"
        /\ next' # "sub_task_worker" => dispatched' = {}
    BY <2>1 DEF FanOutRouter
  <2>3. Behind = Waiting /\ Waiting' = Waiting
    BY <1>0, <2>1, WaitingIsBehind DEF Waiting
  <2>4. Waiting \subseteq dispatched'
    <3>1. SUFFICES ASSUME NEW c \in Waiting PROVE c \in dispatched'
      OBVIOUS
    <3>2. 1 \in Ids(sub_task_results)
      BY <2>1, <2>3, <3>1 DEF RulesInv, Sent, Ids
    <3>3. c.deps \subseteq {1}
      BY <3>1 DEF RulesInv, Waiting, Pending
    <3> QED BY <2>2, <3>1, <3>2, <3>3 DEF Ready, Waiting, Pending, FanOutTools
  <2>5. Behind' = {}
    BY <2>3, <2>4 DEF Behind, Sent, Ids
  <2>6. dispatched' \subseteq tool_calls
    BY <2>2 DEF Ready, Pending
  <2>7. Waiting' # {} => next' = "sub_task_worker"
    BY <2>2, <2>3, <2>4
  <2> QED BY <2>1, <2>2, <2>5, <2>6, <2>7 DEF RulesInv
<1>3. ASSUME NEW c \in dispatched, Worker(c) PROVE RulesInv'
  <2>1. PICK f \in Findings(c.tool) : writes' = writes \cup {EnvelopeOf(c, f)}
    BY <1>3 DEF Worker
  <2> DEFINE e == EnvelopeOf(c, f)
  <2>2. e.task_id = c.task_id /\ e.tool = c.tool
    BY DEF EnvelopeOf
  <2>3. /\ next = "sub_task_worker" /\ dispatched' = dispatched \ {c}
        /\ UNCHANGED <<next, tool_calls, tool_results, sub_task_results, edited>>
    BY <1>3 DEF Worker
  <2> HIDE DEF e
  <2>4. Sent \subseteq Sent'
    BY <2>1, <2>2, <2>3 DEF Sent, Ids, e
  <2>5. Behind' \subseteq Behind /\ Waiting' = Waiting
    BY <2>3, <2>4 DEF Behind, Waiting
  <2>6. OneSearch => OneSearch'
    BY <2>1, <2>2, <2>3 DEF OneSearch, e
  <2> QED BY <2>3, <2>4, <2>5, <2>6 DEF RulesInv
<1>4. ASSUME NEW c \in dispatched, WorkerRaises(c) PROVE RulesInv'
  BY <1>4 DEF WorkerRaises, RulesInv
<1>5. CASE WorkersDone
  <2>1. /\ next = "sub_task_worker" /\ next' = "aggregate_sub_tasks"
        /\ dispatched = {} /\ dispatched' = {} /\ writes' = {}
        /\ tool_results' = tool_results \cup writes
        /\ sub_task_results' = Merge(sub_task_results, writes)
        /\ UNCHANGED <<tool_calls, edited>>
    BY <1>5 DEF WorkersDone, Extend
  <2>2. Sent \subseteq Sent'
    BY <2>1 DEF Sent, Ids, Merge
  <2>3. Behind' \subseteq Behind /\ Waiting' = Waiting
    BY <2>1, <2>2 DEF Behind, Waiting
  <2>4. OneSearch => OneSearch'
    BY <2>1 DEF OneSearch
  <2> QED BY <2>1, <2>2, <2>3, <2>4 DEF RulesInv
<1>6. CASE Aggregate
  <2>1. /\ next = "aggregate_sub_tasks" /\ next' \in {"fuse_context", "eval_risk"}
        /\ tool_calls' = {IF HasResult(c) THEN [c EXCEPT !.status = "COMPLETED"] ELSE c :
                            c \in tool_calls}
        /\ dispatched = {} /\ writes = {}
        /\ UNCHANGED <<dispatched, writes, tool_results, sub_task_results, edited>>
    BY <1>6 DEF Aggregate, RouteAfterAggregate, RulesInv
  <2>2. Sent = Ids(sub_task_results) /\ Sent' = Sent
    BY <2>1 DEF Sent, Ids
  <2>3. ASSUME NEW c \in tool_calls'
        PROVE  \E o \in tool_calls :
                 /\ c.tool = o.tool /\ c.deps = o.deps /\ c.well_formed = o.well_formed
                 /\ c.status = "PENDING" => c = o /\ ~HasResult(o)
    <3>1. PICK o \in tool_calls :
            c = IF HasResult(o) THEN [o EXCEPT !.status = "COMPLETED"] ELSE o
      BY <2>1, <2>3
    <3>2. o \in Call
      BY <1>0 DEF TypeOK
    <3> QED BY <3>1, <3>2 DEF Call
  <2>4. Waiting' \subseteq Behind
    BY <2>2, <2>3 DEF Waiting, Pending, Behind, HasResult
  <2>5. Behind' \subseteq Behind
    BY <2>4 DEF Behind
  <2>6. OneSearch => OneSearch'
    BY <2>1 DEF OneSearch
  <2> QED BY <2>1, <2>2, <2>3, <2>5, <2>6 DEF RulesInv
<1>7. CASE EvalRisk
  <2>1. /\ next = "eval_risk" /\ dispatched = {} /\ writes = {}
        /\ UNCHANGED <<tool_calls, dispatched, writes, tool_results, sub_task_results, edited>>
    BY <1>7 DEF EvalRisk, RulesInv
  <2>2. CASE Waiting = {}
    <3>1. next' # "sub_task_worker"
      BY <1>7 DEF EvalRisk, RouteAfterRisk
    <3> QED BY <2>1, <2>2, <3>1, RulesKept
  <2>3. CASE Waiting # {}
    <3>1. Behind = Waiting
      BY <1>0, <2>1, WaitingIsBehind
    <3>2. ~MayEscalate
      BY <1>0, <2>3, <3>1, OneSearchPasses DEF RulesInv
    <3>3. hitl_status' = "APPROVED"
      BY <1>7, <3>2 DEF EvalRisk
    <3>4. next' = "fan_out_router_node"
      BY <1>7, <2>3, <3>3 DEF EvalRisk, RouteAfterRisk, Waiting
    <3>5. Waiting' = Waiting /\ Behind' = Behind /\ Sent' = Sent /\ OneSearch' = OneSearch
      BY <2>1 DEF Waiting, Behind, Sent, OneSearch
    <3> QED BY <2>1, <3>4, <3>5 DEF RulesInv
  <2> QED BY <2>2, <2>3
<1>8. CASE FuseContext
  <2>1. /\ next = "fuse_context" /\ next' = "eval_risk"
        /\ UNCHANGED <<tool_calls, dispatched, writes, tool_results, sub_task_results, edited>>
    BY <1>8 DEF FuseContext
  <2>2. Waiting' = Waiting /\ Behind' = Behind /\ Sent' = Sent /\ OneSearch' = OneSearch
    BY <2>1 DEF Waiting, Behind, Sent, OneSearch
  <2> QED BY <2>1, <2>2 DEF RulesInv
<1>9. CASE Compute
  <2>1. /\ next = "compute" /\ Waiting = {} /\ tool_calls' \subseteq tool_calls
        /\ UNCHANGED <<edited, dispatched, writes>>
    BY <1>9 DEF Compute, RulesInv
  <2>2. next' # "sub_task_worker"
    BY <1>9 DEF Compute, RouteAfterCompute
  <2> QED BY <2>1, <2>2, RulesKept
<1>10. ASSUME NEW verdict, Resume(verdict) PROVE RulesInv'
  <2>1. next = "hitl_gate" /\ Waiting = {}
    BY <1>0, <1>10 DEF Resume, ControlInv, RulesInv
  <2>2. next' = "apply_override" /\ UNCHANGED <<tool_calls, edited, dispatched, writes>>
    BY <1>10 DEF Resume
  <2> QED BY <2>1, <2>2, RulesKept
<1>11. CASE ReadMemory
  BY <1>11, RulesKept DEF ReadMemory, RulesInv
<1>12. CASE ApplyOverride
  <2>1. next' # "sub_task_worker"
    BY <1>12 DEF ApplyOverride, RouteAfterOverride
  <2> QED BY <1>12, <2>1, RulesKept DEF ApplyOverride, RulesInv
<1>13. CASE Synthesize
  <2>1. next' # "sub_task_worker"
    BY <1>13 DEF Synthesize, RouteAfterSynthesize
  <2> QED BY <1>13, <2>1, RulesKept DEF Synthesize, RulesInv
<1>14. CASE WriteMemory
  BY <1>14, RulesKept DEF WriteMemory, RulesInv
<1>15. CASE NewQuery
  BY <1>15 DEF NewQuery, RulesInv, Waiting, Behind, Pending
<1>16. CASE HitlGate \/ ComputeRaises \/ OutOfSteps \/ Rest \/ UNCHANGED vars
  <2>1. UNCHANGED <<next, tool_calls, dispatched, writes, tool_results, sub_task_results, edited>>
    BY <1>16 DEF HitlGate, ComputeRaises, OutOfSteps, Rest
  <2>2. Waiting' = Waiting /\ Behind' = Behind /\ Sent' = Sent /\ OneSearch' = OneSearch
    BY <2>1 DEF Waiting, Behind, Sent, OneSearch
  <2> QED BY <2>1, <2>2 DEF RulesInv
<1> QED
  BY <1>1, <1>2, <1>3, <1>4, <1>5, <1>6, <1>7, <1>8, <1>9, <1>10, <1>11, <1>12,
     <1>13, <1>14, <1>15, <1>16 DEF Next, Step

(* When the rules plan and no reviewer replaces the queue, safe_math runs   *)
(* only after every retrieval task has run, whatever the tools return, in   *)
(* every query of the thread.                                               *)
THEOREM RulesComputeLast ==
  ASSUME LLMProposals = {}, EditPlans = {}
  PROVE  Spec => []MathSeesAllRetrieval
<1>1. Init => RulesInv
  BY DEF Init, RulesInv, Waiting, Behind, Pending
<1>2. IInv /\ RulesInv /\ [Next]_vars => RulesInv'
  BY RulesStep
<1>3. RulesInv => MathSeesAllRetrieval
  <2> SUFFICES ASSUME RulesInv, next = "compute",
                      NEW m \in Pending(tool_calls, {"safe_math"})
               PROVE  m.refs \cap Ids(Pending(tool_calls, RetrievalTools)) = {}
    BY DEF MathSeesAllRetrieval
  <2>1. Pending(tool_calls, RetrievalTools) = {}
    BY DEF RulesInv, Waiting
  <2> QED BY <2>1 DEF Ids
<1> QED BY <1>1, <1>2, <1>3, IInvInductive, PTL DEF Spec
=============================================================================
