------------------------ MODULE AgentGraphRefinement ------------------------
(***************************************************************************)
(* AgentGraph implements GovernedQuery, for every value of the constants:  *)
(* each node's step, under the invariant of AgentGraphProofs, is a step of *)
(* the abstract specification or leaves its variables unchanged.           *)
(***************************************************************************)
EXTENDS AgentGraphProofs

\* A step that neither touches what the mapping reads nor decides a verdict
\* is invisible to GovernedQuery.
LEMMA Stutter ==
  ASSUME UNCHANGED <<run, tool_results, inspected, released, cited,
                     final_answer, hitl_status>>
  PROVE  UNCHANGED Governed!vars
  BY DEF Governed!vars, Retrieved

\* The state of a query nothing has decided yet, at the nodes that work on it.
LEMMA OpenQuery ==
  ASSUME ControlInv, run = "running",
         next \notin {"apply_override", "write_memory", "END"}
  PROVE  Governed!Open
  BY DEF ControlInv, Governed!Open

LEMMA RetrievedMonotone ==
  ASSUME NEW S, NEW R, S \subseteq R
  PROVE  Retrieved(S) \subseteq Retrieved(R)
  BY DEF Retrieved

LEMMA InitRefines == Init => Governed!Init
  BY DEF Init, Governed!Init, Retrieved

-----------------------------------------------------------------------------
(* One lemma for each node that does more than stutter.                    *)

LEMMA WorkersDoneGathers ==
  ASSUME IInv, IInv', WorkersDone
  PROVE  Governed!Gather
<1>1. Governed!Open
  BY OpenQuery DEF WorkersDone, Superstep, IInv
<1>2. tool_results \subseteq tool_results'
  BY DEF WorkersDone, Extend
<1>3. Retrieved(tool_results') \in SUBSET Items
  BY DEF IInv, TypeInv, TypeOK, Items, Retrieved
<1>4. Retrieved(tool_results) \subseteq Retrieved(tool_results')
  BY <1>2, RetrievedMonotone
<1>5. UNCHANGED <<run, inspected, released, cited, final_answer, hitl_status>>
  BY DEF WorkersDone, history
<1> QED BY <1>1, <1>3, <1>4, <1>5 DEF Governed!Gather, Retrieved

LEMMA EvalRiskInspects ==
  ASSUME IInv, EvalRisk
  PROVE  Governed!Inspect
<1>1. Governed!Open
  BY OpenQuery DEF EvalRisk, Superstep, IInv
<1>2. hitl_status # "REJECT" /\ hitl_status' # "REJECT"
  BY DEF EvalRisk, Superstep, IInv, ControlInv
<1>3. /\ inspected' = tool_results
      /\ UNCHANGED <<run, tool_results, released, cited, final_answer>>
  BY DEF EvalRisk
<1> QED BY <1>1, <1>2, <1>3 DEF Governed!Inspect, Retrieved

LEMMA HitlGateSuspends ==
  ASSUME IInv, HitlGate
  PROVE  Governed!Suspend
<1>1. Governed!Open
  BY OpenQuery DEF HitlGate, IInv
<1>2. Retrieved(tool_results) \subseteq Retrieved(inspected)
  BY DEF HitlGate, IInv, GovernanceInv, Inspected, Retrieved
<1>3. /\ run' = "suspended"
      /\ UNCHANGED <<tool_results, inspected, released, cited, final_answer,
                     hitl_status>>
  BY DEF HitlGate, state, history
<1> QED BY <1>1, <1>2, <1>3 DEF Governed!Suspend, Retrieved

\* A verdict is a release when it is APPROVE or EDIT, else a rejection.
LEMMA ResumeDecides ==
  ASSUME IInv, NEW verdict, Resume(verdict)
  PROVE  Governed!Release \/ Governed!Reject
<1>1. /\ run = "suspended" /\ run' = "running"
      /\ UNCHANGED <<tool_results, inspected, cited, final_answer>>
  BY DEF Resume
<1>2. hitl_status # "REJECT"
  BY <1>1 DEF IInv, ControlInv
<1>3. CASE verdict \in {"APPROVE", "EDIT"}
  <2>1. hitl_status' # "REJECT" /\ released' = tool_results
    BY <1>3 DEF Resume
  <2> QED BY <1>1, <1>2, <2>1 DEF Governed!Release, Retrieved
<1>4. CASE verdict \notin {"APPROVE", "EDIT"}
  <2>1. hitl_status' = "REJECT" /\ released' = released
    BY <1>4 DEF Resume
  <2> QED BY <1>1, <2>1 DEF Governed!Reject, Retrieved
<1> QED BY <1>3, <1>4

LEMMA ApplyOverrideConfirms ==
  ASSUME IInv, ApplyOverride
  PROVE  Governed!ConfirmRejection \/ UNCHANGED Governed!vars
<1>1. /\ run = "running" /\ final_answer = "none"
      /\ UNCHANGED <<run, tool_results, inspected, released, cited, hitl_status>>
  BY DEF ApplyOverride, Superstep, history, IInv, ControlInv
<1>2. CASE hitl_status = "REJECT"
  <2>1. final_answer' = "rejected"
    BY <1>2 DEF ApplyOverride
  <2> QED BY <1>1, <1>2, <2>1 DEF Governed!ConfirmRejection, Retrieved
<1>3. CASE hitl_status # "REJECT"
  <2>1. final_answer' = final_answer
    BY <1>3 DEF ApplyOverride
  <2> QED BY <1>1, <2>1, Stutter
<1> QED BY <1>2, <1>3

\* Synthesis answers from what governance has passed, refuses when nothing
\* retrieved is in hand, or asks for another iteration.
LEMMA SynthesizeAnswers ==
  ASSUME IInv, Synthesize
  PROVE  Governed!Answer \/ Governed!Refuse \/ UNCHANGED Governed!vars
<1>1. Governed!Open
  BY OpenQuery DEF Synthesize, Superstep, IInv
<1>2. /\ UNCHANGED <<run, inspected, released, hitl_status>>
      /\ Retrieved(tool_results') = Retrieved(tool_results)
  BY SynthesisRetrievesNothing DEF Synthesize, IInv, TypeInv, GovernanceInv
<1>3. AllEnvelopes = tool_results
  BY AllEnvelopesIsToolResults DEF IInv, GovernanceInv
<1>4. Cleared
  BY DEF Synthesize, Superstep, IInv, GovernanceInv
<1>5. CASE Evidence # {}
  <2>1. final_answer' = "synthesised" /\ cited' \subseteq tool_results
    BY <1>3, <1>5 DEF Synthesize
  <2>2. Retrieved(cited') \subseteq Retrieved(tool_results)
    BY <2>1, RetrievedMonotone
  <2>3. /\ Retrieved(cited') \subseteq Retrieved(inspected)
        /\ Retrieved(cited') \cap Flagged \subseteq Retrieved(released)
    BY <1>4, <2>2 DEF Cleared, Inspected, High, Retrieved, Flagged
  <2> QED BY <1>1, <1>2, <2>1, <2>2, <2>3 DEF Governed!Answer, Retrieved
<1>6. CASE Evidence = {} /\ iteration_count >= MAX_GRAPH_ITERATIONS
  <2>1. final_answer' = "insufficient" /\ cited' = cited
    BY <1>6 DEF Synthesize
  <2>2. Retrieved(tool_results) = {}
    BY <1>3, <1>6 DEF Evidence, Retrieved, RetrievalTools
  <2> QED BY <1>1, <1>2, <2>1, <2>2 DEF Governed!Refuse, Retrieved
<1>7. CASE Evidence = {} /\ ~(iteration_count >= MAX_GRAPH_ITERATIONS)
  <2>1. final_answer' = final_answer /\ cited' = cited
    BY <1>7 DEF Synthesize
  <2> QED BY <1>2, <2>1 DEF Governed!vars
<1> QED BY <1>5, <1>6, <1>7

LEMMA ComputeStutters ==
  ASSUME IInv, Compute
  PROVE  UNCHANGED Governed!vars
<1>1. Retrieved(tool_results') = Retrieved(tool_results)
  BY ComputeRetrievesNothing DEF IInv, TypeInv, GovernanceInv
<1>2. UNCHANGED <<run, inspected, released, cited, final_answer, hitl_status>>
  BY DEF Compute, Superstep, history
<1> QED BY <1>1, <1>2 DEF Governed!vars, Retrieved

LEMMA WriteMemoryEnds ==
  ASSUME IInv, WriteMemory
  PROVE  Governed!End
<1>1. run = "running" /\ run' = "finished" /\ final_answer # "none"
  BY DEF WriteMemory, Superstep, IInv, ControlInv
<1>2. UNCHANGED <<tool_results, inspected, released, cited, final_answer,
                  hitl_status>>
  BY DEF WriteMemory, history
<1> QED BY <1>1, <1>2 DEF Governed!End, Retrieved

\* An exception of a worker or of compute, or the recursion limit.
LEMMA FailureFails ==
  ASSUME run = "running", run' \in {"crashed", "out_of_steps"},
         UNCHANGED <<state, history>>
  PROVE  Governed!Fail
  BY DEF Governed!Fail, Retrieved, state, history

LEMMA NewQueryRefines ==
  ASSUME NewQuery
  PROVE  Governed!NewQuery
  BY DEF NewQuery, Governed!NewQuery, Retrieved

-----------------------------------------------------------------------------
(* The refinement.                                                         *)

LEMMA StepRefines ==
  ASSUME IInv, IInv', [Next]_vars
  PROVE  [Governed!Next]_(Governed!vars)
<1> USE DEF graph, state, workers, history, Superstep
<1>1. CASE ReadMemory BY <1>1, Stutter DEF ReadMemory
<1>2. CASE Plan BY <1>2, Stutter DEF Plan
<1>3. CASE FanOutRouterNode BY <1>3, Stutter DEF FanOutRouterNode
<1>4. ASSUME NEW c \in dispatched, Worker(c) PROVE UNCHANGED Governed!vars
  BY <1>4, Stutter DEF Worker
<1>5. ASSUME NEW c \in dispatched, WorkerRaises(c) PROVE Governed!Fail
  BY <1>5, FailureFails DEF WorkerRaises
<1>6. CASE WorkersDone BY <1>6, WorkersDoneGathers DEF Governed!Next
<1>7. CASE Aggregate BY <1>7, Stutter DEF Aggregate
<1>8. CASE FuseContext BY <1>8, Stutter DEF FuseContext
<1>9. CASE EvalRisk BY <1>9, EvalRiskInspects DEF Governed!Next
<1>10. CASE HitlGate BY <1>10, HitlGateSuspends DEF Governed!Next
<1>11. CASE ApplyOverride BY <1>11, ApplyOverrideConfirms DEF Governed!Next
<1>12. CASE Compute BY <1>12, ComputeStutters
<1>13. CASE ComputeRaises BY <1>13, FailureFails DEF ComputeRaises, Governed!Next
<1>14. CASE Synthesize BY <1>14, SynthesizeAnswers DEF Governed!Next
<1>15. CASE WriteMemory BY <1>15, WriteMemoryEnds DEF Governed!Next
<1>16. CASE OutOfSteps BY <1>16, FailureFails DEF OutOfSteps, Governed!Next
<1>17. ASSUME NEW verdict, Resume(verdict)
       PROVE  Governed!Release \/ Governed!Reject
  BY <1>17, ResumeDecides
<1>18. CASE NewQuery BY <1>18, NewQueryRefines DEF Governed!Next
<1>19. CASE Rest \/ UNCHANGED vars
  BY <1>19, Stutter DEF Rest, vars
<1> QED
  BY <1>1, <1>2, <1>3, <1>4, <1>5, <1>6, <1>7, <1>8, <1>9, <1>10, <1>11, <1>12,
     <1>13, <1>14, <1>15, <1>16, <1>17, <1>18, <1>19
     DEF Next, Step, Governed!Next

(* The graph implements governed answering: whatever the plans, edits,     *)
(* failures and earlier queries, every step of a thread is one that        *)
(* GovernedQuery allows or one it does not see.                            *)
THEOREM GraphImplementsGovernedQuery == Spec => ImplementsGovernedQuery
<1>1. Init => Governed!Init
  BY InitRefines
<1>2. IInv /\ IInv' /\ [Next]_vars => [Governed!Next]_(Governed!vars)
  BY StepRefines
<1> QED
  BY <1>1, <1>2, IInvInductive, PTL
     DEF Spec, ImplementsGovernedQuery, Governed!Spec
=============================================================================
