---------------------------- MODULE MCAgentGraph ----------------------------
(* Instances of AgentGraph for TLC.                                        *)
EXTENDS AgentGraph

NoPlans == {}
NoEdits == {}

V(id) == T(id, "vector_retrieval", {})
G(id, deps) == T(id, "graph_retrieval", deps)
M(id, deps) == T(id, "safe_math", deps)

\* What the planner model may emit over at most two tasks, valid or not.
ShortPlans ==
  LET first == {T(1, tool, {}) : tool \in Tools \ {"table_extract"}}
      second == {T(2, tool, deps) : tool \in Tools \ {"table_extract"},
                                    deps \in SUBSET {1}}
  IN  {{}} \cup {{a} : a \in first} \cup {{a, b} : a \in first, b \in second}

\* Longer plans the validator accepts: two graph waves under a figure; a
\* retrieval that waits for a figure; a figure of a figure; three waves; a
\* payload with a malformed year; two independent graph tasks.
LongPlans ==
  {{G(1, {}), G(2, {1}), M(3, {2})},
   {G(1, {}), M(2, {1}), G(3, {2})},
   {V(1), G(2, {1}), M(3, {2}), M(4, {3})},
   {V(1), G(2, {1}), G(3, {2})},
   {V(1), [G(2, {1}) EXCEPT !.well_formed = FALSE]},
   {[V(1) EXCEPT !.well_formed = FALSE], G(2, {}), M(3, {2})},
   {G(1, {}), G(2, {}), M(3, {1, 2})},
   {V(1), V(2), V(3)}}

AllPlans == ShortPlans \cup LongPlans

TwoPlans == {{V(1)}, {G(1, {}), M(2, {1})}}

Requeue(p) == {[task_id |-> t.task_id, tool |-> t.tool, deps |-> t.deps,
                refs |-> t.refs, well_formed |-> t.well_formed,
                status |-> "PENDING"] : t \in p}

\* What reviewers send: the retrieval again and the figure over it, a figure
\* alone, an empty queue, a second retrieval behind the first.
Edits == {Requeue({G(2, {}), M(4, {2})}), Requeue({M(4, {2})}), {},
          Requeue({G(5, {2})})}
=============================================================================
