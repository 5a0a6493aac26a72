--------------------------- MODULE GovernedQuery ---------------------------
(***************************************************************************)
(* What the agent promises of one conversation thread, without its graph:  *)
(* evidence is gathered, inspected by the risk engine, released by a       *)
(* reviewer when it is flagged, and only then cited.  There are no nodes,  *)
(* no plans, no queue and no iteration limit here; AgentGraph implements   *)
(* this specification.                                                     *)
(***************************************************************************)

CONSTANTS Items,    \* what retrieval can come back with
          Flagged   \* the items that must not be cited unreleased

VARIABLES
  phase,      \* "running", "suspended", "finished", "crashed", "out_of_steps"
  held,       \* items on the thread, those of earlier queries included
  inspected,  \* items the risk engine has read for this query
  released,   \* items a reviewer had in view when releasing this query
  rejected,   \* a reviewer has rejected this query
  answer,     \* "none", "synthesised", "insufficient", "rejected"
  cited       \* the items the answer is built from

vars == <<phase, held, inspected, released, rejected, answer, cited>>

Init ==
  /\ phase = "running"
  /\ held = {} /\ inspected = {} /\ released = {} /\ cited = {}
  /\ rejected = FALSE
  /\ answer = "none"

\* The query is being worked on, and nothing has decided it.
Open == phase = "running" /\ answer = "none" /\ ~rejected

Gather ==
  /\ Open
  /\ held' \in SUBSET Items
  /\ held \subseteq held'
  /\ UNCHANGED <<phase, inspected, released, rejected, answer, cited>>

Inspect ==
  /\ Open
  /\ inspected' = held
  /\ UNCHANGED <<phase, held, released, rejected, answer, cited>>

\* A reviewer is asked about everything there is, never about a part of it.
Suspend ==
  /\ Open
  /\ held \subseteq inspected
  /\ phase' = "suspended"
  /\ UNCHANGED <<held, inspected, released, rejected, answer, cited>>

Release ==
  /\ phase = "suspended"
  /\ phase' = "running"
  /\ released' = held
  /\ UNCHANGED <<held, inspected, rejected, answer, cited>>

Reject ==
  /\ phase = "suspended"
  /\ phase' = "running"
  /\ rejected' = TRUE
  /\ UNCHANGED <<held, inspected, released, answer, cited>>

\* An answer cites what was inspected and, where flagged, released.
Answer ==
  /\ Open
  /\ cited' \in SUBSET held
  /\ cited' \subseteq inspected
  /\ cited' \cap Flagged \subseteq released
  /\ answer' = "synthesised"
  /\ UNCHANGED <<phase, held, inspected, released, rejected>>

\* The agent refuses only when it holds nothing.
Refuse ==
  /\ Open
  /\ held = {}
  /\ answer' = "insufficient"
  /\ UNCHANGED <<phase, held, inspected, released, rejected, cited>>

ConfirmRejection ==
  /\ phase = "running" /\ answer = "none" /\ rejected
  /\ answer' = "rejected"
  /\ UNCHANGED <<phase, held, inspected, released, rejected, cited>>

End ==
  /\ phase = "running"
  /\ answer # "none"
  /\ phase' = "finished"
  /\ UNCHANGED <<held, inspected, released, rejected, answer, cited>>

Fail ==
  /\ phase = "running"
  /\ phase' \in {"crashed", "out_of_steps"}
  /\ UNCHANGED <<held, inspected, released, rejected, answer, cited>>

\* The next query on the thread: nothing of the last one's governance
\* carries over, everything it gathered does.
NewQuery ==
  /\ phase # "running"
  /\ phase' = "running"
  /\ inspected' = {} /\ released' = {} /\ cited' = {}
  /\ rejected' = FALSE
  /\ answer' = "none"
  /\ UNCHANGED held

Next ==
  \/ Gather \/ Inspect \/ Suspend \/ Release \/ Reject
  \/ Answer \/ Refuse \/ ConfirmRejection \/ End \/ Fail \/ NewQuery

Spec == Init /\ [][Next]_vars
=============================================================================
