------------------------------- MODULE Gateway -------------------------------
(***************************************************************************)
(* The FastAPI gateway over the graph: asynchronous jobs, streamed queries,*)
(* the approvals listing and the resume endpoint (agent/server/routes.py,  *)
(* agent/server/streaming.py), on the checkpointer that the process found  *)
(* when it started (agent/memory/working.py).                              *)
(*                                                                         *)
(* The handlers are coroutines of one event loop: what a handler does      *)
(* between two awaits is one step.  The graph runs in worker threads beside*)
(* it, one per request, and nothing keeps two of them off the same         *)
(* conversation thread.  A run of the graph is what the gateway sees of    *)
(* AgentGraph: it writes a checkpoint after every superstep, and it stops  *)
(* at the human-in-the-loop gate, at the end, or with an exception.        *)
(***************************************************************************)
EXTENDS Naturals, Sequences

CONSTANTS Threads,     \* conversation threads
          Queries,     \* bound: queries that are ever sent
          Reviews,     \* bound: verdicts that are ever sent
          NoRequest,
          MaxRestarts  \* bound: restarts of the gateway process

Requests == Queries \cup Reviews

ASSUME GatewayAssumption ==
  /\ Queries \cap Reviews = {}
  /\ NoRequest \notin Requests
  /\ MaxRestarts \in Nat

\* What the latest checkpoint of a thread says: there is none, a node is next,
\* hitl_gate is next and interrupted, the graph has ended.
Checkpoints == {"none", "mid", "gate", "end"}

VARIABLES
  saver,    \* the checkpointer of this process: "redis" or "memory"
  store,    \* the latest checkpoint of every thread, in each checkpointer
  active,   \* ACTIVE_THREADS
  kind,     \* what a request is: "async", "stream" or "resume"
  thread,   \* the conversation thread a request is about
  pc,       \* how far a request and its run of the graph have come
  queue,    \* chunks its run has put on the stream's queue
  answered, \* streams that have sent a final_answer frame
  reply,    \* job status, closing frame or response
  watching, \* streams whose client is still connected
  restarts

\* History variables, read by the properties only.
VARIABLES
  writer,   \* the request whose run wrote a thread's latest checkpoint
  lost      \* how a thread left the registry with something on it under way, since
            \* a query last registered it: see Losses

checkpointer == <<saver, store, writer>>
registry == <<active, lost>>
request == <<kind, thread>>
vars == <<checkpointer, registry, request, pc, queue, answered, reply,
          watching, restarts>>

\* agent.get_state(config), as far as the handlers look at it.
Latest(t) == store[saver][t]

\* bool(snapshot.next): every checkpoint but the last one has a next node.
IsPaused(c) == c \in {"mid", "gate"}

\* A restart emptied the registry; the listing looked before a request accepted on
\* the thread had begun ("early"); the listing saw the end that another run had
\* written over a run still going ("overtaken").
Losses == {"no", "restart", "early", "overtaken"}

InFlight(r) == pc[r] \in {"accepted", "invoking", "running", "answering"}

Finished == {"settled", "refused", "dead"}

-----------------------------------------------------------------------------
(* The endpoints that accept a request.                                    *)

\* A request is new; which of the unused identities it gets does not matter.
Fresh(some) == CHOOSE r \in some : pc[r] = "unused"

Accept(r, t, k, status, answer) ==
  /\ pc[r] = "unused" /\ r = Fresh(IF r \in Queries THEN Queries ELSE Reviews)
  /\ kind' = [kind EXCEPT ![r] = k]
  /\ thread' = [thread EXCEPT ![r] = t]
  /\ pc' = [pc EXCEPT ![r] = status]
  /\ reply' = [reply EXCEPT ![r] = answer]
  /\ UNCHANGED <<checkpointer, queue, answered, restarts>>

Register(t) ==
  /\ active' = active \cup {t}
  /\ lost' = [lost EXCEPT ![t] = "no"]

\* query_async_endpoint
SubmitAsync(r, t) ==
  /\ Accept(r, t, "async", "accepted", "QUEUED")
  /\ Register(t)
  /\ UNCHANGED watching

\* query_stream_endpoint
SubmitStream(r, t) ==
  /\ Accept(r, t, "stream", "accepted", "none")
  /\ Register(t)
  /\ watching' = watching \cup {r}

\* resume_thread_endpoint up to the invoke: the state is read on the loop, and
\* a thread that is not paused, or cannot be read, is refused.
SubmitResume(r, t) ==
  /\ \/ IsPaused(Latest(t)) /\ Accept(r, t, "resume", "invoking", "none")
     \/ Accept(r, t, "resume", "refused", "none")
  /\ UNCHANGED <<registry, watching>>

\* Mutant of Prunable: everything that is not at the gate is pruned.
PrunableUnlessSuspended(c) == c # "gate"

\* No checkpointed state, or final_answer / is_terminal and nothing next.
Prunable(c) == ~IsPaused(c)

\* What dropping a thread from the registry does to the requests on it.
Loss(t) ==
  CASE \E r \in Requests : thread[r] = t /\ pc[r] \in {"accepted", "invoking"} -> "early"
    [] \E r \in Requests : /\ thread[r] = t /\ pc[r] \in {"running", "answering"}
                           /\ Latest(t) = "end" /\ writer[t] \notin {r, NoRequest} -> "overtaken"
    [] OTHER -> lost[t]

\* list_approvals_endpoint: threads without a checkpoint and threads that have
\* ended leave the registry; a thread whose state cannot be read stays.  The
\* reads of different threads do not depend on one another, so the handler is
\* one step.
ListApprovals ==
  \E readable \in SUBSET active :
    LET stale == {t \in readable : Prunable(Latest(t))}
    IN  /\ stale # {}
        /\ active' = active \ stale
        /\ lost' = [t \in Threads |-> IF t \in stale THEN Loss(t) ELSE lost[t]]
        /\ UNCHANGED <<checkpointer, request, pc, queue,
                       answered, reply, watching, restarts>>

-----------------------------------------------------------------------------
(* The run of the graph in a worker thread (external to src/agent/server). *)

Write(r, c) ==
  /\ store' = [store EXCEPT ![saver][thread[r]] = c]
  /\ writer' = [writer EXCEPT ![thread[r]] = r]
  /\ UNCHANGED saver

Move(r, status) == pc' = [pc EXCEPT ![r] = status]

\* Mutant of Emit: an exception leaves the queue without a closing element.
EmitUnlessRaised(r, chunks) ==
  queue' = IF r \in watching /\ Head(chunks) # "error"
           THEN [queue EXCEPT ![r] = @ \o chunks] ELSE queue

\* _run_graph hands its chunks, then "error" or nothing, then "done", to the
\* loop; only a stream has a queue, and nobody reads it once the client left.
\* Chunks without an answer only make node_update frames and are left out.
Emit(r, chunks) ==
  queue' = IF r \in watching THEN [queue EXCEPT ![r] = @ \o chunks] ELSE queue

\* The invoke begins: a query's input is checkpointed, a resume reads the
\* checkpoint it continues from and finds nothing to run on an ended thread.
Begin(r) ==
  /\ pc[r] = "invoking"
  /\ IF kind[r] = "resume"
     THEN /\ Move(r, IF Latest(thread[r]) = "end" THEN "ended" ELSE "running")
          /\ UNCHANGED checkpointer
     ELSE Move(r, "running") /\ Write(r, "mid")
  /\ UNCHANGED <<registry, request, queue, answered, reply, watching, restarts>>

Superstep(r) ==
  /\ pc[r] = "running"
  /\ Write(r, "mid")
  /\ UNCHANGED <<registry, request, pc, queue, answered, reply, watching, restarts>>

\* The node that sets final_answer.
Answer(r) ==
  /\ pc[r] = "running"
  /\ Move(r, "answering")
  /\ Write(r, "mid")
  /\ Emit(r, <<"answer">>)
  /\ UNCHANGED <<registry, request, answered, reply, watching, restarts>>

Suspend(r) ==
  /\ pc[r] = "running"
  /\ Move(r, "suspended")
  /\ Write(r, "gate")
  /\ Emit(r, <<"done">>)
  /\ UNCHANGED <<registry, request, answered, reply, watching, restarts>>

End(r) ==
  /\ pc[r] = "answering"
  /\ Move(r, "ended")
  /\ Write(r, "end")
  /\ Emit(r, <<"done">>)
  /\ UNCHANGED <<registry, request, answered, reply, watching, restarts>>

\* A node or the checkpointer raises: the last checkpoint stays.
Raise(r) ==
  /\ pc[r] \in {"invoking", "running", "answering"}
  /\ Move(r, "raised")
  /\ Emit(r, <<"error", "done">>)
  /\ UNCHANGED <<checkpointer, registry, request, answered, reply, watching, restarts>>

-----------------------------------------------------------------------------
(* The coroutines that wait for a run.                                     *)

Settle(r, answer) ==
  /\ Move(r, "settled")
  /\ reply' = [reply EXCEPT ![r] = answer]

\* _execute_background_job up to the invoke.
JobStart(r) ==
  /\ kind[r] = "async" /\ pc[r] = "accepted"
  /\ pc' = [pc EXCEPT ![r] = "invoking"]
  /\ reply' = [reply EXCEPT ![r] = "RUNNING"]
  /\ UNCHANGED <<checkpointer, registry, request, queue, answered,
                 watching, restarts>>

\* Mutant of JobStatus: the job is complete when its invoke returns.
JobStatusOnReturn(c) == "COMPLETED"

\* Mutant of JobStatus: the graph's own word for a suspension.
JobStatusVerbatim(c) == IF IsPaused(c) THEN "PENDING" ELSE "COMPLETED"

JobStatus(c) == IF IsPaused(c) THEN "SUSPENDED_HITL" ELSE "COMPLETED"

\* _execute_background_job after the invoke: the state is read again, and a
\* failure to read it is the job's failure.
JobEnd(r) ==
  /\ kind[r] = "async" /\ pc[r] \in {"suspended", "ended", "raised"}
  /\ \/ pc[r] # "raised" /\ Settle(r, JobStatus(Latest(thread[r])))
     \/ Settle(r, "FAILED")
  /\ UNCHANGED <<checkpointer, registry, request, queue, answered, watching,
                 restarts>>

\* stream_agent_events up to the start of the worker thread.
StreamStart(r) ==
  /\ kind[r] = "stream" /\ pc[r] = "accepted" /\ r \in watching
  /\ pc' = [pc EXCEPT ![r] = "invoking"]
  /\ reply' = [reply EXCEPT ![r] = "lifecycle"]
  /\ UNCHANGED <<checkpointer, registry, request, queue, answered,
                 watching, restarts>>

\* One element of the queue is turned into frames.  After "done" the state is
\* read again to choose the closing frame; if that read fails the generator
\* dies and the stream has none.
Forward(r) ==
  /\ r \in watching /\ queue[r] # <<>>
  /\ queue' = [queue EXCEPT ![r] = Tail(@)]
  /\ CASE Head(queue[r]) = "answer" ->
            answered' = answered \cup {r} /\ UNCHANGED <<pc, reply, watching>>
       [] Head(queue[r]) = "error" ->
            Settle(r, "error") /\ watching' = watching \ {r} /\ UNCHANGED answered
       [] OTHER ->
            /\ \/ Settle(r, IF IsPaused(Latest(thread[r])) THEN "interrupt" ELSE "complete")
               \/ Settle(r, "aborted")
            /\ watching' = watching \ {r}
            /\ UNCHANGED answered
  /\ UNCHANGED <<checkpointer, registry, request, restarts>>

\* The client closes the connection: the generator is dropped, the worker
\* thread, a daemon nobody joins, runs on to its end.
ClientLeaves(r) ==
  /\ r \in watching
  /\ watching' = watching \ {r}
  /\ queue' = [queue EXCEPT ![r] = <<>>]
  /\ UNCHANGED <<checkpointer, registry, request, pc, answered, reply, restarts>>

\* resume_thread_endpoint after the invoke.
ResumeEnd(r) ==
  /\ kind[r] = "resume" /\ pc[r] \in {"suspended", "ended", "raised"}
  /\ Settle(r, IF pc[r] = "raised" THEN "500" ELSE "RESUMED")
  /\ UNCHANGED <<checkpointer, registry, request, queue, answered, watching,
                 restarts>>

-----------------------------------------------------------------------------
\* The process is killed and started again: JOB_STORE, ACTIVE_THREADS, every
\* run and what a MemorySaver held are gone; get_checkpointer takes Redis if it
\* answers and a MemorySaver if it does not.  (A restart before the first
\* request is another initial state.)
Restart ==
  /\ restarts < MaxRestarts /\ \E r \in Requests : pc[r] # "unused"
  /\ restarts' = restarts + 1
  /\ \E s \in {"redis", "memory"} : saver' = s
  /\ store' = [store EXCEPT !["memory"] = [t \in Threads |-> "none"]]
  /\ active' = {} /\ lost' = [t \in Threads |-> "restart"]
  /\ pc' = [r \in Requests |-> IF pc[r] = "unused" THEN "unused" ELSE "dead"]
  /\ writer' = [t \in Threads |-> NoRequest]
  /\ queue' = [r \in Requests |-> <<>>]
  /\ watching' = {}
  /\ kind' = [r \in Requests |-> "none"]
  /\ reply' = [r \in Requests |-> "none"]
  /\ answered' = {}
  /\ UNCHANGED thread

Init ==
  /\ saver \in {"redis", "memory"}
  /\ store = [s \in {"redis", "memory"} |-> [t \in Threads |-> "none"]]
  /\ active = {}
  /\ kind = [r \in Requests |-> "none"]
  /\ \E t \in Threads : thread = [r \in Requests |-> t]
  /\ pc = [r \in Requests |-> "unused"]
  /\ queue = [r \in Requests |-> <<>>]
  /\ answered = {} /\ watching = {}
  /\ reply = [r \in Requests |-> "none"]
  /\ restarts = 0
  /\ writer = [t \in Threads |-> NoRequest]
  /\ lost = [t \in Threads |-> "no"]

Run(r) == Begin(r) \/ Answer(r) \/ Suspend(r) \/ End(r) \/ Raise(r)

Await(r) ==
  JobStart(r) \/ JobEnd(r) \/ StreamStart(r) \/ Forward(r) \/ ResumeEnd(r)

Next ==
  \/ \E t \in Threads :
       \/ \E q \in Queries : SubmitAsync(q, t) \/ SubmitStream(q, t)
       \/ \E v \in Reviews : SubmitResume(v, t)
  \/ \E r \in Requests :
       \/ Run(r) \/ Superstep(r) \/ Await(r) \/ ClientLeaves(r)
  \/ ListApprovals
  \/ Restart

Spec == Init /\ [][Next]_vars

\* Worker threads run, a run comes to its end (AgentGraph bounds its
\* supersteps), and the event loop wakes its coroutines; clients, reviewers
\* and the operator owe nothing.
FairSpec == Spec /\ \A r \in Requests : WF_vars(Run(r)) /\ WF_vars(Await(r))

-----------------------------------------------------------------------------
(* Properties.                                                             *)

(* Type invariant: the registries, the requests and their runs.            *)
TypeOK ==
  /\ saver \in {"redis", "memory"}
  /\ store \in [{"redis", "memory"} -> [Threads -> Checkpoints]]
  /\ active \subseteq Threads /\ lost \in [Threads -> Losses]
  /\ kind \in [Requests -> {"none", "async", "stream", "resume"}]
  /\ thread \in [Requests -> Threads]
  /\ pc \in [Requests -> {"unused", "accepted", "invoking", "running", "answering",
                          "suspended", "ended", "raised"} \cup Finished]
  /\ queue \in [Requests -> Seq({"answer", "error", "done"})]
  /\ answered \subseteq Requests /\ watching \subseteq Requests
  /\ reply \in [Requests -> {"none", "QUEUED", "RUNNING", "SUSPENDED_HITL",
       "COMPLETED", "FAILED", "lifecycle", "interrupt", "complete", "error",
       "aborted", "RESUMED", "500"}]
  /\ restarts \in 0..MaxRestarts
  /\ writer \in [Threads -> Requests \cup {NoRequest}]

(* A thread that waits for a reviewer is in the registry the approvals      *)
(* listing reads: the listing keeps a thread whose run is under way ("mid-  *)
(* run threads have neither flag set and are kept", routes.py:263-264).  It *)
(* loses one in three ways only: to a restart; by looking at the thread     *)
(* when a request accepted on it has not begun, so that no checkpoint or    *)
(* the last query's is there; and, where two runs share the thread, by      *)
(* looking when the other run has just ended it.                            *)
SuspendedIsListed ==
  \A t \in Threads : Latest(t) = "gate" => t \in active \/ lost[t] # "no"

\* Another run of this process has written the thread's latest checkpoint.
Overtaken(r) == writer[thread[r]] \notin {r, NoRequest}

(* Nobody is told that a run is suspended or complete while it goes on, or  *)
(* after it failed.  What a job or a stream is told is what its own run     *)
(* did, unless another run has moved the thread in between: then a run that *)
(* ended may be told it is suspended, and a run at the gate that it is      *)
(* complete, but only if the other run has really ended the thread.  Only   *)
(* in that last case is a stream closed as complete without an answer.      *)
ToldWhatHappened ==
  [][\A r \in Requests : reply'[r] # reply[r] =>
       /\ reply'[r] \in {"SUSPENDED_HITL", "interrupt"} =>
            pc[r] = "suspended" \/ (pc[r] = "ended" /\ Overtaken(r))
       /\ reply'[r] \in {"COMPLETED", "complete"} =>
            \/ pc[r] = "ended"
            \/ pc[r] = "suspended" /\ Overtaken(r) /\ Latest(thread[r]) = "end"
       /\ reply'[r] = "complete" => r \in answered \/ pc[r] = "suspended"]_vars

(* "Mid-run threads have neither flag set and are kept" (routes.py:263-264):*)
(* the listing drops no thread that has a request under way.                *)
MidRunKept ==
  [][\A t \in active \ active', r \in Requests :
       thread[r] = t /\ InFlight(r) => pc'[r] = "dead"]_vars

(* Every request that is accepted is answered, whatever the other requests  *)
(* on its thread do: a job leaves QUEUED and RUNNING, a stream is closed, a *)
(* resume returns, unless the client leaves or the process dies.            *)
EveryRequestAnswered ==
  \A r \in Requests : (pc[r] # "unused") ~> (pc[r] \in Finished \/
                                             (kind[r] = "stream" /\ r \notin watching))

\* The items of list_approvals_endpoint when every state can be read.
PendingApprovals == {t \in active : IsPaused(Latest(t))}

(* The approvals listing shows threads that wait for a reviewer, and no     *)
(* thread whose graph is still running.  The code takes "has a next node"   *)
(* for "is paused", and so lists, and lets be resumed, a thread between two *)
(* supersteps.                                                              *)
PendingAwaitReview == \A t \in PendingApprovals : Latest(t) = "gate"
=============================================================================
