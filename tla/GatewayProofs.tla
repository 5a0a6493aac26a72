---------------------------- MODULE GatewayProofs ----------------------------
(***************************************************************************)
(* Proofs about Gateway, for every set of threads, queries and verdicts    *)
(* and any number of restarts.                                             *)
(***************************************************************************)
EXTENDS Gateway, SequenceTheorems, TLAPS

\* The request whose run wrote a thread's latest checkpoint is about that
\* thread, and what the checkpoint says is how far that run has come.
WriterInv ==
  \A r \in Requests, t \in Threads : writer[t] = r =>
    /\ thread[r] = t
    /\ pc[r] \in {"running", "answering", "suspended", "ended", "raised", "settled"}
    /\ pc[r] \in {"running", "answering"} => Latest(t) = "mid"
    /\ pc[r] = "suspended" => Latest(t) = "gate"
    /\ pc[r] = "ended" => Latest(t) = "end"

\* A run that has moved its thread has left a checkpoint there: a query writes one
\* when it begins, and a resume continues from one.
MovedInv ==
  /\ \A t \in Threads : writer[t] # NoRequest => Latest(t) # "none"
  /\ \A r \in Requests :
       kind[r] # "resume" /\ pc[r] \in {"running", "answering", "suspended", "ended"} =>
         writer[thread[r]] # NoRequest
  /\ \A r \in Requests :
       kind[r] = "resume" /\ pc[r] \in {"invoking", "running", "answering"} =>
         IsPaused(Latest(thread[r])) \/ writer[thread[r]] # NoRequest

\* A thread that is neither registered nor lost has nothing to wait for: its
\* graph is not paused and no request on it is under way.
ListedInv ==
  \A t \in Threads : t \notin active /\ lost[t] = "no" =>
    /\ ~IsPaused(Latest(t))
    /\ \A r \in Requests : thread[r] = t => ~InFlight(r)

\* What is on a stream's queue, by how far its run has come.
Pending(status) ==
  CASE status \in {"accepted", "invoking", "running"} -> {<<>>}
    [] status = "answering" -> {<<>>, <<"answer">>}
    [] status = "suspended" -> {<<"done">>}
    [] status = "ended"     -> {<<"done">>, <<"answer", "done">>}
    [] status = "raised"    -> {<<"error", "done">>, <<"answer", "error", "done">>}
    [] OTHER                -> {}

\* The answer of a watched stream is on its queue or has been sent.
QueueInv ==
  \A r \in Requests :
    /\ pc[r] = "unused" => queue[r] = <<>>
    /\ r \in watching =>
         /\ kind[r] = "stream"
         /\ queue[r] \in Pending(pc[r])
         /\ pc[r] = "answering" /\ queue[r] = <<>> => r \in answered
         /\ pc[r] = "ended" /\ queue[r] = <<"done">> => r \in answered

IInv == TypeOK /\ WriterInv /\ MovedInv /\ ListedInv /\ QueueInv

-----------------------------------------------------------------------------
(* Lemmas about the helpers.                                               *)

LEMMA NotARequest == NoRequest \notin Requests
  BY GatewayAssumption

LEMMA EmitTyped ==
  ASSUME TypeOK, NEW r \in Requests, NEW chunks \in Seq({"answer", "error", "done"}),
         Emit(r, chunks)
  PROVE  queue' \in [Requests -> Seq({"answer", "error", "done"})]
<1>1. queue[r] \o chunks \in Seq({"answer", "error", "done"})
  BY ConcatProperties DEF TypeOK
<1> QED BY <1>1 DEF Emit, TypeOK

\* A chunk reaches the queue of a watched stream only.
LEMMA EmitAppends ==
  ASSUME TypeOK, NEW r \in Requests, NEW chunks, Emit(r, chunks)
  PROVE  /\ r \in watching => queue'[r] = queue[r] \o chunks
         /\ \A o \in Requests : o # r \/ o \notin watching => queue'[o] = queue[o]
  BY DEF Emit, TypeOK

LEMMA WriteTyped ==
  ASSUME TypeOK, NEW r \in Requests, NEW c \in Checkpoints, Write(r, c)
  PROVE  /\ saver' = saver
         /\ store' \in [{"redis", "memory"} -> [Threads -> Checkpoints]]
         /\ writer' \in [Threads -> Requests \cup {NoRequest}]
<1>1. [store[saver] EXCEPT ![thread[r]] = c] \in [Threads -> Checkpoints]
  BY DEF TypeOK
<1> QED BY <1>1 DEF Write, TypeOK

\* A write makes the request the writer of its thread and touches no other.
LEMMA WriteIsLatest ==
  ASSUME TypeOK, NEW r \in Requests, NEW c \in Checkpoints, Write(r, c)
  PROVE  \A t \in Threads :
           /\ Latest(t)' = IF t = thread[r] THEN c ELSE Latest(t)
           /\ writer'[t] = IF t = thread[r] THEN r ELSE writer[t]
  BY DEF Write, TypeOK, Latest

LEMMA ChunksTyped ==
  /\ <<"answer">> \in Seq({"answer", "error", "done"})
  /\ <<"done">> \in Seq({"answer", "error", "done"})
  /\ <<"error", "done">> \in Seq({"answer", "error", "done"})
  OBVIOUS

\* What every endpoint that accepts a request does to it.
LEMMA AcceptTyped ==
  ASSUME TypeOK, NEW r \in Requests, NEW t \in Threads,
         NEW k \in {"async", "stream", "resume"},
         NEW status \in {"accepted", "invoking", "refused"},
         NEW answer \in {"QUEUED", "none"},
         Accept(r, t, k, status, answer)
  PROVE  /\ kind' \in [Requests -> {"none", "async", "stream", "resume"}]
         /\ thread' \in [Requests -> Threads]
         /\ pc' \in [Requests -> {"unused", "accepted", "invoking", "running",
                       "answering", "suspended", "ended", "raised"} \cup Finished]
         /\ reply' \in [Requests -> {"none", "QUEUED", "RUNNING", "SUSPENDED_HITL",
              "COMPLETED", "FAILED", "lifecycle", "interrupt", "complete", "error",
              "aborted", "RESUMED", "500"}]
         /\ pc[r] = "unused"
         /\ kind'[r] = k /\ thread'[r] = t /\ pc'[r] = status
         /\ \A o \in Requests : o # r =>
              kind'[o] = kind[o] /\ thread'[o] = thread[o] /\ pc'[o] = pc[o]
         /\ UNCHANGED <<saver, store, writer, queue, answered, restarts>>
  BY DEF Accept, TypeOK, Finished, checkpointer

-----------------------------------------------------------------------------
(* Type correctness.                                                       *)

LEMMA TypeInit == Init => TypeOK
<1> SUFFICES ASSUME Init PROVE TypeOK
  OBVIOUS
<1>1. PICK t \in Threads : thread = [r \in Requests |-> t]
  BY DEF Init
<1>2. <<>> \in Seq({"answer", "error", "done"})
  OBVIOUS
<1> QED BY <1>1, <1>2, GatewayAssumption DEF Init, TypeOK, Checkpoints, Losses

LEMMA TypeStep == TypeOK /\ [Next]_vars => TypeOK'
<1> SUFFICES ASSUME TypeOK, [Next]_vars PROVE TypeOK'
  OBVIOUS
<1> USE DEF TypeOK, checkpointer, registry, request, Move, Settle, Checkpoints, Finished, Losses
<1>1. ASSUME NEW q \in Queries, NEW t \in Threads,
             SubmitAsync(q, t) \/ SubmitStream(q, t)
      PROVE  TypeOK'
  <2>1. q \in Requests
    BY DEF Requests
  <2>2. CASE SubmitAsync(q, t)
    BY <2>1, <2>2, AcceptTyped DEF SubmitAsync, Register
  <2>3. CASE SubmitStream(q, t)
    BY <2>1, <2>3, AcceptTyped DEF SubmitStream, Register
  <2> QED BY <1>1, <2>2, <2>3
<1>2. ASSUME NEW v \in Reviews, NEW t \in Threads, SubmitResume(v, t)
      PROVE  TypeOK'
  <2>1. v \in Requests
    BY DEF Requests
  <2>2. CASE Accept(v, t, "resume", "invoking", "none")
    BY <1>2, <2>1, <2>2, AcceptTyped DEF SubmitResume
  <2>3. CASE Accept(v, t, "resume", "refused", "none")
    BY <1>2, <2>1, <2>3, AcceptTyped DEF SubmitResume
  <2> QED BY <1>2, <2>2, <2>3 DEF SubmitResume
<1>3. ASSUME NEW r \in Requests, Run(r) PROVE TypeOK'
  <2>1. CASE Begin(r)
    <3>1. CASE kind[r] = "resume"
      BY <2>1, <3>1 DEF Begin
    <3>2. CASE kind[r] # "resume"
      BY <2>1, <3>2, WriteTyped DEF Begin
    <3> QED BY <3>1, <3>2
  <2>2. CASE Answer(r)
    BY <2>2, WriteTyped, EmitTyped, ChunksTyped DEF Answer
  <2>3. CASE Suspend(r)
    BY <2>3, WriteTyped, EmitTyped, ChunksTyped DEF Suspend
  <2>4. CASE End(r)
    BY <2>4, WriteTyped, EmitTyped, ChunksTyped DEF End
  <2>5. CASE Raise(r)
    BY <2>5, EmitTyped, ChunksTyped DEF Raise
  <2> QED BY <1>3, <2>1, <2>2, <2>3, <2>4, <2>5 DEF Run
<1>4. ASSUME NEW r \in Requests, Superstep(r) PROVE TypeOK'
  BY <1>4, WriteTyped DEF Superstep
<1>5. ASSUME NEW r \in Requests, Await(r) PROVE TypeOK'
  <2>1. CASE JobStart(r) \/ StreamStart(r)
    BY <2>1 DEF JobStart, StreamStart
  <2>2. CASE JobEnd(r)
    BY <2>2 DEF JobEnd, JobStatus
  <2>3. CASE ResumeEnd(r)
    BY <2>3 DEF ResumeEnd
  <2>4. CASE Forward(r)
    <3>1. queue' \in [Requests -> Seq({"answer", "error", "done"})]
      <4>1. Tail(queue[r]) \in Seq({"answer", "error", "done"})
        BY <2>4, HeadTailProperties DEF Forward
      <4> QED BY <2>4, <4>1 DEF Forward
    <3>2. CASE Head(queue[r]) = "answer"
      BY <2>4, <3>1, <3>2 DEF Forward
    <3>3. CASE Head(queue[r]) = "error"
      BY <2>4, <3>1, <3>3 DEF Forward
    <3>4. CASE Head(queue[r]) \notin {"answer", "error"}
      BY <2>4, <3>1, <3>4, ZenonT(40) DEF Forward
    <3> QED BY <3>2, <3>3, <3>4
  <2> QED BY <1>5, <2>1, <2>2, <2>3, <2>4 DEF Await
<1>6. ASSUME NEW r \in Requests, ClientLeaves(r) PROVE TypeOK'
  BY <1>6 DEF ClientLeaves
<1>7. CASE ListApprovals
  <2>1. \A t \in Threads : Loss(t) \in Losses
    BY DEF Loss
  <2>2. PICK readable \in SUBSET active :
          LET stale == {t \in readable : Prunable(Latest(t))}
          IN  /\ active' = active \ stale
              /\ lost' = [t \in Threads |-> IF t \in stale THEN Loss(t) ELSE lost[t]]
    BY <1>7 DEF ListApprovals
  <2>3. lost' \in [Threads -> Losses]
    BY <2>1, <2>2
  <2>4. active' \subseteq Threads
    BY <2>2
  <2> QED BY <1>7, <2>3, <2>4 DEF ListApprovals
<1>8. CASE Restart
  <2>1. store' \in [{"redis", "memory"} -> [Threads -> {"none", "mid", "gate", "end"}]]
    BY <1>8 DEF Restart
  <2>2. restarts' \in 0..MaxRestarts
    BY <1>8, GatewayAssumption DEF Restart
  <2> QED BY <1>8, <2>1, <2>2 DEF Restart
<1>9. CASE UNCHANGED vars
  BY <1>9 DEF vars
<1> QED BY <1>1, <1>2, <1>3, <1>4, <1>5, <1>6, <1>7, <1>8, <1>9 DEF Next

-----------------------------------------------------------------------------
(* Who wrote the latest checkpoint of a thread.                            *)

\* A step that leaves the checkpointer alone keeps WriterInv when no request
\* that has written leaves its thread or comes back to life.
LEMMA WriterKept ==
  ASSUME WriterInv, UNCHANGED checkpointer,
         \A r \in Requests :
           pc[r] \in {"running", "answering", "suspended", "ended", "raised", "settled"} =>
             /\ thread'[r] = thread[r]
             /\ pc'[r] \in {pc[r], "raised", "settled"}
  PROVE  WriterInv'
  BY DEF WriterInv, checkpointer, Latest

LEMMA WriterStep == TypeOK /\ WriterInv /\ [Next]_vars => WriterInv'
<1> SUFFICES ASSUME TypeOK, WriterInv, [Next]_vars PROVE WriterInv'
  OBVIOUS
<1> USE DEF registry, request, Move, Settle
<1>1. ASSUME NEW q \in Queries, NEW t \in Threads,
             SubmitAsync(q, t) \/ SubmitStream(q, t)
      PROVE  WriterInv'
  <2>1. q \in Requests
    BY DEF Requests
  <2>2. CASE SubmitAsync(q, t)
    BY <2>1, <2>2, AcceptTyped, WriterKept DEF SubmitAsync, checkpointer
  <2>3. CASE SubmitStream(q, t)
    BY <2>1, <2>3, AcceptTyped, WriterKept DEF SubmitStream, checkpointer
  <2> QED BY <1>1, <2>2, <2>3
<1>2. ASSUME NEW v \in Reviews, NEW t \in Threads, SubmitResume(v, t)
      PROVE  WriterInv'
  <2>1. v \in Requests
    BY DEF Requests
  <2>2. CASE Accept(v, t, "resume", "invoking", "none")
    BY <2>1, <2>2, AcceptTyped, WriterKept DEF checkpointer
  <2>3. CASE Accept(v, t, "resume", "refused", "none")
    BY <2>1, <2>3, AcceptTyped, WriterKept DEF checkpointer
  <2> QED BY <1>2, <2>2, <2>3 DEF SubmitResume
<1>3. ASSUME NEW r \in Requests, Run(r) PROVE WriterInv'
  <2>1. CASE Begin(r)
    <3>1. CASE kind[r] = "resume"
      BY <2>1, <3>1, WriterKept DEF Begin, TypeOK
    <3>2. CASE kind[r] # "resume"
      BY <2>1, <3>2, WriteIsLatest DEF Begin, TypeOK, Checkpoints, WriterInv
    <3> QED BY <3>1, <3>2
  <2>2. CASE Answer(r)
    BY <2>2, WriteIsLatest DEF Answer, TypeOK, Checkpoints, WriterInv
  <2>3. CASE Suspend(r)
    BY <2>3, WriteIsLatest DEF Suspend, TypeOK, Checkpoints, WriterInv
  <2>4. CASE End(r)
    BY <2>4, WriteIsLatest DEF End, TypeOK, Checkpoints, WriterInv
  <2>5. CASE Raise(r)
    BY <2>5, WriterKept DEF Raise, TypeOK
  <2> QED BY <1>3, <2>1, <2>2, <2>3, <2>4, <2>5 DEF Run
<1>4. ASSUME NEW r \in Requests, Superstep(r) PROVE WriterInv'
  BY <1>4, WriteIsLatest DEF Superstep, TypeOK, Checkpoints, WriterInv
<1>5. ASSUME NEW r \in Requests, Await(r) PROVE WriterInv'
  <2>1. CASE JobStart(r) \/ StreamStart(r)
    BY <2>1, WriterKept DEF JobStart, StreamStart, TypeOK
  <2>2. CASE JobEnd(r) \/ ResumeEnd(r)
    BY <2>2, WriterKept DEF JobEnd, ResumeEnd, TypeOK
  <2>3. CASE Forward(r)
    <3>1. \A o \in Requests : pc'[o] \in {pc[o], "settled"}
      BY <2>3 DEF Forward, TypeOK
    <3> QED BY <2>3, <3>1, WriterKept DEF Forward
  <2> QED BY <1>5, <2>1, <2>2, <2>3 DEF Await
<1>6. ASSUME NEW r \in Requests, ClientLeaves(r) PROVE WriterInv'
  BY <1>6, WriterKept DEF ClientLeaves
<1>7. CASE ListApprovals
  BY <1>7, WriterKept DEF ListApprovals
<1>8. CASE Restart
  BY <1>8, NotARequest DEF Restart, WriterInv
<1>9. CASE UNCHANGED vars
  BY <1>9, WriterKept DEF vars
<1> QED BY <1>1, <1>2, <1>3, <1>4, <1>5, <1>6, <1>7, <1>8, <1>9 DEF Next

-----------------------------------------------------------------------------
(* What a run that has moved its thread has left there.                    *)

\* A step that leaves the checkpointer alone keeps MovedInv when no query begins
\* to run and no resume is accepted.
LEMMA MovedKept ==
  ASSUME MovedInv, UNCHANGED checkpointer,
         \A r \in Requests :
           /\ pc'[r] \in {"running", "answering", "suspended", "ended"} =>
                /\ kind'[r] = kind[r] /\ thread'[r] = thread[r]
                /\ \/ pc'[r] = pc[r]
                   \/ kind[r] = "resume" /\ pc[r] = "invoking"
           /\ pc'[r] = "invoking" /\ kind'[r] = "resume" =>
                pc[r] = "invoking" /\ kind[r] = "resume" /\ thread'[r] = thread[r]
  PROVE  MovedInv'
  BY DEF MovedInv, checkpointer, Latest

\* A checkpoint leaves its writer, and something other than nothing.
LEMMA MovedWritten ==
  ASSUME TypeOK, MovedInv, NEW r \in Requests, NEW c \in {"mid", "gate", "end"},
         Write(r, c), UNCHANGED request,
         \A o \in Requests : o # r => pc'[o] = pc[o]
  PROVE  MovedInv'
<1>1. \A t \in Threads : /\ Latest(t)' = IF t = thread[r] THEN c ELSE Latest(t)
                         /\ writer'[t] = IF t = thread[r] THEN r ELSE writer[t]
  BY WriteIsLatest DEF Checkpoints
<1>2. r # NoRequest /\ \A o \in Requests : thread[o] \in Threads
  BY NotARequest DEF TypeOK
<1> QED BY <1>1, <1>2 DEF MovedInv, request

LEMMA MovedStep == TypeOK /\ MovedInv /\ [Next]_vars => MovedInv'
<1> SUFFICES ASSUME TypeOK, MovedInv, [Next]_vars PROVE MovedInv'
  OBVIOUS
<1> USE DEF request, Move, Settle
<1>1. ASSUME NEW q \in Queries, NEW t \in Threads,
             SubmitAsync(q, t) \/ SubmitStream(q, t)
      PROVE  MovedInv'
  <2>1. q \in Requests
    BY DEF Requests
  <2>2. PICK k \in {"async", "stream"}, answer \in {"QUEUED", "none"} :
          Accept(q, t, k, "accepted", answer)
    BY <1>1 DEF SubmitAsync, SubmitStream
  <2> QED BY <2>1, <2>2, AcceptTyped, MovedKept DEF checkpointer
<1>2. ASSUME NEW v \in Reviews, NEW t \in Threads, SubmitResume(v, t)
      PROVE  MovedInv'
  <2>1. v \in Requests
    BY DEF Requests
  <2>2. CASE IsPaused(Latest(t)) /\ Accept(v, t, "resume", "invoking", "none")
    BY <2>1, <2>2, AcceptTyped DEF MovedInv, Latest
  <2>3. CASE Accept(v, t, "resume", "refused", "none")
    BY <2>1, <2>3, AcceptTyped, MovedKept DEF checkpointer
  <2> QED BY <1>2, <2>2, <2>3 DEF SubmitResume
<1>3. ASSUME NEW r \in Requests, Run(r) PROVE MovedInv'
  <2>1. CASE Begin(r)
    <3>1. CASE kind[r] = "resume"
      <4>1. CASE Latest(thread[r]) = "end"
        BY <2>1, <3>1, <4>1 DEF Begin, TypeOK, MovedInv, checkpointer, Latest
      <4>2. CASE Latest(thread[r]) # "end"
        BY <2>1, <3>1, <4>2, MovedKept DEF Begin, TypeOK
      <4> QED BY <4>1, <4>2
    <3>2. CASE kind[r] # "resume"
      BY <2>1, <3>2, MovedWritten DEF Begin, TypeOK
    <3> QED BY <3>1, <3>2
  <2>2. CASE Answer(r)
    BY <2>2, MovedWritten DEF Answer, TypeOK
  <2>3. CASE Suspend(r)
    BY <2>3, MovedWritten DEF Suspend, TypeOK
  <2>4. CASE End(r)
    BY <2>4, MovedWritten DEF End, TypeOK
  <2>5. CASE Raise(r)
    BY <2>5, MovedKept DEF Raise, TypeOK
  <2> QED BY <1>3, <2>1, <2>2, <2>3, <2>4, <2>5 DEF Run
<1>4. ASSUME NEW r \in Requests, Superstep(r) PROVE MovedInv'
  BY <1>4, MovedWritten DEF Superstep
<1>5. ASSUME NEW r \in Requests, Await(r) PROVE MovedInv'
  <2>1. CASE JobStart(r) \/ StreamStart(r)
    BY <2>1, MovedKept DEF JobStart, StreamStart, TypeOK
  <2>2. CASE JobEnd(r) \/ ResumeEnd(r)
    BY <2>2, MovedKept DEF JobEnd, ResumeEnd, TypeOK
  <2>3. CASE Forward(r)
    <3>1. \A o \in Requests : pc'[o] \in {pc[o], "settled"}
      BY <2>3 DEF Forward, TypeOK
    <3> QED BY <2>3, <3>1, MovedKept DEF Forward
  <2> QED BY <1>5, <2>1, <2>2, <2>3 DEF Await
<1>6. ASSUME NEW r \in Requests, ClientLeaves(r) PROVE MovedInv'
  BY <1>6, MovedKept DEF ClientLeaves
<1>7. CASE ListApprovals
  BY <1>7, MovedKept DEF ListApprovals
<1>8. CASE Restart
  BY <1>8 DEF Restart, MovedInv
<1>9. CASE UNCHANGED vars
  BY <1>9, MovedKept DEF vars
<1> QED BY <1>1, <1>2, <1>3, <1>4, <1>5, <1>6, <1>7, <1>8, <1>9 DEF Next

-----------------------------------------------------------------------------
(* The registry the approvals listing reads.                               *)

\* A step that leaves the checkpointer and the registry alone keeps ListedInv
\* when every request in flight after it was in flight on the same thread.
LEMMA ListedKept ==
  ASSUME ListedInv, UNCHANGED checkpointer, UNCHANGED registry,
         \A r \in Requests : InFlight(r)' => InFlight(r) /\ thread'[r] = thread[r]
  PROVE  ListedInv'
  BY DEF ListedInv, checkpointer, registry, Latest

\* So does a checkpoint of a request in flight, whose thread is registered.
LEMMA ListedWritten ==
  ASSUME TypeOK, ListedInv, NEW r \in Requests, InFlight(r),
         NEW c \in Checkpoints, Write(r, c), UNCHANGED registry, UNCHANGED request,
         \A o \in Requests : o # r => pc'[o] = pc[o]
  PROVE  ListedInv'
<1>1. thread[r] \in active \/ lost[thread[r]] # "no"
  BY DEF ListedInv, TypeOK
<1> QED BY <1>1, WriteIsLatest DEF ListedInv, registry, request, InFlight

LEMMA ListedStep ==
  TypeOK /\ WriterInv /\ MovedInv /\ ListedInv /\ [Next]_vars => ListedInv'
<1> SUFFICES ASSUME TypeOK, WriterInv, MovedInv, ListedInv, [Next]_vars PROVE ListedInv'
  OBVIOUS
<1> USE DEF request, Move, Settle
<1>1. ASSUME NEW q \in Queries, NEW t \in Threads,
             SubmitAsync(q, t) \/ SubmitStream(q, t)
      PROVE  ListedInv'
  <2>1. q \in Requests
    BY DEF Requests
  <2>2. PICK k \in {"async", "stream"}, answer \in {"QUEUED", "none"} :
          Accept(q, t, k, "accepted", answer) /\ Register(t)
    BY <1>1 DEF SubmitAsync, SubmitStream
  <2> QED BY <2>1, <2>2, AcceptTyped DEF Register, ListedInv, InFlight, Latest, TypeOK
<1>2. ASSUME NEW v \in Reviews, NEW t \in Threads, SubmitResume(v, t)
      PROVE  ListedInv'
  <2>1. v \in Requests
    BY DEF Requests
  <2>2. CASE IsPaused(Latest(t)) /\ Accept(v, t, "resume", "invoking", "none")
    <3>1. t \in active \/ lost[t] # "no"
      BY <2>2 DEF ListedInv
    <3> QED BY <1>2, <2>1, <2>2, <3>1, AcceptTyped
            DEF SubmitResume, ListedInv, InFlight, Latest, registry
  <2>3. CASE Accept(v, t, "resume", "refused", "none")
    BY <1>2, <2>1, <2>3, AcceptTyped, ListedKept
       DEF SubmitResume, InFlight, checkpointer
  <2> QED BY <1>2, <2>2, <2>3 DEF SubmitResume
<1>3. ASSUME NEW r \in Requests, Run(r) PROVE ListedInv'
  <2>1. CASE Begin(r)
    <3>1. CASE kind[r] = "resume"
      BY <2>1, <3>1, ListedKept DEF Begin, TypeOK, InFlight
    <3>2. CASE kind[r] # "resume"
      BY <2>1, <3>2, ListedWritten DEF Begin, TypeOK, Checkpoints, InFlight
    <3> QED BY <3>1, <3>2
  <2>2. CASE Answer(r)
    BY <2>2, ListedWritten DEF Answer, TypeOK, Checkpoints, InFlight
  <2>3. CASE Suspend(r)
    BY <2>3, ListedWritten DEF Suspend, TypeOK, Checkpoints, InFlight
  <2>4. CASE End(r)
    BY <2>4, ListedWritten DEF End, TypeOK, Checkpoints, InFlight
  <2>5. CASE Raise(r)
    BY <2>5, ListedKept DEF Raise, TypeOK, InFlight
  <2> QED BY <1>3, <2>1, <2>2, <2>3, <2>4, <2>5 DEF Run
<1>4. ASSUME NEW r \in Requests, Superstep(r) PROVE ListedInv'
  BY <1>4, ListedWritten DEF Superstep, TypeOK, Checkpoints, InFlight
<1>5. ASSUME NEW r \in Requests, Await(r) PROVE ListedInv'
  <2>1. CASE JobStart(r) \/ StreamStart(r)
    BY <2>1, ListedKept DEF JobStart, StreamStart, TypeOK, InFlight
  <2>2. CASE JobEnd(r) \/ ResumeEnd(r)
    BY <2>2, ListedKept DEF JobEnd, ResumeEnd, TypeOK, InFlight
  <2>3. CASE Forward(r)
    <3>1. \A o \in Requests : pc'[o] \in {pc[o], "settled"}
      BY <2>3 DEF Forward, TypeOK
    <3> QED BY <2>3, <3>1, ListedKept DEF Forward, InFlight
  <2> QED BY <1>5, <2>1, <2>2, <2>3 DEF Await
<1>6. ASSUME NEW r \in Requests, ClientLeaves(r) PROVE ListedInv'
  BY <1>6, ListedKept DEF ClientLeaves, InFlight
<1>7. CASE ListApprovals
  <2>1. PICK readable \in SUBSET active :
          LET stale == {t \in readable : Prunable(Latest(t))}
          IN  /\ active' = active \ stale
              /\ lost' = [t \in Threads |-> IF t \in stale THEN Loss(t) ELSE lost[t]]
              /\ UNCHANGED <<checkpointer, request, pc>>
    BY <1>7 DEF ListApprovals
  <2>2. \A t \in Threads : Latest(t)' = Latest(t)
    BY <2>1 DEF checkpointer, Latest
  <2>3. \A r \in Requests : InFlight(r)' = InFlight(r) /\ thread'[r] = thread[r]
    BY <2>1 DEF InFlight
  \* On a thread that can be pruned, a run past its beginning has been overtaken.
  <2>4. ASSUME NEW t \in Threads, Prunable(Latest(t)), Loss(t) = "no",
               NEW r \in Requests, thread[r] = t
        PROVE  ~InFlight(r)
    <3>1. pc[r] \notin {"accepted", "invoking"}
      BY <2>4 DEF Loss
    <3>2. pc[r] \in {"running", "answering"} => FALSE
      <4> SUFFICES ASSUME pc[r] \in {"running", "answering"} PROVE FALSE
        OBVIOUS
      <4>1. writer[t] # NoRequest
        BY <2>4 DEF MovedInv, Prunable
      <4>2. Latest(t) \in {"none", "end"} /\ Latest(t) # "none"
        <5>1. Latest(t) \in Checkpoints
          BY DEF Latest, TypeOK
        <5> QED BY <2>4, <4>1, <5>1 DEF MovedInv, Prunable, IsPaused, Checkpoints
      <4>3. writer[t] # r
        BY <4>2 DEF WriterInv
      <4>4. \E o \in Requests : /\ thread[o] = t /\ pc[o] \in {"running", "answering"}
                               /\ Latest(t) = "end" /\ writer[t] \notin {o, NoRequest}
        BY <2>4, <4>1, <4>2, <4>3
      <4> QED BY <2>4, <4>4 DEF Loss
    <3> QED BY <3>1, <3>2 DEF InFlight
  <2>5. ASSUME NEW t \in Threads, t \notin active', lost'[t] = "no"
        PROVE  /\ ~IsPaused(Latest(t))
               /\ \A r \in Requests : thread[r] = t => ~InFlight(r)
    <3>1. CASE t \in readable /\ Prunable(Latest(t))
      <4>1. Loss(t) = "no"
        BY <2>1, <2>5, <3>1
      <4> QED BY <2>4, <3>1, <4>1 DEF Prunable
    <3>2. CASE ~(t \in readable /\ Prunable(Latest(t)))
      <4>1. t \notin active /\ lost[t] = "no"
        BY <2>1, <2>5, <3>2
      <4> QED BY <4>1 DEF ListedInv
    <3> QED BY <3>1, <3>2
  <2> QED BY <2>2, <2>3, <2>5 DEF ListedInv
<1>8. CASE Restart
  BY <1>8 DEF Restart, ListedInv
<1>9. CASE UNCHANGED vars
  BY <1>9, ListedKept DEF vars, InFlight
<1> QED BY <1>1, <1>2, <1>3, <1>4, <1>5, <1>6, <1>7, <1>8, <1>9 DEF Next

-----------------------------------------------------------------------------
(* What a stream's queue holds.                                            *)

LEMMA Chunks ==
  /\ <<>> \o <<"answer">> = <<"answer">>
  /\ <<>> \o <<"done">> = <<"done">>
  /\ <<"answer">> \o <<"done">> = <<"answer", "done">>
  /\ <<>> \o <<"error", "done">> = <<"error", "done">>
  /\ <<"answer">> \o <<"error", "done">> = <<"answer", "error", "done">>
  /\ <<"answer">> # <<>>
<1> DEFINE S == Seq({"answer", "error", "done"})
<1>1. /\ <<>> \o <<"answer">> = <<"answer">>
      /\ <<>> \o <<"done">> = <<"done">>
      /\ <<>> \o <<"error", "done">> = <<"error", "done">>
      /\ <<"answer">> # <<>>
  OBVIOUS
<1>2. /\ <<"answer">> \in S /\ <<"done">> \in S /\ <<"error", "done">> \in S
      /\ <<"answer", "done">> \in S /\ <<"answer", "error", "done">> \in S
  OBVIOUS
<1>3. <<"answer">> \o <<"done">> = <<"answer", "done">>
  <2> DEFINE s == <<"answer">> \o <<"done">>
  <2>1. s \in S /\ Len(s) = 2 /\ \A i \in 1..2 : s[i] = <<"answer", "done">>[i]
    BY <1>2, ConcatProperties
  <2> QED BY <1>2, <2>1, SeqEqual
<1>4. <<"answer">> \o <<"error", "done">> = <<"answer", "error", "done">>
  <2> DEFINE s == <<"answer">> \o <<"error", "done">>
  <2>1. /\ s \in S /\ Len(s) = 3
        /\ \A i \in 1..3 : s[i] = <<"answer", "error", "done">>[i]
    BY <1>2, ConcatProperties
  <2> QED BY <1>2, <2>1, SeqEqual
<1> QED BY <1>1, <1>3, <1>4

LEMMA ChunkTails ==
  /\ Tail(<<"answer">>) = <<>>
  /\ Tail(<<"answer", "done">>) = <<"done">>
  /\ Tail(<<"answer", "error", "done">>) = <<"error", "done">>
  OBVIOUS

\* A step that leaves the queues alone keeps QueueInv when the requests still
\* watched are where they were, or their runs have not emitted anything.
LEMMA QueueKept ==
  ASSUME QueueInv, UNCHANGED <<queue, answered>>, watching' \subseteq watching,
         \A r \in Requests :
           /\ pc'[r] = "unused" => pc[r] = "unused"
           /\ r \in watching' =>
                /\ kind'[r] = kind[r]
                /\ \/ pc'[r] = pc[r]
                   \/ {pc[r], pc'[r]} \subseteq {"accepted", "invoking", "running"}
  PROVE  QueueInv'
  BY DEF QueueInv, Pending

\* A step of a request's run that emits chunks concerns its own queue only.
LEMMA QueueEmitted ==
  ASSUME TypeOK, QueueInv, NEW r \in Requests, NEW chunks, Emit(r, chunks),
         UNCHANGED request, UNCHANGED <<answered, watching>>,
         pc[r] # "unused", NEW status \in {"answering", "suspended", "ended", "raised"},
         pc' = [pc EXCEPT ![r] = status],
         r \in watching =>
           LET q == queue[r] \o chunks
           IN  /\ q \in Pending(status)
               /\ status = "answering" => q # <<>>
               /\ status = "ended" /\ q = <<"done">> => r \in answered
  PROVE  QueueInv'
<1>1. ASSUME NEW o \in Requests, o # r
      PROVE  /\ pc'[o] = pc[o] /\ queue'[o] = queue[o] /\ kind'[o] = kind[o]
             /\ o \in answered' <=> o \in answered
             /\ o \in watching' <=> o \in watching
  BY <1>1, EmitAppends DEF TypeOK, request
<1>2. pc'[r] = status /\ kind'[r] = kind[r]
  BY DEF TypeOK, request
<1>3. r \in watching => queue'[r] = queue[r] \o chunks
  BY EmitAppends
<1> QED BY <1>1, <1>2, <1>3 DEF QueueInv

LEMMA QueueStep == TypeOK /\ QueueInv /\ [Next]_vars => QueueInv'
<1> SUFFICES ASSUME TypeOK, QueueInv, [Next]_vars PROVE QueueInv'
  OBVIOUS
<1> USE DEF Move, Settle
<1>1. ASSUME NEW q \in Queries, NEW t \in Threads,
             SubmitAsync(q, t) \/ SubmitStream(q, t)
      PROVE  QueueInv'
  <2>1. q \in Requests
    BY DEF Requests
  <2>2. q \notin watching /\ queue[q] = <<>>
    BY <1>1, <2>1 DEF SubmitAsync, SubmitStream, Accept, QueueInv, Pending
  <2>3. CASE SubmitAsync(q, t)
    BY <2>1, <2>2, <2>3, AcceptTyped, QueueKept DEF SubmitAsync
  <2>4. CASE SubmitStream(q, t)
    BY <2>1, <2>2, <2>4, AcceptTyped DEF SubmitStream, QueueInv, Pending
  <2> QED BY <1>1, <2>3, <2>4
<1>2. ASSUME NEW v \in Reviews, NEW t \in Threads, SubmitResume(v, t)
      PROVE  QueueInv'
  <2>1. v \in Requests
    BY DEF Requests
  <2>2. PICK status \in {"invoking", "refused"} :
          Accept(v, t, "resume", status, "none") /\ UNCHANGED watching
    BY <1>2 DEF SubmitResume
  <2>3. v \notin watching
    BY <2>1, <2>2, AcceptTyped DEF QueueInv, Pending
  <2> QED BY <2>1, <2>2, <2>3, AcceptTyped, QueueKept
<1>3. ASSUME NEW r \in Requests, Run(r) PROVE QueueInv'
  <2>1. CASE Begin(r)
    BY <2>1, QueueKept DEF Begin, TypeOK, QueueInv, request
  <2>2. CASE Answer(r)
    <3>1. r \in watching => queue[r] = <<>>
      BY <2>2 DEF Answer, QueueInv, Pending
    <3>2. r \in watching => queue[r] \o <<"answer">> = <<"answer">>
      BY <3>1, Chunks
    <3> QED BY <2>2, <3>2, Chunks, QueueEmitted DEF Answer, Pending
  <2>3. CASE Suspend(r)
    <3>1. r \in watching => queue[r] = <<>>
      BY <2>3 DEF Suspend, QueueInv, Pending
    <3>2. r \in watching => queue[r] \o <<"done">> = <<"done">>
      BY <3>1, Chunks
    <3> QED BY <2>3, <3>2, QueueEmitted DEF Suspend, Pending
  <2>4. CASE End(r)
    <3>1. r \in watching =>
            \/ queue[r] = <<>> /\ r \in answered
            \/ queue[r] = <<"answer">>
      BY <2>4 DEF End, QueueInv, Pending
    <3>2. r \in watching =>
            \/ queue[r] \o <<"done">> = <<"done">> /\ r \in answered
            \/ queue[r] \o <<"done">> = <<"answer", "done">>
      BY <3>1, Chunks
    <3>3. <<"answer", "done">> # <<"done">>
      OBVIOUS
    <3> QED BY <2>4, <3>2, <3>3, QueueEmitted DEF End, Pending
  <2>5. CASE Raise(r)
    <3>1. r \in watching => queue[r] \in {<<>>, <<"answer">>}
      BY <2>5 DEF Raise, QueueInv, Pending
    <3>2. r \in watching => queue[r] \o <<"error", "done">> \in
                              {<<"error", "done">>, <<"answer", "error", "done">>}
      BY <3>1, Chunks
    <3> QED BY <2>5, <3>2, QueueEmitted DEF Raise, Pending
  <2> QED BY <1>3, <2>1, <2>2, <2>3, <2>4, <2>5 DEF Run
<1>4. ASSUME NEW r \in Requests, Superstep(r) PROVE QueueInv'
  BY <1>4, QueueKept DEF Superstep, request
<1>5. ASSUME NEW r \in Requests, Await(r) PROVE QueueInv'
  <2>1. CASE JobStart(r)
    BY <2>1, QueueKept DEF JobStart, TypeOK, request
  <2>2. CASE StreamStart(r)
    BY <2>2, QueueKept DEF StreamStart, TypeOK, request
  <2>3. CASE JobEnd(r)
    <3>1. r \notin watching
      BY <2>3 DEF JobEnd, QueueInv
    <3> QED BY <2>3, <3>1, QueueKept DEF JobEnd, TypeOK, request
  <2>4. CASE ResumeEnd(r)
    <3>1. r \notin watching
      BY <2>4 DEF ResumeEnd, QueueInv
    <3> QED BY <2>4, <3>1, QueueKept DEF ResumeEnd, TypeOK, request
  <2>5. CASE Forward(r)
    <3>1. \A o \in Requests : o # r => queue'[o] = queue[o]
      BY <2>5 DEF Forward, TypeOK
    <3>2. UNCHANGED kind
      BY <2>5 DEF Forward, request
    <3>3. CASE Head(queue[r]) = "answer"
      <4>1. \/ pc[r] = "answering" /\ queue[r] = <<"answer">>
            \/ pc[r] = "ended" /\ queue[r] = <<"answer", "done">>
            \/ pc[r] = "raised" /\ queue[r] = <<"answer", "error", "done">>
        BY <2>5, <3>3 DEF Forward, QueueInv, Pending
      <4>2. queue'[r] = Tail(queue[r])
        BY <2>5 DEF Forward, TypeOK
      <4>3. queue'[r] \in Pending(pc[r]) /\ pc[r] # "unused"
        BY <4>1, <4>2, ChunkTails DEF Pending
      <4>4. answered' = answered \cup {r} /\ UNCHANGED <<pc, watching>>
        BY <2>5, <3>3 DEF Forward
      <4> QED BY <3>1, <3>2, <4>1, <4>3, <4>4 DEF QueueInv
    <3>4. CASE Head(queue[r]) # "answer"
      <4>1. /\ pc' = [pc EXCEPT ![r] = "settled"] /\ watching' = watching \ {r}
            /\ UNCHANGED answered
        BY <2>5, <3>4 DEF Forward
      <4> QED BY <2>5, <3>1, <3>2, <4>1 DEF QueueInv, TypeOK
    <3> QED BY <3>3, <3>4
  <2> QED BY <1>5, <2>1, <2>2, <2>3, <2>4, <2>5 DEF Await
<1>6. ASSUME NEW r \in Requests, ClientLeaves(r) PROVE QueueInv'
  BY <1>6 DEF ClientLeaves, QueueInv, TypeOK, request
<1>7. CASE ListApprovals
  BY <1>7, QueueKept DEF ListApprovals, request
<1>8. CASE Restart
  BY <1>8 DEF Restart, QueueInv
<1>9. CASE UNCHANGED vars
  BY <1>9, QueueKept DEF vars, request
<1> QED BY <1>1, <1>2, <1>3, <1>4, <1>5, <1>6, <1>7, <1>8, <1>9 DEF Next

-----------------------------------------------------------------------------
(* The theorems.                                                           *)

(* The writers, the registry and the queues of every reachable state.      *)
THEOREM IInvInductive == Spec => []IInv
<1>1. Init => IInv
  <2> SUFFICES ASSUME Init PROVE IInv
    OBVIOUS
  <2>1. TypeOK
    BY TypeInit
  <2>2. WriterInv
    BY NotARequest DEF Init, WriterInv
  <2>3. ListedInv
    BY DEF Init, ListedInv, IsPaused, Latest, InFlight
  <2>4. QueueInv
    BY DEF Init, QueueInv
  <2>5. MovedInv
    BY DEF Init, MovedInv
  <2> QED BY <2>1, <2>2, <2>3, <2>4, <2>5 DEF IInv
<1>2. IInv /\ [Next]_vars => IInv'
  BY TypeStep, WriterStep, MovedStep, ListedStep, QueueStep DEF IInv
<1> QED BY <1>1, <1>2, PTL DEF Spec

(* Every registry, request, run and queue keeps its type, across restarts  *)
(* that change the checkpointer.                                           *)
THEOREM TypeCorrect == Spec => []TypeOK
<1>1. IInv => TypeOK
  BY DEF IInv
<1> QED BY <1>1, IInvInductive, PTL

(* A thread that waits for a reviewer is missing from the registry only    *)
(* since a restart, a listing that came before a request accepted on it    *)
(* had begun, or a listing that saw the end another run had written over   *)
(* one still going.                                                        *)
THEOREM SuspendedListed == Spec => []SuspendedIsListed
<1>1. IInv => SuspendedIsListed
  BY DEF IInv, ListedInv, SuspendedIsListed, IsPaused
<1> QED BY <1>1, IInvInductive, PTL

(* A client is told "suspended" or "complete" only of a run that is over   *)
(* and has not failed, and otherwise than the run went only when another   *)
(* run has moved the thread since; "complete" of a suspended run means the *)
(* other run ended the thread, and nothing else closes a stream without an *)
(* answer as complete.                                                     *)
THEOREM ToldTheTruth == Spec => ToldWhatHappened
<1> DEFINE Told(r) ==
             reply'[r] # reply[r] =>
               /\ reply'[r] \in {"SUSPENDED_HITL", "interrupt"} =>
                    pc[r] = "suspended" \/ (pc[r] = "ended" /\ Overtaken(r))
               /\ reply'[r] \in {"COMPLETED", "complete"} =>
                    \/ pc[r] = "ended"
                    \/ pc[r] = "suspended" /\ Overtaken(r) /\ Latest(thread[r]) = "end"
               /\ reply'[r] = "complete" => r \in answered \/ pc[r] = "suspended"
<1>1. IInv /\ [Next]_vars => [\A r \in Requests : Told(r)]_vars
  <2> SUFFICES ASSUME IInv, [Next]_vars, NEW r \in Requests, reply'[r] # reply[r]
               PROVE  Told(r)
    OBVIOUS
  <2>0. thread[r] \in Threads /\ Latest(thread[r]) \in Checkpoints
    BY DEF IInv, TypeOK, Latest
  \* A query that came to a stop where its thread is not was overtaken.
  <2>1. kind[r] # "resume" /\ pc[r] = "suspended" /\ ~IsPaused(Latest(thread[r])) =>
          Overtaken(r) /\ Latest(thread[r]) = "end"
    BY <2>0 DEF IInv, WriterInv, MovedInv, Overtaken, IsPaused, Checkpoints
  <2>2. kind[r] # "resume" /\ pc[r] = "ended" /\ IsPaused(Latest(thread[r])) =>
          Overtaken(r)
    BY <2>0 DEF IInv, WriterInv, MovedInv, Overtaken, IsPaused
  <2>4. CASE reply'[r] \in {"none", "QUEUED", "RUNNING", "lifecycle", "FAILED",
                            "RESUMED", "500", "error", "aborted"}
    BY <2>4
  <2>5. CASE JobEnd(r) /\ reply'[r] # "FAILED"
    <3>1. /\ kind[r] = "async" /\ pc[r] \in {"suspended", "ended"}
          /\ reply'[r] = JobStatus(Latest(thread[r]))
      BY <2>5 DEF JobEnd, Settle, IInv, TypeOK
    <3> QED BY <2>1, <2>2, <3>1 DEF JobStatus
  <2>6. CASE Forward(r) /\ reply'[r] \notin {"error", "aborted"}
    <3>1. /\ Head(queue[r]) \notin {"answer", "error"} /\ r \in watching
          /\ reply'[r] = IF IsPaused(Latest(thread[r])) THEN "interrupt" ELSE "complete"
      BY <2>6 DEF Forward, Settle, IInv, TypeOK
    <3>2. /\ kind[r] = "stream"
          /\ pc[r] \in {"suspended", "ended"}
          /\ pc[r] = "ended" => r \in answered
      BY <2>6, <3>1 DEF Forward, IInv, QueueInv, Pending
    <3> QED BY <2>1, <2>2, <3>1, <3>2
  <2>7. \/ reply'[r] \in {"none", "QUEUED", "RUNNING", "lifecycle", "FAILED",
                          "RESUMED", "500", "error", "aborted"}
        \/ JobEnd(r) \/ Forward(r)
    <3>1. CASE \E q \in Queries, t \in Threads : SubmitAsync(q, t) \/ SubmitStream(q, t)
      BY <3>1 DEF SubmitAsync, SubmitStream, Accept, IInv, TypeOK
    <3>2. CASE \E v \in Reviews, t \in Threads : SubmitResume(v, t)
      BY <3>2 DEF SubmitResume, Accept, IInv, TypeOK
    <3>3. CASE \E o \in Requests : Run(o) \/ Superstep(o) \/ ClientLeaves(o)
      BY <3>3 DEF Run, Begin, Answer, Suspend, End, Raise, Superstep, ClientLeaves
    <3>4. CASE ListApprovals \/ Restart \/ UNCHANGED vars
      BY <3>4 DEF ListApprovals, Restart, vars
    <3>5. ASSUME NEW o \in Requests, o # r, Await(o) PROVE FALSE
      BY <3>5 DEF Await, JobStart, JobEnd, StreamStart, Forward, ResumeEnd, Settle,
                  IInv, TypeOK
    <3>6. CASE JobStart(r) \/ StreamStart(r) \/ ResumeEnd(r)
      BY <3>6 DEF JobStart, StreamStart, ResumeEnd, Settle, IInv, TypeOK
    <3> QED BY <3>1, <3>2, <3>3, <3>4, <3>5, <3>6 DEF Next, Await
  <2> QED BY <2>4, <2>5, <2>6, <2>7
<1> QED BY <1>1, IInvInductive, PTL DEF Spec, ToldWhatHappened
=============================================================================
