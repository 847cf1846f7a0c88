------------------------------ MODULE JobQueue ------------------------------
(***************************************************************************)
(* The document pipeline's job queue (src/app/pipeline/jobs.py on the      *)
(* tables and functions of src/db/schema.sql), with the two handlers of    *)
(* src/app/routers/documents.py that write to it.                          *)
(*                                                                         *)
(* uvicorn runs several processes (Dockerfile: --workers 2).  Within one   *)
(* process the code between two awaits runs without interruption, because  *)
(* every database call is synchronous; across processes the transactions   *)
(* interleave freely, and a process may die between any two of them.  So   *)
(* an action is one transaction (or one await; TaskStart is several, see   *)
(* there), and a coroutine is HOT while it has more to do before its next  *)
(* await: no other coroutine of its process steps then.                    *)
(*                                                                         *)
(* A call c is a coroutine slot of process Home[c].  It runs drain_once(), *)
(* alone (the scheduler's tick) or as the background task of the handler   *)
(* documents_process(), and its claimed jobs run as the tasks in task[c].  *)
(***************************************************************************)
EXTENDS Naturals, Sequences, FiniteSets

CONSTANTS
    Docs,          \* documents; one that is deleted never comes back
    Procs,         \* worker processes
    Calls,         \* coroutine slots, each of one process
    Home,          \* the process of each call
    MaxAttempts,   \* jobs.max_attempts (3 in the schema)
    ClaimBatch,    \* _DRAIN_CLAIM_BATCH (8 in the code)
    SlowStages,    \* stages whose worker may outlive its 5-minute lease
    MaxJobs,       \* bound: rows ever inserted
    MaxProcess,    \* bound: calls of documents_process() for a document
    MaxCrashes     \* bound: process crashes

Stages == {"ingest", "extract", "structure", "generate"}

ASSUME ConstantsAssumption ==
    /\ Home \in [Calls -> Procs]
    /\ MaxAttempts \in Nat \ {0}
    /\ ClaimBatch \in Nat \ {0}
    /\ SlowStages \subseteq Stages
    /\ MaxJobs \in Nat
    /\ MaxProcess \in Nat
    /\ MaxCrashes \in Nat

VARIABLES
    jobs,       \* the jobs table in created_at order; a deleted row leaves a tombstone
    docs,       \* documents.processing_status, or "gone"
    call,       \* the calls' control state
    task,       \* task[c]: the claimed jobs of call c, by position in jobs
    processed,  \* calls of documents_process() so far, for each document
    crashes     \* crashes so far

vars == <<jobs, docs, call, task, processed, crashes>>

-----------------------------------------------------------------------------
(* Tables of the code. *)

StageOrder == [ingest |-> 1, extract |-> 2, structure |-> 3, generate |-> 4]

Successor == [ingest |-> "extract", extract |-> "structure", structure |-> "generate"]

StageRunningStatus ==
    [ingest |-> "extracting", extract |-> "analyzing",
     structure |-> "analyzing", generate |-> "structured"]

\* Mutated form: a status no reader of the documents knows.
StageDeadStatusTypo ==
    [ingest |-> "failed", extract |-> "extract_failed",
     structure |-> "failed", generate |-> "generation_failed"]

StageDeadStatus ==
    [ingest |-> "failed", extract |-> "extraction_failed",
     structure |-> "failed", generate |-> "generation_failed"]

RowStatus == {"pending", "claimed", "done", "dead", "deleted"}

Row == [doc : Docs, stage : Stages, status : RowStatus, attempts : Nat,
        lease : {"none", "held", "lapsed"}, due : BOOLEAN]

DocStatus == {"uploaded", "queued", "extracting", "chunked", "analyzing", "structured",
              "completed", "failed", "extraction_failed", "generation_failed", "gone"}

TaskPc == {"start", "running", "enqueue", "mark_done", "mark_failed", "finished"}

CallPc == {"idle", "enqueue_ingest", "set_queued", "kicked", "claim", "gather",
           "derive", "derive_write", "aborted"}

NoTask == << >>

\* todo: the documents a handler or a drain still has to write; derived: the
\* status a drain has read for one of them and not yet written.
IdleCall == [pc |-> "idle", todo |-> {}, derived |-> {}]

-----------------------------------------------------------------------------
(* Helpers. *)

Ids == DOMAIN jobs

JobIds == 1..MaxJobs

Exists(j) == jobs[j].status # "deleted"

Live(j) == jobs[j].status \in {"pending", "claimed"}

\* Mutated form: a claimed row is not covered by the index.
IndexedPendingOnly(j) == jobs[j].status \in {"pending"}

\* The rows the unique index idx_jobs_live_unique covers.
Indexed(j) == jobs[j].status \in {"pending", "claimed"}

LiveRow(d, s) == \E k \in Ids : jobs[k].doc = d /\ jobs[k].stage = s /\ Indexed(k)

RowsOf(d) == {j \in Ids : jobs[j].doc = d /\ Exists(j)}

HotTask(c, j) == task[c][j].pc \in {"enqueue", "mark_done", "mark_failed"}

HotCall(c) == call[c].pc \in {"enqueue_ingest", "set_queued", "claim", "derive", "derive_write"}

\* No coroutine of the process is between two awaits: another one may resume.
LoopFree(p) ==
    \A c \in Calls : Home[c] = p => ~HotCall(c) /\ \A j \in DOMAIN task[c] : ~HotTask(c, j)

AllFinished(c) == \A j \in DOMAIN task[c] : task[c][j].pc = "finished"

Active(c, j) == j \in DOMAIN task[c] /\ task[c][j].pc # "finished"

\* The index holds another row than j for the document and stage of j.
Duplicate(j) ==
    Exists(j) /\ \E k \in Ids \ {j} :
        jobs[k].doc = jobs[j].doc /\ jobs[k].stage = jobs[j].stage /\ Indexed(k)

\* enqueue_job(): the unique-live index swallows a duplicate.
Inserted(d, s) ==
    IF LiveRow(d, s) THEN jobs
    ELSE Append(jobs, [doc |-> d, stage |-> s, status |-> "pending",
                       attempts |-> 0, lease |-> "none", due |-> TRUE])

RowsDeleted(d) ==
    [j \in Ids |-> IF jobs[j].doc = d
                   THEN [jobs[j] EXCEPT !.status = "deleted", !.attempts = 0,
                                        !.lease = "none", !.due = TRUE]
                   ELSE jobs[j]]

\* UPDATE documents SET processing_status ... WHERE id = d
StatusSet(d, s) == IF docs[d] = "gone" THEN docs ELSE [docs EXCEPT ![d] = s]

\* Mutated form: a generate row that is done completes the document.
DerivedStatusesGenerateFirst(d) ==
    LET rows     == RowsOf(d)
        active   == {jobs[j].stage : j \in {k \in rows : Live(k)}}
        blocking == {j \in rows : jobs[j].status = "dead" /\ jobs[j].stage # "generate"}
        gen      == {j \in rows : jobs[j].stage = "generate"}
    IN  IF rows = {} THEN {}
        ELSE IF \E j \in gen : jobs[j].status = "done" THEN {"completed"}
        ELSE IF blocking # {} THEN {StageDeadStatus[jobs[j].stage] : j \in blocking}
        ELSE IF active # {}
             THEN {StageRunningStatus[s] : s \in
                      {t \in active : \A u \in active : StageOrder[t] <= StageOrder[u]}}
        ELSE {StageDeadStatus["generate"]}

\* _derive_status_from_jobs(): the statuses it may return (the rows come in no
\* particular order), none when there is no row.
DerivedStatuses(d) ==
    LET rows     == RowsOf(d)
        active   == {jobs[j].stage : j \in {k \in rows : Live(k)}}
        blocking == {j \in rows : jobs[j].status = "dead" /\ jobs[j].stage # "generate"}
        gen      == {j \in rows : jobs[j].stage = "generate"}
    IN  IF rows = {} THEN {}
        ELSE IF blocking # {} THEN {StageDeadStatus[jobs[j].stage] : j \in blocking}
        ELSE IF active # {}
             THEN {StageRunningStatus[s] : s \in
                      {t \in active : \A u \in active : StageOrder[t] <= StageOrder[u]}}
        ELSE IF gen # {} /\ \A j \in gen : jobs[j].status # "done"
             THEN {StageDeadStatus["generate"]}
        ELSE {"completed"}

Goto(c, pc) == call' = [call EXCEPT ![c].pc = pc]

TaskGoto(c, j, pc) == task' = [task EXCEPT ![c][j].pc = pc]

-----------------------------------------------------------------------------
Init ==
    /\ jobs = << >>
    /\ docs = [d \in Docs |-> "uploaded"]
    /\ call = [c \in Calls |-> IdleCall]
    /\ task = [c \in Calls |-> NoTask]
    /\ processed = [d \in Docs |-> 0]
    /\ crashes = 0

-----------------------------------------------------------------------------
(* documents_process(): clear the job rows, queue ingest, set 'queued', then *)
(* run drain_once() as a background task.                                    *)

\* Without an LLM key nothing is queued, and the rows of an earlier run stay.
\* A process reads the key once; whether there is one is left open here, as it
\* is from one start of the service to the next.
ProcessWithoutKey(d) ==
    /\ \E p \in Procs : LoopFree(p)
    /\ docs[d] # "gone"
    /\ docs' = [docs EXCEPT ![d] = "uploaded"]
    /\ UNCHANGED <<jobs, call, task, processed, crashes>>

ProcessDelete(c, d) ==
    /\ call[c].pc = "idle" /\ LoopFree(Home[c])
    /\ docs[d] # "gone"
    /\ processed[d] < MaxProcess
    /\ processed' = [processed EXCEPT ![d] = @ + 1]
    /\ jobs' = RowsDeleted(d)
    /\ call' = [call EXCEPT ![c].pc = "enqueue_ingest", ![c].todo = {d}]
    /\ UNCHANGED <<docs, task, crashes>>

\* A document deleted meanwhile fails the foreign key: the handler raises.
ProcessEnqueue(c) ==
    /\ call[c].pc = "enqueue_ingest"
    /\ \E d \in call[c].todo :
          \/ /\ docs[d] = "gone"
             /\ call' = [call EXCEPT ![c] = IdleCall]
             /\ UNCHANGED jobs
          \/ /\ docs[d] # "gone" /\ Len(jobs) < MaxJobs
             /\ jobs' = Inserted(d, "ingest")
             /\ Goto(c, "set_queued")
    /\ UNCHANGED <<docs, task, processed, crashes>>

ProcessSetQueued(c) ==
    /\ call[c].pc = "set_queued"
    /\ \E d \in call[c].todo : docs' = StatusSet(d, "queued")
    /\ call' = [call EXCEPT ![c].pc = "kicked", ![c].todo = {}]
    /\ UNCHANGED <<jobs, task, processed, crashes>>

\* documents_delete(): the job rows go with the document (on delete cascade);
\* the handler's own DELETE FROM jobs then finds none.
DocumentDelete(d) ==
    /\ \E p \in Procs : LoopFree(p)
    /\ docs[d] # "gone"
    /\ docs' = [docs EXCEPT ![d] = "gone"]
    /\ jobs' = RowsDeleted(d)
    /\ UNCHANGED <<call, task, processed, crashes>>

-----------------------------------------------------------------------------
(* drain_once(). *)

\* Mutated form: without "lease_until < now()".
RecoverAllClaimed(c) ==
    /\ LoopFree(Home[c])
    /\ jobs' = [j \in Ids |-> IF jobs[j].status = "claimed"
                              THEN [jobs[j] EXCEPT !.status = "pending", !.lease = "none"]
                              ELSE jobs[j]]
    /\ Goto(c, "claim")
    /\ UNCHANGED <<docs, task, processed, crashes>>

\* Mutated form: a drain that recovers nothing.
RecoverNothing(c) ==
    /\ LoopFree(Home[c])
    /\ Goto(c, "claim")
    /\ UNCHANGED <<jobs, docs, task, processed, crashes>>

\* recover_stuck_jobs(), which looks at no attempts.
RecoverStuckJobs(c) ==
    /\ LoopFree(Home[c])
    /\ jobs' = [j \in Ids |-> IF jobs[j].status = "claimed" /\ jobs[j].lease = "lapsed"
                              THEN [jobs[j] EXCEPT !.status = "pending", !.lease = "none"]
                              ELSE jobs[j]]
    /\ Goto(c, "claim")
    /\ UNCHANGED <<docs, task, processed, crashes>>

\* The scheduler's tick, and the background task of documents_process().
StartDrain(c) == call[c].pc = "idle" /\ RecoverStuckJobs(c)

KickDrain(c) == call[c].pc = "kicked" /\ RecoverStuckJobs(c)

\* The first ClaimBatch rows that are due, oldest first.
Claimable ==
    LET Due(j) == jobs[j].status = "pending" /\ jobs[j].due
    IN  {j \in Ids : Due(j) /\ Cardinality({k \in Ids : k < j /\ Due(k)}) < ClaimBatch}

\* claim_jobs() and, when it returns rows, the tasks asyncio.gather() starts.
Claim(c) ==
    /\ \/ call[c].pc = "claim"
       \/ call[c].pc = "derive" /\ call[c].todo = {}
    /\ jobs' = [j \in Ids |-> IF j \in Claimable
                              THEN [jobs[j] EXCEPT !.status = "claimed", !.lease = "held",
                                                   !.attempts = @ + 1]
                              ELSE jobs[j]]
    /\ task' = [task EXCEPT ![c] = [j \in Claimable |->
                                       [pc |-> "start", attempts |-> jobs[j].attempts + 1]]]
    /\ Goto(c, IF Claimable = {} THEN "idle" ELSE "gather")
    /\ UNCHANGED <<docs, processed, crashes>>

\* Mutated form: the statuses are left to the next tick.
GatherReturnsUnderived(c) ==
    /\ call[c].pc = "gather" /\ AllFinished(c) /\ LoopFree(Home[c])
    /\ Goto(c, "derive")
    /\ task' = [task EXCEPT ![c] = NoTask]
    /\ UNCHANGED <<jobs, docs, processed, crashes>>

\* gather() returned: derive the status of every touched document.
GatherReturns(c) ==
    /\ call[c].pc = "gather" /\ AllFinished(c) /\ LoopFree(Home[c])
    /\ call' = [call EXCEPT ![c].pc = "derive",
                            ![c].todo = {jobs[j].doc : j \in DOMAIN task[c]}]
    /\ task' = [task EXCEPT ![c] = NoTask]
    /\ UNCHANGED <<jobs, docs, processed, crashes>>

\* derive_doc_status(): one transaction reads the rows ...
DeriveRead(c) ==
    /\ call[c].pc = "derive"
    /\ \E d \in call[c].todo :
          \/ /\ DerivedStatuses(d) = {}
             /\ call' = [call EXCEPT ![c].todo = @ \ {d}]
          \/ \E s \in DerivedStatuses(d) :
                call' = [call EXCEPT ![c].pc = "derive_write",
                                     ![c].derived = {[doc |-> d, status |-> s]}]
    /\ UNCHANGED <<jobs, docs, task, processed, crashes>>

\* ... and another one writes the status.
DeriveWrite(c) ==
    /\ call[c].pc = "derive_write"
    /\ \E w \in call[c].derived :
          /\ docs' = StatusSet(w.doc, w.status)
          /\ call' = [call EXCEPT ![c].pc = "derive", ![c].todo = @ \ {w.doc},
                                  ![c].derived = {}]
    /\ UNCHANGED <<jobs, task, processed, crashes>>

\* The round is over and _DRAIN_TIME_BUDGET_S is spent.
BudgetSpent(c) ==
    /\ call[c].pc = "derive" /\ call[c].todo = {}
    /\ call' = [call EXCEPT ![c].pc = "idle"]
    /\ UNCHANGED <<jobs, docs, task, processed, crashes>>

\* An exception left gather(): drain_once() has ended, the other tasks run on.
AbortedDrainEnds(c) ==
    /\ call[c].pc = "aborted" /\ AllFinished(c) /\ LoopFree(Home[c])
    /\ Goto(c, "idle")
    /\ task' = [task EXCEPT ![c] = NoTask]
    /\ UNCHANGED <<jobs, docs, processed, crashes>>

-----------------------------------------------------------------------------
(* _run_one(): run the stage, enqueue its successor, mark it done. *)

\* run_job() up to its first await.  A document that is gone raises in
\* _load_doc(); a file that cannot be parsed raises before the first await;
\* structuring never awaits; generate may find nothing to answer.  Its few
\* transactions are taken as one step: they touch no job row, a status written
\* between them is overwritten by the last of them, and a document deleted
\* between them makes a later step of the task fail.
TaskStart(c, j) ==
    /\ Active(c, j) /\ task[c][j].pc = "start" /\ LoopFree(Home[c])
    /\ LET d == jobs[j].doc
           s == jobs[j].stage
       IN  \/ /\ docs[d] = "gone"
              /\ TaskGoto(c, j, "mark_failed")
              /\ UNCHANGED docs
           \/ /\ docs[d] # "gone" /\ s = "ingest"
              /\ \/ docs' = StatusSet(d, "extracting") /\ TaskGoto(c, j, "mark_failed")
                 \/ docs' = StatusSet(d, "chunked") /\ TaskGoto(c, j, "running")
           \/ /\ docs[d] # "gone" /\ s = "extract"
              /\ docs' = StatusSet(d, "analyzing") /\ TaskGoto(c, j, "running")
           \/ /\ docs[d] # "gone" /\ s = "structure"
              /\ docs' = StatusSet(d, "structured")
              /\ \E pc \in {"enqueue", "mark_failed"} : TaskGoto(c, j, pc)
           \/ /\ docs[d] # "gone" /\ s = "generate"
              /\ \E pc \in {"running", "enqueue"} : TaskGoto(c, j, pc)
              /\ UNCHANGED docs
    /\ UNCHANGED <<jobs, call, processed, crashes>>

\* Mutated form: marked done before its successor is enqueued.
TaskEndsDoneFirst(c, j) ==
    /\ Active(c, j) /\ task[c][j].pc = "running" /\ LoopFree(Home[c])
    /\ \/ /\ docs[jobs[j].doc] # "gone"
          /\ TaskGoto(c, j, "enqueue")
          /\ jobs' = IF Exists(j) THEN [jobs EXCEPT ![j].status = "done"] ELSE jobs
       \/ TaskGoto(c, j, "mark_failed") /\ UNCHANGED jobs
    /\ UNCHANGED <<docs, call, processed, crashes>>

\* The stage's last await returned and its results are stored, or it raised;
\* when the document is gone, the foreign key of agent_runs makes it raise.
TaskEnds(c, j) ==
    /\ Active(c, j) /\ task[c][j].pc = "running" /\ LoopFree(Home[c])
    /\ \/ docs[jobs[j].doc] # "gone" /\ TaskGoto(c, j, "enqueue")
       \/ TaskGoto(c, j, "mark_failed")
    /\ UNCHANGED <<jobs, docs, call, processed, crashes>>

EnqueueSuccessors(c, j) ==
    /\ Active(c, j) /\ task[c][j].pc = "enqueue"
    /\ LET d == jobs[j].doc
           s == jobs[j].stage
       IN  \/ /\ s = "generate"
              /\ TaskGoto(c, j, "mark_done")
              /\ UNCHANGED jobs
           \/ /\ s # "generate" /\ docs[d] = "gone"
              /\ TaskGoto(c, j, "mark_failed")
              /\ UNCHANGED jobs
           \/ /\ s # "generate" /\ docs[d] # "gone" /\ Len(jobs) < MaxJobs
              /\ jobs' = Inserted(d, Successor[s])
              /\ TaskGoto(c, j, "mark_done")
    /\ UNCHANGED <<docs, call, processed, crashes>>

\* UPDATE jobs SET status = 'done' WHERE id = j: whatever the row is by now.
MarkDone(c, j) ==
    /\ Active(c, j) /\ task[c][j].pc = "mark_done"
    /\ jobs' = IF Exists(j) THEN [jobs EXCEPT ![j].status = "done"] ELSE jobs
    /\ TaskGoto(c, j, "finished")
    /\ UNCHANGED <<docs, call, processed, crashes>>

\* Mutated forms: buried one attempt early, one attempt late.
MarkFailedUpTo(c, j, limit) ==
    /\ Active(c, j) /\ task[c][j].pc = "mark_failed"
    /\ ~Duplicate(j)
    /\ LET row == IF task[c][j].attempts >= limit
                  THEN [jobs[j] EXCEPT !.status = "dead", !.lease = "none", !.due = TRUE]
                  ELSE [jobs[j] EXCEPT !.status = "pending", !.lease = "none", !.due = FALSE]
       IN  jobs' = IF Exists(j) THEN [jobs EXCEPT ![j] = row] ELSE jobs
    /\ TaskGoto(c, j, "finished")
    /\ UNCHANGED <<docs, call, processed, crashes>>

MarkFailedEarly(c, j) == MarkFailedUpTo(c, j, MaxAttempts - 1)

MarkFailedLate(c, j) == MarkFailedUpTo(c, j, MaxAttempts + 1)

\* mark_failed(): 'dead' once the attempts of the claimed snapshot are used up,
\* otherwise 'pending' again after a backoff.
MarkFailed(c, j) ==
    /\ Active(c, j) /\ task[c][j].pc = "mark_failed"
    /\ task[c][j].attempts < MaxAttempts => ~Duplicate(j)
    /\ LET row == IF task[c][j].attempts >= MaxAttempts
                  THEN [jobs[j] EXCEPT !.status = "dead", !.lease = "none", !.due = TRUE]
                  ELSE [jobs[j] EXCEPT !.status = "pending", !.lease = "none", !.due = FALSE]
       IN  jobs' = IF Exists(j) THEN [jobs EXCEPT ![j] = row] ELSE jobs
    /\ TaskGoto(c, j, "finished")
    /\ UNCHANGED <<docs, call, processed, crashes>>

\* The unique-live index refuses the second pending row of a stage: the
\* exception leaves _run_one() and ends the drain before it derives a status.
MarkFailedRaises(c, j) ==
    /\ Active(c, j) /\ task[c][j].pc = "mark_failed"
    /\ task[c][j].attempts < MaxAttempts /\ Duplicate(j)
    /\ TaskGoto(c, j, "finished")
    /\ Goto(c, "aborted")
    /\ UNCHANGED <<jobs, docs, processed, crashes>>

\* _heartbeat_loop() of a batched generate.
Heartbeat(c, j) ==
    /\ Active(c, j) /\ task[c][j].pc = "running" /\ LoopFree(Home[c])
    /\ jobs[j].stage = "generate" /\ Exists(j)
    /\ jobs' = [jobs EXCEPT ![j].lease = "held"]
    /\ UNCHANGED <<docs, call, task, processed, crashes>>

-----------------------------------------------------------------------------
(* Time and failures. *)

\* run_after has passed.
BackoffElapses(j) ==
    /\ j \in Ids /\ jobs[j].status = "pending" /\ ~jobs[j].due
    /\ jobs' = [jobs EXCEPT ![j].due = TRUE]
    /\ UNCHANGED <<docs, call, task, processed, crashes>>

\* Five minutes without a heartbeat: the worker is dead, or slow.
LeaseLapses(j) ==
    /\ j \in Ids /\ jobs[j].status = "claimed" /\ jobs[j].lease = "held"
    /\ jobs[j].stage \in SlowStages \/ \A c \in Calls : ~Active(c, j)
    /\ jobs' = [jobs EXCEPT ![j].lease = "lapsed"]
    /\ UNCHANGED <<docs, call, task, processed, crashes>>

\* A process with work in hand dies; the scheduler finds it restarted.
Crash(p) ==
    /\ crashes < MaxCrashes
    /\ \E c \in Calls : Home[c] = p /\ call[c].pc # "idle"
    /\ crashes' = crashes + 1
    /\ call' = [c \in Calls |-> IF Home[c] = p THEN IdleCall ELSE call[c]]
    /\ task' = [c \in Calls |-> IF Home[c] = p THEN NoTask ELSE task[c]]
    /\ UNCHANGED <<jobs, docs, processed>>

-----------------------------------------------------------------------------
CallStep(c) ==
    \/ ProcessEnqueue(c) \/ ProcessSetQueued(c)
    \/ KickDrain(c) \/ Claim(c) \/ GatherReturns(c)
    \/ DeriveRead(c) \/ DeriveWrite(c) \/ BudgetSpent(c) \/ AbortedDrainEnds(c)

TaskStep(c, j) ==
    \/ TaskStart(c, j) \/ TaskEnds(c, j) \/ EnqueueSuccessors(c, j)
    \/ MarkDone(c, j) \/ MarkFailed(c, j) \/ MarkFailedRaises(c, j)

Next ==
    \/ \E c \in Calls, d \in Docs : ProcessDelete(c, d)
    \/ \E d \in Docs : ProcessWithoutKey(d) \/ DocumentDelete(d)
    \/ \E c \in Calls : StartDrain(c) \/ CallStep(c)
    \/ \E c \in Calls, j \in JobIds : TaskStep(c, j) \/ Heartbeat(c, j)
    \/ \E j \in JobIds : BackoffElapses(j) \/ LeaseLapses(j)
    \/ \E p \in Procs : Crash(p)

Spec == Init /\ [][Next]_vars

\* The scheduler keeps calling the drain endpoint, a coroutine that may step
\* does, and the clock advances.
Clock ==
    \A j \in JobIds : WF_vars(BackoffElapses(j)) /\ WF_vars(LeaseLapses(j))

Scheduler ==
    WF_vars(\E c \in Calls : StartDrain(c))

FairSpec ==
    /\ Spec /\ Clock /\ Scheduler
    /\ \A c \in Calls : WF_vars(CallStep(c))
    /\ \A c \in Calls, j \in JobIds : WF_vars(TaskStep(c, j))

=============================================================================
