------------------------ MODULE JobQueueProperties ------------------------
(***************************************************************************)
(* What the job queue of JobQueue.tla promises.                            *)
(***************************************************************************)
EXTENDS JobQueue

(* Every variable keeps its shape: the rows of the table, the statuses of  *)
(* the documents, the control state of the calls and of their tasks.       *)
TypeOK ==
    /\ jobs \in Seq(Row)
    /\ docs \in [Docs -> DocStatus]
    /\ call \in [Calls -> [pc : CallPc, todo : SUBSET Docs,
                           derived : SUBSET [doc : Docs, status : DocStatus]]]
    /\ DOMAIN task = Calls
    /\ \A c \in Calls : /\ DOMAIN task[c] \subseteq Ids
                        /\ task[c] \in [DOMAIN task[c] -> [pc : TaskPc, attempts : Nat]]
    /\ processed \in [Docs -> Nat]
    /\ crashes \in Nat

(* A stage that is done has its successor in the table (jobs.py:482-486: a *)
(* gap would be permanent, nothing ever revisits a done stage), whatever   *)
(* crashes, lapsed leases or re-queued documents come in between.          *)
NoGap ==
    \A j \in Ids : jobs[j].status = "done" /\ jobs[j].stage # "generate" =>
        \E k \in Ids : /\ jobs[k].doc = jobs[j].doc /\ Exists(k)
                       /\ jobs[k].stage = Successor[jobs[j].stage]

(* Only a job that was claimed max_attempts times is buried (jobs.py:128), *)
(* also when the worker that buries it holds an old snapshot of the row.   *)
DeadIsExhausted ==
    \A j \in Ids : jobs[j].status = "dead" => jobs[j].attempts >= MaxAttempts

(* Beyond max_attempts a job is claimed only to make up for a crash:       *)
(* failures alone never claim it again (recover_stuck_jobs() checks no     *)
(* attempts, so a crash does).  Here and in the next two properties no     *)
(* worker outlives its lease (SlowStages is empty): one that does makes a  *)
(* lapsed row claimable without a crash.                                   *)
ClaimsBounded ==
    \A j \in Ids : jobs[j].attempts <= MaxAttempts + crashes

(* No two calls work on the same job (jobs.py:497, schema.sql:277-282), as *)
(* long as no worker outlives its lease.                                   *)
OneWorkerPerJob ==
    \A c1, c2 \in Calls, j \in Ids : Active(c1, j) /\ Active(c2, j) => c1 = c2

(* "Failed unit: re-queue with backoff, or bury" (jobs.py:128): no retry   *)
(* violates the unique-live index.  The exception would end the drain with *)
(* the row still claimed and leave the touched documents with a stale      *)
(* status.  It takes two rows of one stage of which one is at work, as     *)
(* when the worker of an old run enqueues a stage the new run is at.       *)
NoDrainAborts == \A c \in Calls : call[c].pc # "aborted"

(* A document has one job at work at a time and its stages run in order:   *)
(* while a stage runs, every other job of the document is an earlier stage *)
(* and done.  A document that is queued again is exempt here and below:    *)
(* a worker of the old run may still be at work (documents.py:162-165).    *)
QueuedOnce(d) == processed[d] <= 1

StagesInOrder ==
    \A c \in Calls, j \in Ids :
        /\ QueuedOnce(jobs[j].doc)
        /\ Active(c, j) /\ task[c][j].pc \in {"start", "running"}
        => \A k \in RowsOf(jobs[j].doc) \ {j} :
              /\ jobs[k].status = "done"
              /\ StageOrder[jobs[k].stage] < StageOrder[jobs[j].stage]

(* The jobs one round claims are "each an independent unit of work"        *)
(* (jobs.py:515-517): never two jobs of one document.  This takes that no  *)
(* process dies between enqueue_successors() and mark_done().              *)
BatchIsIndependent ==
    \A c \in Calls : \A j, k \in DOMAIN task[c] :
        QueuedOnce(jobs[j].doc) /\ jobs[j].doc = jobs[k].doc => j = k

(* A crash there breaks the promise: the recovered stage and the successor *)
(* it has enqueued may be claimed together.  One crash brings one such job *)
(* into the batch and no more, in any number of processes.                 *)
BatchMixedByCrashOnly ==
    \A c \in Calls, d \in Docs : QueuedOnce(d) =>
        Cardinality({j \in DOMAIN task[c] : jobs[j].doc = d}) <= 1 + crashes

(* enqueue_successors() is idempotent (jobs.py:200): no stage of a queued   *)
(* document gets a second job, so no stage that is done is run again.      *)
StageIsQueuedOnce ==
    \A j, k \in Ids : /\ QueuedOnce(jobs[j].doc) /\ Exists(j) /\ Exists(k)
                      /\ jobs[j].doc = jobs[k].doc /\ jobs[j].stage = jobs[k].stage
                      => j = k

(* When no call is at work and nothing is queued for a document, its       *)
(* status is the one its job rows say (jobs.py:246-257), also after it was *)
(* queued again.  "uploaded" is what documents_process() writes without an *)
(* LLM key, whatever the rows say (documents.py:150-160).                  *)
Quiet(d) ==
    /\ \A c \in Calls : call[c].pc \in {"idle", "kicked", "claim"}
    /\ \A j \in RowsOf(d) : ~Live(j)

RestingStatusIsDerived ==
    \A d \in Docs : docs[d] \notin {"gone", "uploaded"} /\ RowsOf(d) # {} /\ Quiet(d) =>
        docs[d] \in DerivedStatuses(d)

(* The statuses nothing follows are deserved, at any time and whatever     *)
(* died or was derived late: a document is "completed" when every stage of *)
(* it is done, and failed when a stage of it was buried.  A crash before   *)
(* derive_doc_status() or a late write in another process can leave a      *)
(* status behind the rows (jobs.py:522-524, 246-257), never ahead of them. *)
FinalStatusIsEarned ==
    \A d \in Docs : QueuedOnce(d) =>
        /\ docs[d] = "completed" =>
              \A s \in Stages : \E j \in RowsOf(d) : jobs[j].stage = s /\ jobs[j].status = "done"
        /\ docs[d] \in {StageDeadStatus[s] : s \in Stages} =>
              \E j \in RowsOf(d) : /\ jobs[j].status = "dead"
                                   /\ StageDeadStatus[jobs[j].stage] = docs[d]

(* A finished job is never revived: mark_failed() of a late worker does not *)
(* turn a done row into a pending one, as long as no worker outlives its    *)
(* lease: a worker that does still holds the row another one has finished.  *)
DoneIsFinal ==
    [][\A j \in Ids : jobs[j].status = "done" => jobs'[j].status \in {"done", "deleted"}]_vars

(* A completed document stays completed until it is queued again or        *)
(* deleted, or found without an LLM key: no late worker or drain           *)
(* overwrites the status.                                                  *)
CompletedIsStable ==
    [][\A d \in Docs : QueuedOnce(d) /\ docs[d] = "completed" =>
          docs'[d] \in {"completed", "queued", "uploaded", "gone"}]_vars

(* Every queued job is eventually settled: done, dead or deleted, although *)
(* a worker may die with the job in hand.                                  *)
JobsSettle ==
    \A d \in Docs : (\E j \in RowsOf(d) : Live(j)) ~> (\A j \in RowsOf(d) : ~Live(j))

=============================================================================
