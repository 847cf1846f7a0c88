------------------------------ MODULE Generate ------------------------------
(***************************************************************************)
(* Questions and answers of one document: the structuring agent            *)
(* (src/app/pipeline/agents.py), the batched generate job                  *)
(* (_run_generate_batched() in src/app/pipeline/jobs.py over               *)
(* generate_batch_answers() in src/app/pipeline/rag.py) and the user who   *)
(* edits an answer (src/app/routers/documents.py).                         *)
(*                                                                         *)
(* As in JobQueue, an action is one transaction or one await, and nothing  *)
(* else of a process steps while a coroutine of it is HOT.  The queue is   *)
(* reduced to the generate job: one worker has it at a time, a heartbeat   *)
(* keeps its lease, and a crash leaves it to be claimed again.             *)
(*                                                                         *)
(* A structuring run deletes every question, with its answer, and inserts  *)
(* new ones.  epoch counts these runs: a coroutine that read the questions *)
(* of an earlier epoch holds ids that no longer exist.                     *)
(***************************************************************************)
EXTENDS Naturals, FiniteSets

CONSTANTS
    Questions,     \* the requirements a structuring run makes questions of
    CategoryOf,    \* the category of each question
    BatchSize,     \* _GENERATE_BATCH_SIZE
    Batches,       \* names for the sub-batches of a run, enough of them
    Procs,         \* worker processes
    MaxAttempts,   \* jobs.max_attempts
    MaxReruns,     \* bound: structuring jobs recovered after their enqueue
    MaxEdits,      \* bound: edits by the user
    MaxCrashes     \* bound: process crashes

ASSUME GenerateAssumption ==
    /\ DOMAIN CategoryOf = Questions
    /\ BatchSize \in Nat \ {0}
    /\ MaxAttempts \in Nat \ {0}
    /\ MaxReruns \in Nat /\ MaxEdits \in Nat /\ MaxCrashes \in Nat
    /\ Procs \cap {"queued", "done"} = {}

VARIABLES
    structuring,  \* the structure job: queued, done, or the process between
                  \* its two transactions
    epoch,        \* structuring runs so far
    resp,         \* the response row of each question of the epoch
    job,          \* the generate job, and how many were made so far
    run,          \* its worker
    batchOf,      \* the sub-batch each question was last put in
    batch,        \* the generate_batch_answers() coroutines of the worker
    tasks,        \* the single-question fallbacks under way
    reruns, edits, crashes

vars == <<structuring, epoch, resp, job, run, batchOf, batch, tasks, reruns, edits, crashes>>

limits == <<reruns, edits, crashes>>

-----------------------------------------------------------------------------
NoBatch == [pc |-> "none", todo |-> {}, ask |-> {}]

Idle == [pc |-> "idle", proc |-> {}, asked |-> 0, pending |-> {}, round |-> 0, failed |-> {}]

Hot(p) ==
    \/ structuring = p
    \/ /\ run.proc = {p}
       /\ \/ run.pc \in {"read_answered", "count", "mark_done"}
          \/ \E b \in Batches : batch[b].pc = "store"

LoopFree(p) == ~Hot(p)

\* The coroutines of the worker may resume.
Resumes == \A p \in run.proc : LoopFree(p)

\* The questions the worker has read are still in the table.
Current == run.asked = epoch

\* _upsert_response(): overwrites whatever response there is.  Its SELECT and
\* its INSERT are one step but where they lose a race (StoreRefused and
\* FallbackRaises).
Upsert(q) == resp' = [resp EXCEPT ![q] = "ai"]

InBatch(b) == {q \in run.pending : batchOf[q] = b}

\* A sub-batch is cut from the pending questions of one category, which the
\* query returns in any order; at most one of a category is not full.
Cuts(pending) ==
    LET Part(cut, b) == {q \in pending : cut[q] = b}
    IN  {cut \in [Questions -> Batches] :
            /\ \A q \in Questions \ pending : cut[q] = batchOf[q]
            /\ \A q, r \in pending : cut[q] = cut[r] => CategoryOf[q] = CategoryOf[r]
            /\ \A b \in Batches : Cardinality(Part(cut, b)) <= BatchSize
            /\ \A q, r \in pending : cut[q] # cut[r] /\ CategoryOf[q] = CategoryOf[r] =>
                  \E b \in {cut[q], cut[r]} : Cardinality(Part(cut, b)) = BatchSize}

\* The coroutines of a first round.
Retrieving(cut, pending) ==
    [b \in Batches |-> IF \E q \in pending : cut[q] = b
                       THEN [NoBatch EXCEPT !.pc = "retrieve"] ELSE NoBatch]

\* A batch with the answers of todo to store, and the questions of ask still
\* to put to the model.
Staged(todo, ask) ==
    [pc |-> IF todo # {} THEN "store" ELSE IF ask # {} THEN "ask" ELSE "ok",
     todo |-> todo, ask |-> ask]

Failed == [pc |-> "failed", todo |-> {}, ask |-> {}]

\* The fallback the worker starts for a question.
Fallback(q) == [q |-> q, asked |-> run.asked, made |-> job.made, attempt |-> job.attempts,
                round |-> run.round, proc |-> run.proc]

\* The fallbacks that belong to the batch as it is now; the others are left
\* over from a batch that raised.
TasksOf(b) == {t \in tasks : /\ batchOf[t.q] = b /\ t.asked = run.asked
                             /\ t.made = job.made /\ t.attempt = job.attempts
                             /\ t.round = run.round}

-----------------------------------------------------------------------------
Init ==
    /\ structuring = "queued" /\ epoch = 0
    /\ resp = [q \in Questions |-> "none"]
    /\ job = [status |-> "none", attempts |-> 0, made |-> 0]
    /\ run = Idle
    /\ \E b \in Batches : batchOf = [q \in Questions |-> b]
    /\ batch = [b \in Batches |-> NoBatch]
    /\ tasks = {}
    /\ reruns = 0 /\ edits = 0 /\ crashes = 0

-----------------------------------------------------------------------------
(* The structuring agent. *)

\* run_structuring_agent(): one transaction.
Structure(p) ==
    /\ structuring = "queued" /\ LoopFree(p)
    /\ structuring' = p
    /\ epoch' = epoch + 1
    /\ resp' = [q \in Questions |-> "none"]
    /\ UNCHANGED <<batchOf, job, run, batch, tasks, limits>>

\* enqueue_successors(): swallowed while a generate job is live.
StructureEnqueues ==
    /\ structuring \in Procs
    /\ structuring' = "done"
    /\ job' = IF job.status \in {"pending", "claimed"} THEN job
              ELSE [status |-> "pending", attempts |-> 0, made |-> job.made + 1]
    /\ UNCHANGED <<batchOf, epoch, resp, run, batch, tasks, limits>>

\* The worker died before mark_done(), and the job is recovered.
StructureRecovered ==
    /\ structuring = "done" /\ reruns < MaxReruns
    /\ structuring' = "queued"
    /\ reruns' = reruns + 1
    /\ UNCHANGED <<batchOf, epoch, resp, job, run, batch, tasks, edits, crashes>>

-----------------------------------------------------------------------------
(* _run_generate_batched(). *)

Claim(p) ==
    /\ job.status = "pending" /\ LoopFree(p)
    /\ job' = [job EXCEPT !.status = "claimed", !.attempts = job.attempts + 1]
    /\ run' = [Idle EXCEPT !.pc = "start", !.proc = {p}]
    /\ UNCHANGED <<batchOf, structuring, epoch, resp, batch, tasks, limits>>

ReadQuestions ==
    /\ run.pc = "start" /\ Resumes
    /\ run' = [run EXCEPT !.pc = "read_answered", !.asked = epoch]
    /\ UNCHANGED <<batchOf, structuring, epoch, resp, job, batch, tasks, limits>>

\* Mutated form: the questions that have a response are asked again.
ReadAll ==
    /\ run.pc = "read_answered"
    /\ run' = [run EXCEPT !.pc = "round", !.round = 1, !.pending = Questions]
    /\ \E cut \in Cuts(Questions) : batchOf' = cut /\ batch' = Retrieving(cut, Questions)
    /\ UNCHANGED <<structuring, epoch, resp, job, tasks, limits>>

ReadAnswered ==
    /\ run.pc = "read_answered"
    /\ LET pending == {q \in Questions : Current => resp[q] = "none"}
       IN  \/ /\ pending = {}
              /\ run' = [run EXCEPT !.pc = "mark_done"]
              /\ UNCHANGED <<batchOf, batch>>
           \/ /\ pending # {}
              /\ run' = [run EXCEPT !.pc = "round", !.round = 1, !.pending = pending]
              /\ \E cut \in Cuts(pending) : batchOf' = cut /\ batch' = Retrieving(cut, pending)
    /\ UNCHANGED <<structuring, epoch, resp, job, tasks, limits>>

\* run_batches() returned: the batches that raised are retried once.
RoundEnds ==
    /\ run.pc = "round" /\ Resumes
    /\ \A b \in Batches : batch[b].pc \in {"none", "ok", "failed"}
    /\ LET failed == {b \in Batches : batch[b].pc = "failed"}
       IN  \/ /\ run.round = 1 /\ failed # {}
              /\ run' = [run EXCEPT !.round = 2]
              /\ batch' = [b \in Batches |-> IF b \in failed
                                             THEN [NoBatch EXCEPT !.pc = "retrieve"]
                                             ELSE NoBatch]
           \/ /\ run.round = 2 \/ failed = {}
              /\ run' = [run EXCEPT !.pc = "count", !.failed = failed]
              /\ batch' = [b \in Batches |-> NoBatch]
    /\ UNCHANGED <<batchOf, structuring, epoch, resp, job, tasks, limits>>

\* Mutated form: the stage completes whatever was answered.
CountNothing ==
    /\ run.pc = "count"
    /\ run' = [run EXCEPT !.pc = "succeeding"]
    /\ UNCHANGED <<batchOf, structuring, epoch, resp, job, batch, tasks, limits>>

\* answered_count: one answer is enough.  Then the heartbeat is awaited.
Count ==
    /\ run.pc = "count"
    /\ LET answered == {q \in run.pending : Current /\ resp[q] # "none"}
       IN  run' = [run EXCEPT !.pc = IF answered # {} THEN "succeeding" ELSE "failing"]
    /\ UNCHANGED <<batchOf, structuring, epoch, resp, job, batch, tasks, limits>>

MarkDone ==
    /\ run.pc = "mark_done" \/ (run.pc = "succeeding" /\ Resumes)
    /\ job' = [job EXCEPT !.status = "done"]
    /\ run' = [Idle EXCEPT !.asked = run.asked, !.failed = run.failed]
    /\ UNCHANGED <<batchOf, structuring, epoch, resp, batch, tasks, limits>>

\* Mutated form: a status no reader of the jobs knows.
MarkFailedTypo ==
    /\ run.pc = "failing" /\ Resumes
    /\ job' = [job EXCEPT !.status = IF job.attempts >= MaxAttempts THEN "failed" ELSE "pending"]
    /\ run' = Idle
    /\ UNCHANGED <<batchOf, structuring, epoch, resp, batch, tasks, limits>>

MarkFailed ==
    /\ run.pc = "failing" /\ Resumes
    /\ job' = [job EXCEPT !.status = IF job.attempts >= MaxAttempts THEN "dead" ELSE "pending"]
    /\ run' = Idle
    /\ UNCHANGED <<batchOf, structuring, epoch, resp, batch, tasks, limits>>

-----------------------------------------------------------------------------
(* generate_batch_answers(). *)

SetBatch(b, x) == batch' = [batch EXCEPT ![b] = x]

\* The retrieval raises, or finds no source for some questions.
Retrieve(b) ==
    /\ batch[b].pc = "retrieve" /\ Resumes
    /\ \/ SetBatch(b, Failed)
       \/ \E gaps \in SUBSET InBatch(b) : SetBatch(b, Staged(gaps, InBatch(b) \ gaps))
    /\ UNCHANGED <<batchOf, structuring, epoch, resp, job, run, tasks, limits>>

\* One answer is stored; the foreign key refuses it when the question is gone.
Store(b) ==
    /\ batch[b].pc = "store"
    /\ \E q \in batch[b].todo :
          \/ /\ Current
             /\ Upsert(q)
             /\ SetBatch(b, Staged(batch[b].todo \ {q}, batch[b].ask))
          \/ /\ ~Current
             /\ SetBatch(b, Failed)
             /\ UNCHANGED resp
    /\ UNCHANGED <<batchOf, structuring, epoch, job, run, tasks, limits>>

\* A fallback another process has left over inserts a response of the batch
\* between its SELECT and its INSERT, which the unique key then refuses.
StoreRefused(b) ==
    /\ batch[b].pc = "store" /\ Current
    /\ \E t \in tasks :
          /\ t.q \in batch[b].todo /\ resp[t.q] = "none" /\ t.asked = epoch
          /\ t.proc # run.proc /\ \A p \in t.proc : LoopFree(p)
          /\ Upsert(t.q)
          /\ tasks' = tasks \ {t}
    /\ SetBatch(b, Failed)
    /\ UNCHANGED <<batchOf, structuring, epoch, job, run, limits>>

\* Mutated form: what the model left unanswered is dropped.
AskWithoutFallback(b) ==
    /\ batch[b].pc = "ask" /\ Resumes
    /\ \E unanswered \in SUBSET batch[b].ask :
          SetBatch(b, Staged(batch[b].ask \ unanswered, {}))
    /\ UNCHANGED <<batchOf, structuring, epoch, resp, job, run, tasks, limits>>

\* The batch call, tried twice, leaves some questions unanswered (or all, when
\* it raised twice): each of them falls back to a call of its own.
Ask(b) ==
    /\ batch[b].pc = "ask" /\ Resumes
    /\ \E unanswered \in SUBSET batch[b].ask :
          LET answered == batch[b].ask \ unanswered
          IN  /\ SetBatch(b, IF unanswered = {} THEN Staged(answered, {})
                             ELSE [pc |-> "gather", todo |-> answered, ask |-> {}])
              /\ tasks' = tasks \cup {Fallback(q) : q \in unanswered}
    /\ UNCHANGED <<batchOf, structuring, epoch, resp, job, run, limits>>

\* generate_and_persist_answer() of a fallback stores its answer ...
FallbackStores(t) ==
    /\ t \in tasks /\ \A p \in t.proc : LoopFree(p)
    /\ t.asked = epoch
    /\ Upsert(t.q)
    /\ tasks' = tasks \ {t}
    /\ UNCHANGED <<batchOf, structuring, epoch, job, run, batch, limits>>

\* Mutated form: gather(..., return_exceptions=True).
FallbackRaisesQuietly(t) ==
    /\ t \in tasks /\ \A p \in t.proc : LoopFree(p)
    /\ tasks' = tasks \ {t}
    /\ UNCHANGED <<batchOf, structuring, epoch, resp, job, run, batch, limits>>

\* ... or raises, whatever the cause, which ends its batch but not the batch's other fallbacks.
FallbackRaises(t) ==
    /\ t \in tasks /\ \A p \in t.proc : LoopFree(p)
    /\ tasks' = tasks \ {t}
    /\ LET b == batchOf[t.q]
       IN  IF batch[b].pc = "gather" /\ t \in TasksOf(b) THEN SetBatch(b, Failed)
           ELSE UNCHANGED batch
    /\ UNCHANGED <<batchOf, structuring, epoch, resp, job, run, limits>>

\* Every fallback has answered: the rest of the batch is stored.
GatherReturns(b) ==
    /\ batch[b].pc = "gather" /\ Resumes
    /\ TasksOf(b) = {}
    /\ SetBatch(b, Staged(batch[b].todo, {}))
    /\ UNCHANGED <<batchOf, structuring, epoch, resp, job, run, tasks, limits>>

-----------------------------------------------------------------------------
(* The user, crashes and recovery. *)

\* edit_response(): the response must exist.
EditResponse(q) ==
    /\ edits < MaxEdits
    /\ \E p \in Procs : LoopFree(p)
    /\ resp[q] # "none"
    /\ resp' = [resp EXCEPT ![q] = "edited"]
    /\ edits' = edits + 1
    /\ UNCHANGED <<batchOf, structuring, epoch, job, run, batch, tasks, reruns, crashes>>

\* Everything the process had in hand is gone.
Crash(p) ==
    /\ crashes < MaxCrashes
    /\ structuring = p \/ (run.proc = {p} /\ run.pc # "idle")
    /\ crashes' = crashes + 1
    /\ structuring' = IF structuring = p THEN "queued" ELSE structuring
    /\ tasks' = {t \in tasks : t.proc # {p}}
    /\ IF run.proc = {p} /\ run.pc # "idle"
       THEN run' = Idle /\ batch' = [b \in Batches |-> NoBatch]
       ELSE UNCHANGED <<run, batch>>
    /\ UNCHANGED <<batchOf, epoch, resp, job, reruns, edits>>

\* Mutated form: a job whose attempts are used up is not recovered.
RecoverUnexhausted ==
    /\ job.status = "claimed" /\ run.pc = "idle" /\ job.attempts < MaxAttempts
    /\ job' = [job EXCEPT !.status = "pending"]
    /\ UNCHANGED <<batchOf, structuring, epoch, resp, run, batch, tasks, limits>>

\* The lease lapses, and a drain recovers the job.
Recover ==
    /\ job.status = "claimed" /\ run.pc = "idle"
    /\ job' = [job EXCEPT !.status = "pending"]
    /\ UNCHANGED <<batchOf, structuring, epoch, resp, run, batch, tasks, limits>>

-----------------------------------------------------------------------------
RunStep == ReadQuestions \/ ReadAnswered \/ RoundEnds \/ Count \/ MarkDone \/ MarkFailed

BatchStep(b) == Retrieve(b) \/ Store(b) \/ StoreRefused(b) \/ Ask(b) \/ GatherReturns(b)

FallbackStep == \E t \in tasks : FallbackStores(t) \/ FallbackRaises(t)

QueueStep == (\E p \in Procs : Structure(p) \/ Claim(p)) \/ StructureEnqueues \/ Recover

Next ==
    \/ QueueStep \/ RunStep \/ FallbackStep
    \/ \E b \in Batches : BatchStep(b)
    \/ StructureRecovered
    \/ \E q \in Questions : EditResponse(q)
    \/ \E p \in Procs : Crash(p)

Spec == Init /\ [][Next]_vars

\* The queue is drained again and again, and every await ends.
FairSpec ==
    /\ Spec /\ WF_vars(QueueStep) /\ WF_vars(RunStep) /\ WF_vars(FallbackStep)
    /\ \A b \in Batches : WF_vars(BatchStep(b))

=============================================================================
