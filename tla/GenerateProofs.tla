--------------------------- MODULE GenerateProofs ---------------------------
(***************************************************************************)
(* Proofs about structuring and generation, for every number of questions, *)
(* batches, processes, attempts, edits and crashes.                        *)
(***************************************************************************)
EXTENDS GenerateProperties, TLAPS

-----------------------------------------------------------------------------
(* The invariant. *)

Working == run.pc # "idle"

\* The worker has a claim of its own, and has not heard of a later epoch.
RunInv ==
    /\ Working => job.status = "claimed" /\ \E p \in Procs : run.proc = {p}
    /\ ~Working => run.proc = {}
    /\ run.asked <= epoch
    /\ run.round = 0 <=> run.pc \in {"idle", "start", "read_answered", "mark_done"}

\* What a batch has in hand are questions of its own, each in one place.
Shaped(x, own) ==
    /\ x.todo \subseteq own /\ x.ask \subseteq own
    /\ x.todo \cap x.ask = {}
    /\ x.pc \in {"none", "retrieve", "ok", "failed", "gather"} => x.ask = {}
    /\ x.pc \in {"none", "retrieve", "ok", "failed", "ask"} => x.todo = {}

BatchInv ==
    /\ run.pc # "round" => \A b \in Batches : batch[b] = NoBatch
    /\ \A b \in Batches : Shaped(batch[b], InBatch(b))

\* A fallback was started under a claim of the past or of the present one.
TaskInv ==
    \A t \in tasks :
        /\ t.made <= job.made
        /\ t.made = job.made => t.attempt <= job.attempts
        /\ t.made = job.made /\ t.attempt = job.attempts /\ Working => t.proc = run.proc

\* The batch may still answer the question, or has failed.
Pursued(b, q) ==
    \/ batch[b].pc \in {"retrieve", "failed"}
    \/ q \in batch[b].todo \cup batch[b].ask
    \/ batch[b].pc = "gather" /\ \E t \in TasksOf(b) : t.q = q

\* Where the unanswered questions are, as long as the worker knows them.
Located(q) ==
    /\ run.pc = "round" => q \in run.pending /\ Pursued(batchOf[q], q)
    /\ run.pc \in {"count", "succeeding", "failing"} => batchOf[q] \in run.failed
    /\ run.pc # "mark_done"
    /\ job.status = "done" => batchOf[q] \in run.failed

CoverInv == Current => \A q \in Questions : resp[q] = "none" => Located(q)

PastRead == run.pc \notin {"idle", "start"}

SomeAnswer == \E q \in Questions : resp[q] # "none"

\* As long as no structuring run comes beside a worker.
AloneInv ==
    reruns = 0 =>
        /\ structuring # "done" => job.status = "none" /\ tasks = {}
        /\ PastRead => Current
        /\ run.pc = "succeeding" => SomeAnswer
        /\ job.status = "done" /\ Questions # {} => SomeAnswer

\* The worker, its batches and its fallbacks hold together.
WInv == TypeOK /\ RunInv /\ BatchInv /\ TaskInv

GInv == WInv /\ CoverInv /\ AloneInv

\* The claims and the structuring runs make up for the crashes.
ClaimInv ==
    reruns = 0 =>
        /\ structuring = "queued" => epoch = crashes
        /\ structuring \in Procs => epoch = crashes + 1
        /\ job.status \in {"pending", "claimed"} => job.attempts + epoch >= crashes + 1
        /\ Working => job.attempts + epoch >= crashes + 2

\* The questions a batch will put to the model or store.
Open(b) == IF batch[b].pc = "retrieve" THEN InBatch(b) ELSE batch[b].todo \cup batch[b].ask

\* Without a failure there is no fallback of another claim, ...
OwnInv ==
    reruns = 0 =>
        /\ job.status \in {"pending", "claimed"} /\ ~Working
              /\ job.attempts + epoch <= crashes + 1 => tasks = {}
        /\ NoRunFailed /\ Working =>
              \A t \in tasks : t.made = job.made /\ t.attempt = job.attempts /\ run.round # 0

\* ... and in the first round what is in hand is unanswered, and in one hand.
OnceInv ==
    NoRunFailed /\ run.round = 1 =>
        /\ \A t \in tasks : resp[t.q] = "none" /\ t \in TasksOf(batchOf[t.q])
        /\ run.pc = "round" => \A b \in Batches : \A q \in Open(b) :
              resp[q] = "none" /\ \A t \in tasks : t.q # q

EInv == GInv /\ ClaimInv /\ OwnInv /\ OnceInv

-----------------------------------------------------------------------------
(* Type correctness. *)

JobRecord == [status : {"none", "pending", "claimed", "done", "dead"}, attempts : Nat, made : Nat]

RunRecord == [pc : {"idle", "start", "read_answered", "round", "count", "succeeding",
                    "failing", "mark_done"},
              proc : SUBSET Procs, asked : Nat, pending : SUBSET Questions,
              round : 0..2, failed : SUBSET Batches]

BatchRecord == [pc : {"none", "retrieve", "store", "ask", "gather", "ok", "failed"},
                todo : SUBSET Questions, ask : SUBSET Questions]

(* The parts of TypeOK under the names the proofs use.                     *)
LEMMA TypeParts ==
    TypeOK <=> /\ structuring \in Procs \cup {"queued", "done"}
               /\ epoch \in Nat
               /\ resp \in [Questions -> {"none", "ai", "edited"}]
               /\ job \in JobRecord
               /\ run \in RunRecord
               /\ batchOf \in [Questions -> Batches]
               /\ batch \in [Batches -> BatchRecord]
               /\ tasks \subseteq Task
               /\ reruns \in Nat /\ edits \in Nat /\ crashes \in Nat
BY DEF TypeOK, JobRecord, RunRecord, BatchRecord

(* A batch that is reset, failed or staged is a batch.                     *)
LEMMA BatchRecords ==
    /\ NoBatch \in BatchRecord /\ Failed \in BatchRecord
    /\ [NoBatch EXCEPT !.pc = "retrieve"] \in BatchRecord
    /\ \A todo, ask \in SUBSET Questions :
          /\ Staged(todo, ask) \in BatchRecord
          /\ [pc |-> "gather", todo |-> todo, ask |-> ask] \in BatchRecord
BY DEF NoBatch, Failed, Staged, BatchRecord

(* The initial state has the right types.                                  *)
LEMMA TypeInit == Init => TypeOK
BY BatchRecords, TypeParts DEF Init, Idle, JobRecord, RunRecord

(* The parts of TypeOK in the next state.                                  *)
LEMMA TypePartsNext ==
    ASSUME structuring' \in Procs \cup {"queued", "done"}, epoch' \in Nat,
           resp' \in [Questions -> {"none", "ai", "edited"}],
           job' \in JobRecord, run' \in RunRecord, batchOf' \in [Questions -> Batches],
           batch' \in [Batches -> BatchRecord],
           tasks' \subseteq Task, reruns' \in Nat, edits' \in Nat, crashes' \in Nat
    PROVE  TypeOK'
BY DEF TypeOK, JobRecord, RunRecord, BatchRecord

RunPc == {"idle", "start", "read_answered", "round", "count", "succeeding", "failing", "mark_done"}

\* The worker, the job and the updates of them, field by field.
RunIs(pc, proc, asked, pending, round, failed) ==
    [pc |-> pc, proc |-> proc, asked |-> asked, pending |-> pending, round |-> round,
     failed |-> failed]

Jumped(pc)    == [run EXCEPT !.pc = pc]
HasRead(e)    == [run EXCEPT !.pc = "read_answered", !.asked = e]
FirstRound(s) == [run EXCEPT !.pc = "round", !.round = 1, !.pending = s]
SecondRound   == [run EXCEPT !.round = 2]
Counting(f)   == [run EXCEPT !.pc = "count", !.failed = f]
Started(p)    == [Idle EXCEPT !.pc = "start", !.proc = {p}]
Ended         == [Idle EXCEPT !.asked = run.asked, !.failed = run.failed]

JobIs(status, attempts, made) == [status |-> status, attempts |-> attempts, made |-> made]

JobSet(status) == [job EXCEPT !.status = status]
JobClaimed     == [job EXCEPT !.status = "claimed", !.attempts = job.attempts + 1]

(* The fields of a worker, and which fields make one.                      *)
LEMMA RunFields ==
    /\ \A r \in RunRecord : /\ r.pc \in RunPc /\ r.proc \in SUBSET Procs /\ r.asked \in Nat
                            /\ r.pending \in SUBSET Questions /\ r.round \in 0..2
                            /\ r.failed \in SUBSET Batches
    /\ \A pc \in RunPc, proc \in SUBSET Procs, asked \in Nat, pending \in SUBSET Questions,
          round \in 0..2, failed \in SUBSET Batches :
             RunIs(pc, proc, asked, pending, round, failed) \in RunRecord
<1>1. \A r \in RunRecord : /\ r.pc \in RunPc /\ r.proc \in SUBSET Procs /\ r.asked \in Nat
                            /\ r.pending \in SUBSET Questions /\ r.round \in 0..2
                            /\ r.failed \in SUBSET Batches
  BY DEF RunRecord, RunPc
<1>2. ASSUME NEW pc \in RunPc, NEW proc \in SUBSET Procs, NEW asked \in Nat,
             NEW pending \in SUBSET Questions, NEW round \in 0..2, NEW failed \in SUBSET Batches
      PROVE  RunIs(pc, proc, asked, pending, round, failed) \in RunRecord
  BY <1>2 DEF RunRecord, RunPc, RunIs
<1> QED
  BY <1>1, <1>2, Zenon

(* One field of a worker written.                                          *)
WithPc(r, v)      == [r EXCEPT !.pc = v]
WithProc(r, v)    == [r EXCEPT !.proc = v]
WithAsked(r, v)   == [r EXCEPT !.asked = v]
WithPending(r, v) == [r EXCEPT !.pending = v]
WithRound(r, v)   == [r EXCEPT !.round = v]
WithFailed(r, v)  == [r EXCEPT !.failed = v]

LEMMA RunUpdate ==
    ASSUME NEW pc, NEW proc, NEW asked, NEW pending, NEW round, NEW failed, NEW v
    PROVE  /\ WithPc(RunIs(pc, proc, asked, pending, round, failed), v)
                 = RunIs(v, proc, asked, pending, round, failed)
           /\ WithProc(RunIs(pc, proc, asked, pending, round, failed), v)
                 = RunIs(pc, v, asked, pending, round, failed)
           /\ WithAsked(RunIs(pc, proc, asked, pending, round, failed), v)
                 = RunIs(pc, proc, v, pending, round, failed)
           /\ WithPending(RunIs(pc, proc, asked, pending, round, failed), v)
                 = RunIs(pc, proc, asked, v, round, failed)
           /\ WithRound(RunIs(pc, proc, asked, pending, round, failed), v)
                 = RunIs(pc, proc, asked, pending, v, failed)
           /\ WithFailed(RunIs(pc, proc, asked, pending, round, failed), v)
                 = RunIs(pc, proc, asked, pending, round, v)
BY DEF RunIs, WithPc, WithProc, WithAsked, WithPending, WithRound, WithFailed

(* The updates of the worker.                                              *)
LEMMA RunUpdates ==
    ASSUME TypeOK
    PROVE  /\ \A pc : Jumped(pc) = RunIs(pc, run.proc, run.asked, run.pending, run.round, run.failed)
           /\ \A e : HasRead(e) = RunIs("read_answered", run.proc, e, run.pending, run.round,
                                       run.failed)
           /\ \A s : FirstRound(s) = RunIs("round", run.proc, run.asked, s, 1, run.failed)
           /\ SecondRound = RunIs(run.pc, run.proc, run.asked, run.pending, 2, run.failed)
           /\ \A f : Counting(f) = RunIs("count", run.proc, run.asked, run.pending, run.round, f)
<1>1. run = RunIs(run.pc, run.proc, run.asked, run.pending, run.round, run.failed)
  BY TypeParts DEF RunRecord, RunIs
<1>2. /\ \A pc : Jumped(pc) = WithPc(run, pc)
      /\ \A e : HasRead(e) = WithAsked(WithPc(run, "read_answered"), e)
      /\ \A s : FirstRound(s) = WithPending(WithRound(WithPc(run, "round"), 1), s)
      /\ SecondRound = WithRound(run, 2)
      /\ \A f : Counting(f) = WithFailed(WithPc(run, "count"), f)
  BY DEF Jumped, HasRead, FirstRound, SecondRound, Counting, WithPc, WithAsked, WithPending,
         WithRound, WithFailed
<1> QED
  BY <1>1, <1>2, RunUpdate

(* A worker that is idle, has just claimed the job, or has just ended.     *)
LEMMA IdleUpdates ==
    /\ Idle = RunIs("idle", {}, 0, {}, 0, {})
    /\ \A p : Started(p) = RunIs("start", {p}, 0, {}, 0, {})
    /\ Ended = RunIs("idle", {}, run.asked, {}, 0, run.failed)
<1>1. Idle = RunIs("idle", {}, 0, {}, 0, {})
  BY DEF Idle, RunIs
<1>2. /\ \A p : Started(p) = WithProc(WithPc(Idle, "start"), {p})
      /\ Ended = WithFailed(WithAsked(Idle, run.asked), run.failed)
  BY DEF Started, Ended, WithPc, WithProc, WithAsked, WithFailed
<1> QED
  BY <1>1, <1>2, RunUpdate

(* The fields of a job, and its updates.                                   *)
LEMMA JobFields ==
    /\ \A j \in JobRecord : /\ j.status \in {"none", "pending", "claimed", "done", "dead"}
                            /\ j.attempts \in Nat /\ j.made \in Nat
    /\ \A status \in {"none", "pending", "claimed", "done", "dead"}, attempts, made \in Nat :
          JobIs(status, attempts, made) \in JobRecord
BY DEF JobRecord, JobIs

LEMMA JobUpdates ==
    ASSUME TypeOK
    PROVE  /\ \A status : JobSet(status) = JobIs(status, job.attempts, job.made)
           /\ JobClaimed = JobIs("claimed", job.attempts + 1, job.made)
<1>1. ASSUME NEW status PROVE JobSet(status) = JobIs(status, job.attempts, job.made)
  BY TypeParts DEF JobSet, JobRecord, JobIs
<1>2. JobClaimed = JobIs("claimed", job.attempts + 1, job.made)
  <2> DEFINE m == JobSet("claimed")
  <2>1. JobClaimed = [m EXCEPT !.attempts = job.attempts + 1]
    BY DEF JobClaimed, JobSet
  <2> HIDE DEF m
  <2>2. m = JobIs("claimed", job.attempts, job.made)
    BY <1>1 DEF m
  <2> QED
    BY <2>1, <2>2 DEF JobIs
<1> QED
  BY <1>1, <1>2

(* The updates keep the types.                                             *)
LEMMA UpdatesTyped ==
    ASSUME TypeOK
    PROVE  /\ \A pc \in RunPc : Jumped(pc) \in RunRecord
           /\ \A e \in Nat : HasRead(e) \in RunRecord
           /\ \A s \in SUBSET Questions : FirstRound(s) \in RunRecord
           /\ SecondRound \in RunRecord
           /\ \A f \in SUBSET Batches : Counting(f) \in RunRecord
           /\ \A p \in Procs : Started(p) \in RunRecord
           /\ Idle \in RunRecord /\ Ended \in RunRecord
           /\ \A status \in {"none", "pending", "claimed", "done", "dead"} :
                 JobSet(status) \in JobRecord
           /\ JobClaimed \in JobRecord
<1>1. /\ run.pc \in RunPc /\ run.proc \in SUBSET Procs /\ run.asked \in Nat
      /\ run.pending \in SUBSET Questions /\ run.round \in 0..2
      /\ run.failed \in SUBSET Batches
  BY TypeParts, RunFields
<1>2. /\ {"idle", "start", "read_answered", "round", "count"} \subseteq RunPc
      /\ 0 \in 0..2 /\ 1 \in 0..2 /\ 2 \in 0..2 /\ 0 \in Nat
  BY DEF RunPc
<1>3. ASSUME NEW pc \in RunPc PROVE Jumped(pc) \in RunRecord
  <2>1. Jumped(pc) = RunIs(pc, run.proc, run.asked, run.pending, run.round, run.failed)
    BY RunUpdates
  <2> QED
    BY <1>1, <2>1, RunFields
<1>4. ASSUME NEW e \in Nat PROVE HasRead(e) \in RunRecord
  <2>1. HasRead(e) = RunIs("read_answered", run.proc, e, run.pending, run.round, run.failed)
    BY RunUpdates
  <2>2. "read_answered" \in RunPc
    BY <1>2
  <2> QED
    BY <1>1, <2>1, <2>2, RunFields
<1>5. ASSUME NEW s \in SUBSET Questions PROVE FirstRound(s) \in RunRecord
  <2>1. FirstRound(s) = RunIs("round", run.proc, run.asked, s, 1, run.failed)
    BY RunUpdates
  <2>2. "round" \in RunPc /\ 1 \in 0..2
    BY <1>2
  <2> QED
    BY <1>1, <2>1, <2>2, RunFields
<1>6. SecondRound \in RunRecord
  <2>1. SecondRound = RunIs(run.pc, run.proc, run.asked, run.pending, 2, run.failed)
    BY RunUpdates
  <2>2. 2 \in 0..2
    OBVIOUS
  <2> QED
    BY <1>1, <2>1, <2>2, RunFields
<1>7. ASSUME NEW f \in SUBSET Batches PROVE Counting(f) \in RunRecord
  <2>1. Counting(f) = RunIs("count", run.proc, run.asked, run.pending, run.round, f)
    BY RunUpdates
  <2>2. "count" \in RunPc
    BY <1>2
  <2> QED
    BY <1>1, <2>1, <2>2, RunFields
<1>8. \A p \in Procs : Started(p) \in RunRecord
  BY <1>2, IdleUpdates, RunFields
<1>9. Idle \in RunRecord /\ Ended \in RunRecord
  BY <1>1, <1>2, IdleUpdates, RunFields
<1>10. /\ \A status \in {"none", "pending", "claimed", "done", "dead"} :
             JobSet(status) \in JobRecord
       /\ JobClaimed \in JobRecord
  <2>1. job.attempts \in Nat /\ job.attempts + 1 \in Nat /\ job.made \in Nat
    BY TypeParts, JobFields
  <2> QED
    BY <2>1, JobUpdates, JobFields
<1> QED
  BY <1>3, <1>4, <1>5, <1>6, <1>7, <1>8, <1>9, <1>10

(* What each step makes of the worker and of the job.                      *)
LEMMA RunEffects ==
    /\ ReadQuestions => run' = HasRead(epoch)
    /\ ReadAnswered => run' = Jumped("mark_done") \/ \E s \in SUBSET Questions : run' = FirstRound(s)
    /\ RoundEnds => run' = SecondRound \/ \E f \in SUBSET Batches : run' = Counting(f)
    /\ Count => run' = Jumped("succeeding") \/ run' = Jumped("failing")
    /\ MarkDone => run' = Ended /\ job' = JobSet("done")
    /\ MarkFailed => run' = Idle /\ (job' = JobSet("dead") \/ job' = JobSet("pending"))
    /\ \A p \in Procs : Claim(p) => run' = Started(p) /\ job' = JobClaimed
    /\ Recover => job' = JobSet("pending")
BY DEF ReadQuestions, ReadAnswered, RoundEnds, Count, MarkDone, MarkFailed, Claim, Recover,
       HasRead, Jumped, FirstRound, SecondRound, Counting, Ended, Started, JobSet, JobClaimed

(* The steps of the structuring agent and of the queue.                    *)
LEMMA TypeQueue ==
    ASSUME TypeOK, QueueStep \/ StructureRecovered
    PROVE  TypeOK'
<1>1. CASE \E p \in Procs : Structure(p)
  BY <1>1, TypeParts, TypePartsNext DEF Structure, limits
<1>2. CASE \E p \in Procs : Claim(p)
  <2>1. run' \in RunRecord /\ job' \in JobRecord
    BY <1>2, RunEffects, UpdatesTyped
  <2> QED
    BY <1>2, <2>1, TypeParts, TypePartsNext DEF Claim, limits
<1>3. CASE StructureEnqueues
  <2>1. job' \in JobRecord
    BY <1>3, TypeParts DEF StructureEnqueues, JobRecord
  <2> QED
    BY <1>3, <2>1, TypeParts, TypePartsNext DEF StructureEnqueues, limits
<1>4. CASE Recover
  <2>1. job' \in JobRecord
    BY <1>4, TypeParts DEF Recover, JobRecord
  <2> QED
    BY <1>4, <2>1, TypeParts, TypePartsNext DEF Recover, limits
<1>5. CASE StructureRecovered
  BY <1>5, TypeParts, TypePartsNext DEF StructureRecovered
<1> QED
  BY <1>1, <1>2, <1>3, <1>4, <1>5 DEF QueueStep

(* The steps of the worker.                                                *)
LEMMA TypeRun ==
    ASSUME TypeOK, RunStep
    PROVE  TypeOK'
<1>1. CASE ReadQuestions
  <2>1. run' \in RunRecord
    BY <1>1, TypeParts DEF ReadQuestions, RunRecord
  <2> QED
    BY <1>1, <2>1, TypeParts, TypePartsNext DEF ReadQuestions, limits
<1>2. CASE ReadAnswered
  <2>0. batchOf' \in [Questions -> Batches]
    BY <1>2, TypeParts DEF ReadAnswered, Cuts
  <2>1. batch' \in [Batches -> BatchRecord]
    BY <1>2, BatchRecords, TypeParts DEF ReadAnswered, Retrieving
  <2>2. run' \in RunRecord
    BY <1>2, RunEffects, UpdatesTyped DEF RunPc
  <2> QED
    BY <1>2, <2>0, <2>1, <2>2, TypeParts, TypePartsNext DEF ReadAnswered, limits
<1>3. CASE RoundEnds
  <2>1. batch' \in [Batches -> BatchRecord]
    BY <1>3, BatchRecords, TypeParts DEF RoundEnds
  <2>2. run' \in RunRecord
    BY <1>3, RunEffects, UpdatesTyped
  <2> QED
    BY <1>3, <2>1, <2>2, TypeParts, TypePartsNext DEF RoundEnds, limits
<1>4. CASE Count
  <2>1. run' \in RunRecord
    BY <1>4, RunEffects, UpdatesTyped DEF RunPc
  <2> QED
    BY <1>4, <2>1, TypeParts, TypePartsNext DEF Count, limits
<1>5. CASE MarkDone
  <2>1. run' \in RunRecord /\ job' \in JobRecord
    BY <1>5, RunEffects, UpdatesTyped
  <2> QED
    BY <1>5, <2>1, TypeParts, TypePartsNext DEF MarkDone, limits
<1>6. CASE MarkFailed
  <2>1. run' \in RunRecord /\ job' \in JobRecord
    BY <1>6, RunEffects, UpdatesTyped
  <2> QED
    BY <1>6, <2>1, TypeParts, TypePartsNext DEF MarkFailed, limits
<1> QED
  BY <1>1, <1>2, <1>3, <1>4, <1>5, <1>6 DEF RunStep

(* The steps of a batch and of its fallbacks.                              *)
LEMMA TypeBatch ==
    ASSUME TypeOK, RunInv, BatchInv, (\E b \in Batches : BatchStep(b)) \/ FallbackStep
    PROVE  TypeOK'
<1>0. /\ \A b \in Batches : InBatch(b) \subseteq Questions
      /\ \A b \in Batches : batch[b].todo \subseteq Questions /\ batch[b].ask \subseteq Questions
  BY TypeParts DEF InBatch, RunRecord, BatchRecord
<1>1. ASSUME NEW b \in Batches, Retrieve(b) PROVE TypeOK'
  <2>1. batch' \in [Batches -> BatchRecord]
    <3>1. \A gaps \in SUBSET InBatch(b) : Staged(gaps, InBatch(b) \ gaps) \in BatchRecord
      BY <1>0, BatchRecords
    <3> QED
      BY <1>1, <3>1, BatchRecords, TypeParts DEF Retrieve, SetBatch
  <2> QED
    BY <1>1, <2>1, TypeParts, TypePartsNext DEF Retrieve, limits
<1>2. ASSUME NEW b \in Batches, Store(b) PROVE TypeOK'
  <2>1. batch' \in [Batches -> BatchRecord]
    <3>1. \A q : Staged(batch[b].todo \ {q}, batch[b].ask) \in BatchRecord
      BY <1>0, BatchRecords
    <3> QED
      BY <1>2, <3>1, BatchRecords, TypeParts DEF Store, SetBatch
  <2>2. resp' \in [Questions -> {"none", "ai", "edited"}]
    BY <1>0, <1>2, TypeParts DEF Store, Upsert
  <2> QED
    BY <1>2, <2>1, <2>2, TypeParts, TypePartsNext DEF Store, limits
<1>7. ASSUME NEW b \in Batches, StoreRefused(b) PROVE TypeOK'
  <2>1. batch' \in [Batches -> BatchRecord]
    BY <1>7, BatchRecords, TypeParts DEF StoreRefused, SetBatch
  <2>2. resp' \in [Questions -> {"none", "ai", "edited"}] /\ tasks' \subseteq Task
    BY <1>7, TypeParts DEF StoreRefused, Upsert
  <2> QED
    BY <1>7, <2>1, <2>2, TypeParts, TypePartsNext DEF StoreRefused, limits
<1>3. ASSUME NEW b \in Batches, Ask(b) PROVE TypeOK'
  <2>1. batch' \in [Batches -> BatchRecord]
    <3>1. \A s : /\ Staged(batch[b].ask \ s, {}) \in BatchRecord
                 /\ [pc |-> "gather", todo |-> batch[b].ask \ s, ask |-> {}] \in BatchRecord
      BY <1>0, BatchRecords
    <3>2. ASSUME NEW x \in BatchRecord, SetBatch(b, x) PROVE batch' \in [Batches -> BatchRecord]
      BY <3>2, TypeParts DEF SetBatch
    <3>3. PICK s \in SUBSET batch[b].ask :
             \/ SetBatch(b, Staged(batch[b].ask \ s, {}))
             \/ SetBatch(b, [pc |-> "gather", todo |-> batch[b].ask \ s, ask |-> {}])
      BY <1>3, Zenon DEF Ask
    <3> QED
      BY <3>1, <3>2, <3>3
  <2>2. \A q \in batch[b].ask : Fallback(q) \in Task
    <3>1. run.pc = "round"
      BY <1>3 DEF Ask, BatchInv, NoBatch
    <3>2. run.round \in {1, 2}
      BY <3>1, TypeParts, RunFields DEF RunInv
    <3>3. /\ run.asked \in Nat /\ job.made \in Nat /\ job.attempts \in Nat
          /\ run.proc \in SUBSET Procs
      BY TypeParts, RunFields, JobFields
    <3> QED
      BY <1>0, <3>2, <3>3 DEF Fallback, Task
  <2>3. tasks' \subseteq Task
    BY <1>3, <2>2, TypeParts DEF Ask
  <2> QED
    BY <1>3, <2>1, <2>3, TypeParts, TypePartsNext DEF Ask, limits
<1>4. ASSUME NEW b \in Batches, GatherReturns(b) PROVE TypeOK'
  <2>1. batch' \in [Batches -> BatchRecord]
    <3>1. Staged(batch[b].todo, {}) \in BatchRecord
      BY <1>0, BatchRecords
    <3> QED
      BY <1>4, <3>1, TypeParts DEF GatherReturns, SetBatch
  <2> QED
    BY <1>4, <2>1, TypeParts, TypePartsNext DEF GatherReturns, limits
<1>5. ASSUME NEW t \in tasks, FallbackStores(t) PROVE TypeOK'
  <2>1. resp' \in [Questions -> {"none", "ai", "edited"}]
    BY <1>5, TypeParts DEF FallbackStores, Upsert
  <2> QED
    BY <1>5, <2>1, TypeParts, TypePartsNext DEF FallbackStores, limits
<1>6. ASSUME NEW t \in tasks, FallbackRaises(t) PROVE TypeOK'
  <2>1. batch' \in [Batches -> BatchRecord]
    BY <1>6, BatchRecords, TypeParts DEF FallbackRaises, SetBatch
  <2> QED
    BY <1>6, <2>1, TypeParts, TypePartsNext DEF FallbackRaises, limits
<1> QED
  BY <1>1, <1>2, <1>3, <1>4, <1>5, <1>6, <1>7 DEF BatchStep, FallbackStep

(* The user and the crashes.                                               *)
LEMMA TypeEnvironment ==
    ASSUME TypeOK, (\E q \in Questions : EditResponse(q)) \/ \E p \in Procs : Crash(p)
    PROVE  TypeOK'
<1>1. CASE \E q \in Questions : EditResponse(q)
  BY <1>1, TypeParts, TypePartsNext DEF EditResponse
<1>2. ASSUME NEW p \in Procs, Crash(p) PROVE TypeOK'
  <2>1. batch' \in [Batches -> BatchRecord]
    BY <1>2, BatchRecords, TypeParts DEF Crash
  <2>2. run' \in RunRecord
    BY <1>2, TypeParts DEF Crash, Idle, RunRecord
  <2>3. tasks' \subseteq Task /\ structuring' \in Procs \cup {"queued", "done"}
    BY <1>2, TypeParts DEF Crash
  <2> QED
    BY <1>2, <2>1, <2>2, <2>3, TypeParts, TypePartsNext DEF Crash
<1> QED
  BY <1>1, <1>2

(* Every step keeps the types.                                             *)
LEMMA TypeStep == TypeOK /\ RunInv /\ BatchInv /\ [Next]_vars => TypeOK'
<1>1. TypeOK /\ RunInv /\ BatchInv /\ Next => TypeOK'
  BY TypeQueue, TypeRun, TypeBatch, TypeEnvironment DEF Next
<1>2. TypeOK /\ UNCHANGED vars => TypeOK'
  BY TypeParts, TypePartsNext DEF vars, limits
<1> QED
  BY <1>1, <1>2

-----------------------------------------------------------------------------
(* What the steps do, without the updates of a field. *)

BatchIs(pc, todo, ask) == [pc |-> pc, todo |-> todo, ask |-> ask]

(* The records a batch takes up.                                           *)
LEMMA BatchValues ==
    /\ NoBatch = BatchIs("none", {}, {}) /\ Failed = BatchIs("failed", {}, {})
    /\ [NoBatch EXCEPT !.pc = "retrieve"] = BatchIs("retrieve", {}, {})
    /\ \A todo, ask :
          Staged(todo, ask) = BatchIs(IF todo # {} THEN "store" ELSE IF ask # {} THEN "ask" ELSE "ok",
                                      todo, ask)
BY DEF NoBatch, Failed, Staged, BatchIs

(* What a staged batch has in hand.                                        *)
LEMMA StagedInHand ==
    \A todo, ask : Staged(todo, ask).todo = todo /\ Staged(todo, ask).ask = ask
BY DEF Staged

(* Writing one batch leaves the others.                                    *)
LEMMA OneBatch ==
    ASSUME TypeOK, NEW b \in Batches, NEW x, SetBatch(b, x)
    PROVE  batch'[b] = x /\ \A c \in Batches \ {b} : batch'[c] = batch[c]
BY TypeParts DEF SetBatch

(* Writing one response leaves the others.                                 *)
LEMMA OneResponse ==
    ASSUME TypeOK, NEW q \in Questions, Upsert(q)
    PROVE  resp'[q] = "ai" /\ \A r \in Questions \ {q} : resp'[r] = resp[r]
BY TypeParts DEF Upsert

LEMMA AfterClaim ==
    ASSUME TypeOK, NEW p \in Procs, Claim(p)
    PROVE  /\ job.status = "pending" /\ job' = JobIs("claimed", job.attempts + 1, job.made)
           /\ run' = RunIs("start", {p}, 0, {}, 0, {})
           /\ UNCHANGED <<batchOf, structuring, epoch, resp, batch, tasks, reruns, edits, crashes>>
<1>1. run' = Started(p) /\ job' = JobClaimed
  BY RunEffects
<1>2. job.status = "pending" /\ UNCHANGED <<batchOf, structuring, epoch, resp, batch, tasks, reruns, edits, crashes>>
  BY DEF Claim, limits
<1> QED
  BY <1>1, <1>2, IdleUpdates, JobUpdates

LEMMA AfterRecover ==
    ASSUME TypeOK, Recover
    PROVE  /\ job.status = "claimed" /\ ~Working
           /\ job' = JobIs("pending", job.attempts, job.made)
           /\ UNCHANGED <<batchOf, structuring, epoch, resp, run, batch, tasks, reruns, edits, crashes>>
<1>1. job' = JobSet("pending")
  BY RunEffects
<1> QED
  BY <1>1, JobUpdates DEF Recover, Working, limits

LEMMA AfterReadQuestions ==
    ASSUME TypeOK, ReadQuestions
    PROVE  /\ run.pc = "start"
           /\ run' = RunIs("read_answered", run.proc, epoch, run.pending, run.round, run.failed)
           /\ UNCHANGED <<batchOf, structuring, epoch, resp, job, batch, tasks, reruns, edits, crashes>>
<1>1. run' = HasRead(epoch)
  BY RunEffects
<1> QED
  BY <1>1, RunUpdates DEF ReadQuestions, limits

LEMMA AfterReadAnswered ==
    ASSUME TypeOK, ReadAnswered
    PROVE  /\ run.pc = "read_answered"
           /\ \/ /\ \A q \in Questions : Current /\ resp[q] # "none"
                 /\ run' = RunIs("mark_done", run.proc, run.asked, run.pending, run.round, run.failed)
                 /\ batch' = batch /\ batchOf' = batchOf
              \/ \E s \in SUBSET Questions :
                    /\ s = {q \in Questions : Current => resp[q] = "none"}
                    /\ run' = RunIs("round", run.proc, run.asked, s, 1, run.failed)
                    /\ batchOf' \in [Questions -> Batches] /\ batch' = Retrieving(batchOf', s)
           /\ UNCHANGED <<structuring, epoch, resp, job, tasks, reruns, edits, crashes>>
<1> DEFINE pending == {q \in Questions : Current => resp[q] = "none"}
<1>1. \/ pending = {} /\ run' = Jumped("mark_done") /\ batch' = batch /\ batchOf' = batchOf
      \/ /\ run' = FirstRound(pending)
         /\ \E cut \in Cuts(pending) : batchOf' = cut /\ batch' = Retrieving(cut, pending)
  BY DEF ReadAnswered, Jumped, FirstRound
<1>2. run.pc = "read_answered" /\ UNCHANGED <<structuring, epoch, resp, job, tasks, reruns, edits, crashes>>
  BY DEF ReadAnswered, limits
<1>3. CASE pending = {} /\ run' = Jumped("mark_done") /\ batch' = batch /\ batchOf' = batchOf
  <2>1. \A q \in Questions : Current /\ resp[q] # "none"
    BY <1>3
  <2>2. run' = RunIs("mark_done", run.proc, run.asked, run.pending, run.round, run.failed)
    BY <1>3, RunUpdates
  <2> QED
    BY <1>2, <1>3, <2>1, <2>2
<1>4. CASE /\ run' = FirstRound(pending)
           /\ \E cut \in Cuts(pending) : batchOf' = cut /\ batch' = Retrieving(cut, pending)
  <2>0. Cuts(pending) \subseteq [Questions -> Batches]
    BY DEF Cuts
  <2> HIDE DEF pending
  <2>1. run' = RunIs("round", run.proc, run.asked, pending, 1, run.failed)
    BY <1>4, RunUpdates
  <2>2. pending \in SUBSET Questions /\ pending = {q \in Questions : Current => resp[q] = "none"}
    BY DEF pending
  <2>3. batchOf' \in [Questions -> Batches] /\ batch' = Retrieving(batchOf', pending)
    BY <1>4, <2>0
  <2> QED
    BY <1>2, <2>1, <2>2, <2>3
<1> QED
  BY <1>1, <1>3, <1>4

LEMMA AfterRoundEnds ==
    ASSUME TypeOK, RoundEnds
    PROVE  /\ run.pc = "round" /\ \A b \in Batches : batch[b].pc \in {"none", "ok", "failed"}
           /\ \E f \in SUBSET Batches :
                 /\ f = {b \in Batches : batch[b].pc = "failed"}
                 /\ \/ /\ run.round = 1
                       /\ run' = RunIs("round", run.proc, run.asked, run.pending, 2, run.failed)
                       /\ \A b \in Batches : batch'[b] = IF b \in f THEN BatchIs("retrieve", {}, {})
                                                         ELSE NoBatch
                    \/ /\ run' = RunIs("count", run.proc, run.asked, run.pending, run.round, f)
                       /\ \A b \in Batches : batch'[b] = NoBatch
           /\ UNCHANGED <<batchOf, structuring, epoch, resp, job, tasks, reruns, edits, crashes>>
<1> DEFINE f == {b \in Batches : batch[b].pc = "failed"}
<1>1. \/ /\ run.round = 1 /\ run' = SecondRound
         /\ batch' = [b \in Batches |-> IF b \in f THEN [NoBatch EXCEPT !.pc = "retrieve"] ELSE NoBatch]
      \/ run' = Counting(f) /\ batch' = [b \in Batches |-> NoBatch]
  BY DEF RoundEnds, SecondRound, Counting
<1>2. /\ run.pc = "round" /\ \A b \in Batches : batch[b].pc \in {"none", "ok", "failed"}
      /\ UNCHANGED <<batchOf, structuring, epoch, resp, job, tasks, reruns, edits, crashes>>
  BY DEF RoundEnds, limits
<1>3. f \in SUBSET Batches /\ f = {b \in Batches : batch[b].pc = "failed"}
  OBVIOUS
<1> HIDE DEF f
<1>4. CASE /\ run.round = 1 /\ run' = SecondRound
           /\ batch' = [b \in Batches |-> IF b \in f THEN [NoBatch EXCEPT !.pc = "retrieve"] ELSE NoBatch]
  <2>1. run' = RunIs("round", run.proc, run.asked, run.pending, 2, run.failed)
    BY <1>2, <1>4, RunUpdates
  <2>2. \A b \in Batches : batch'[b] = IF b \in f THEN BatchIs("retrieve", {}, {}) ELSE NoBatch
    BY <1>4, BatchValues
  <2> QED
    BY <1>2, <1>3, <1>4, <2>1, <2>2
<1>5. CASE run' = Counting(f) /\ batch' = [b \in Batches |-> NoBatch]
  <2>1. run' = RunIs("count", run.proc, run.asked, run.pending, run.round, f)
    BY <1>5, RunUpdates
  <2>2. \A b \in Batches : batch'[b] = NoBatch
    BY <1>5
  <2> QED
    BY <1>2, <1>3, <2>1, <2>2
<1> QED
  BY <1>1, <1>4, <1>5

LEMMA AfterCount ==
    ASSUME TypeOK, Count
    PROVE  /\ run.pc = "count"
           /\ \/ /\ SomeAnswer
                 /\ run' = RunIs("succeeding", run.proc, run.asked, run.pending, run.round, run.failed)
              \/ run' = RunIs("failing", run.proc, run.asked, run.pending, run.round, run.failed)
           /\ UNCHANGED <<batchOf, structuring, epoch, resp, job, batch, tasks, reruns, edits, crashes>>
<1>1. (SomeAnswer /\ run' = Jumped("succeeding")) \/ run' = Jumped("failing")
  BY TypeParts, RunFields DEF Count, Jumped, SomeAnswer
<1> QED
  BY <1>1, RunUpdates DEF Count, limits

LEMMA AfterMarkDone ==
    ASSUME TypeOK, MarkDone
    PROVE  /\ run.pc \in {"mark_done", "succeeding"}
           /\ job' = JobIs("done", job.attempts, job.made)
           /\ run' = RunIs("idle", {}, run.asked, {}, 0, run.failed)
           /\ UNCHANGED <<batchOf, structuring, epoch, resp, batch, tasks, reruns, edits, crashes>>
<1>1. run' = Ended /\ job' = JobSet("done")
  BY RunEffects
<1> QED
  BY <1>1, IdleUpdates, JobUpdates DEF MarkDone, limits

LEMMA AfterMarkFailed ==
    ASSUME TypeOK, MarkFailed
    PROVE  /\ run.pc = "failing"
           /\ \E status \in {"dead", "pending"} : job' = JobIs(status, job.attempts, job.made)
           /\ run' = RunIs("idle", {}, 0, {}, 0, {})
           /\ UNCHANGED <<batchOf, structuring, epoch, resp, batch, tasks, reruns, edits, crashes>>
<1>1. run' = Idle /\ (job' = JobSet("dead") \/ job' = JobSet("pending"))
  BY RunEffects
<1> QED
  BY <1>1, IdleUpdates, JobUpdates DEF MarkFailed, limits

LEMMA AfterRetrieve ==
    ASSUME TypeOK, NEW b \in Batches, Retrieve(b)
    PROVE  /\ batch[b].pc = "retrieve"
           /\ \/ batch'[b] = Failed
              \/ \E gaps \in SUBSET InBatch(b) : batch'[b] = Staged(gaps, InBatch(b) \ gaps)
           /\ \A c \in Batches \ {b} : batch'[c] = batch[c]
           /\ UNCHANGED <<batchOf, structuring, epoch, resp, job, run, tasks, reruns, edits, crashes>>
<1>1. PICK x : SetBatch(b, x) /\ (x = Failed \/ \E gaps \in SUBSET InBatch(b) :
                                                    x = Staged(gaps, InBatch(b) \ gaps))
  BY Zenon DEF Retrieve
<1>2. batch'[b] = x /\ \A c \in Batches \ {b} : batch'[c] = batch[c]
  BY <1>1, OneBatch
<1>3. batch[b].pc = "retrieve" /\ UNCHANGED <<batchOf, structuring, epoch, resp, job, run, tasks, reruns, edits, crashes>>
  BY DEF Retrieve, limits
<1> QED
  BY <1>1, <1>2, <1>3, Zenon

LEMMA AfterStore ==
    ASSUME TypeOK, NEW b \in Batches, Store(b)
    PROVE  /\ batch[b].pc = "store"
           /\ \E q \in Questions \cap batch[b].todo :
                 \/ /\ resp'[q] = "ai" /\ \A r \in Questions \ {q} : resp'[r] = resp[r]
                    /\ batch'[b] = Staged(batch[b].todo \ {q}, batch[b].ask)
                 \/ /\ ~Current /\ resp' = resp
                    /\ batch'[b] = Failed
           /\ \A c \in Batches \ {b} : batch'[c] = batch[c]
           /\ UNCHANGED <<batchOf, structuring, epoch, job, run, tasks, reruns, edits, crashes>>
<1>1. PICK q \in batch[b].todo :
         \/ Upsert(q) /\ SetBatch(b, Staged(batch[b].todo \ {q}, batch[b].ask))
         \/ ~Current /\ SetBatch(b, Failed) /\ resp' = resp
  BY Zenon DEF Store
<1>2. q \in Questions
  BY TypeParts DEF BatchRecord
<1>3. batch[b].pc = "store" /\ UNCHANGED <<batchOf, structuring, epoch, job, run, tasks, reruns, edits, crashes>>
  BY DEF Store, limits
<1>4. CASE Upsert(q) /\ SetBatch(b, Staged(batch[b].todo \ {q}, batch[b].ask))
  <2>1. resp'[q] = "ai" /\ \A r \in Questions \ {q} : resp'[r] = resp[r]
    BY <1>2, <1>4, OneResponse
  <2>2. /\ batch'[b] = Staged(batch[b].todo \ {q}, batch[b].ask)
        /\ \A c \in Batches \ {b} : batch'[c] = batch[c]
    BY <1>4, OneBatch
  <2> QED
    BY <1>2, <1>3, <2>1, <2>2
<1>5. CASE ~Current /\ SetBatch(b, Failed) /\ resp' = resp
  <2>1. batch'[b] = Failed /\ \A c \in Batches \ {b} : batch'[c] = batch[c]
    BY <1>5, OneBatch
  <2> QED
    BY <1>2, <1>3, <1>5, <2>1
<1> QED
  BY <1>1, <1>4, <1>5

LEMMA AfterStoreRefused ==
    ASSUME TypeOK, NEW b \in Batches, StoreRefused(b)
    PROVE  /\ batch[b].pc = "store" /\ batch'[b] = Failed
           /\ \A c \in Batches \ {b} : batch'[c] = batch[c]
           /\ \E t \in tasks :
                 /\ t.q \in Questions \cap batch[b].todo /\ resp[t.q] = "none"
                 /\ resp'[t.q] = "ai" /\ \A r \in Questions \ {t.q} : resp'[r] = resp[r]
                 /\ tasks' = tasks \ {t}
           /\ UNCHANGED <<batchOf, structuring, epoch, job, run, reruns, edits, crashes>>
<1>1. PICK t \in tasks : /\ t.q \in batch[b].todo /\ resp[t.q] = "none"
                         /\ Upsert(t.q) /\ tasks' = tasks \ {t}
  BY Zenon DEF StoreRefused
<1>2. t.q \in Questions
  BY TypeParts DEF Task
<1>3. resp'[t.q] = "ai" /\ \A r \in Questions \ {t.q} : resp'[r] = resp[r]
  BY <1>1, <1>2, OneResponse
<1>4. batch'[b] = Failed /\ \A c \in Batches \ {b} : batch'[c] = batch[c]
  BY OneBatch DEF StoreRefused
<1>5. /\ batch[b].pc = "store"
      /\ UNCHANGED <<batchOf, structuring, epoch, job, run, reruns, edits, crashes>>
  BY DEF StoreRefused, limits
<1> QED
  BY <1>1, <1>2, <1>3, <1>4, <1>5

LEMMA AfterAsk ==
    ASSUME TypeOK, NEW b \in Batches, Ask(b)
    PROVE  /\ batch[b].pc = "ask"
           /\ \E s \in SUBSET batch[b].ask :
                 /\ \/ s = {} /\ batch'[b] = Staged(batch[b].ask, {})
                    \/ batch'[b] = BatchIs("gather", batch[b].ask \ s, {})
                 /\ tasks' = tasks \cup {Fallback(q) : q \in s}
           /\ \A c \in Batches \ {b} : batch'[c] = batch[c]
           /\ UNCHANGED <<batchOf, structuring, epoch, resp, job, run, reruns, edits, crashes>>
<1>1. PICK s \in SUBSET batch[b].ask :
         /\ SetBatch(b, IF s = {} THEN Staged(batch[b].ask \ s, {})
                        ELSE [pc |-> "gather", todo |-> batch[b].ask \ s, ask |-> {}])
         /\ tasks' = tasks \cup {Fallback(q) : q \in s}
  BY Zenon DEF Ask
<1>2. PICK x : /\ SetBatch(b, x)
               /\ x = IF s = {} THEN Staged(batch[b].ask \ s, {})
                      ELSE BatchIs("gather", batch[b].ask \ s, {})
  BY <1>1, Zenon DEF BatchIs
<1>3. x = IF s = {} THEN Staged(batch[b].ask, {}) ELSE BatchIs("gather", batch[b].ask \ s, {})
  <2>1. s = {} => batch[b].ask \ s = batch[b].ask
    OBVIOUS
  <2> QED
    BY <1>2, <2>1
<1>4. batch'[b] = x /\ \A c \in Batches \ {b} : batch'[c] = batch[c]
  BY <1>2, OneBatch
<1>5. batch[b].pc = "ask" /\ UNCHANGED <<batchOf, structuring, epoch, resp, job, run, reruns, edits, crashes>>
  BY DEF Ask, limits
<1> QED
  BY <1>1, <1>3, <1>4, <1>5

LEMMA AfterGatherReturns ==
    ASSUME TypeOK, NEW b \in Batches, GatherReturns(b)
    PROVE  /\ batch[b].pc = "gather" /\ TasksOf(b) = {}
           /\ batch'[b] = Staged(batch[b].todo, {})
           /\ \A c \in Batches \ {b} : batch'[c] = batch[c]
           /\ UNCHANGED <<batchOf, structuring, epoch, resp, job, run, tasks, reruns, edits, crashes>>
<1>1. SetBatch(b, Staged(batch[b].todo, {}))
  BY DEF GatherReturns
<1> QED
  BY <1>1, OneBatch DEF GatherReturns, limits

LEMMA AfterFallbackStores ==
    ASSUME TypeOK, NEW t \in tasks, FallbackStores(t)
    PROVE  /\ t.q \in Questions
           /\ resp'[t.q] = "ai" /\ \A r \in Questions \ {t.q} : resp'[r] = resp[r]
           /\ tasks' = tasks \ {t}
           /\ UNCHANGED <<batchOf, structuring, epoch, job, run, batch, reruns, edits, crashes>>
<1>1. t.q \in Questions
  BY TypeParts DEF Task
<1>2. Upsert(t.q) /\ tasks' = tasks \ {t}
  BY DEF FallbackStores
<1> QED
  BY <1>1, <1>2, OneResponse DEF FallbackStores, limits

LEMMA AfterFallbackRaises ==
    ASSUME TypeOK, NEW t \in tasks, FallbackRaises(t)
    PROVE  /\ t.q \in Questions /\ batchOf[t.q] \in Batches
           /\ tasks' = tasks \ {t}
           /\ \/ batch'[batchOf[t.q]] = Failed
              \/ /\ batch'[batchOf[t.q]] = batch[batchOf[t.q]]
                 /\ batch[batchOf[t.q]].pc = "gather" => t \notin TasksOf(batchOf[t.q])
           /\ \A c \in Batches \ {batchOf[t.q]} : batch'[c] = batch[c]
           /\ UNCHANGED <<batchOf, structuring, epoch, resp, job, run, reruns, edits, crashes>>
<1>1. t.q \in Questions /\ batchOf[t.q] \in Batches
  BY TypeParts, GenerateAssumption DEF Task
<1>2. \/ SetBatch(batchOf[t.q], Failed)
      \/ batch' = batch /\ (batch[batchOf[t.q]].pc = "gather" => t \notin TasksOf(batchOf[t.q]))
  BY DEF FallbackRaises
<1>3. tasks' = tasks \ {t} /\ UNCHANGED <<batchOf, structuring, epoch, resp, job, run, reruns, edits, crashes>>
  BY DEF FallbackRaises, limits
<1> QED
  BY <1>1, <1>2, <1>3, OneBatch

LEMMA AfterEditResponse ==
    ASSUME TypeOK, NEW q \in Questions, EditResponse(q)
    PROVE  /\ resp[q] # "none" /\ resp'[q] = "edited"
           /\ \A r \in Questions \ {q} : resp'[r] = resp[r]
           /\ UNCHANGED <<batchOf, structuring, epoch, job, run, batch, tasks, reruns, crashes>>
BY TypeParts DEF EditResponse

LEMMA AfterCrash ==
    ASSUME TypeOK, NEW p \in Procs, Crash(p)
    PROVE  /\ crashes' = crashes + 1
           /\ structuring' = IF structuring = p THEN "queued" ELSE structuring
           /\ tasks' = {t \in tasks : t.proc # {p}}
           /\ \/ /\ run.proc = {p} /\ Working
                 /\ run' = RunIs("idle", {}, 0, {}, 0, {})
                 /\ \A b \in Batches : batch'[b] = NoBatch
              \/ /\ structuring = p /\ ~(run.proc = {p} /\ Working)
                 /\ run' = run /\ batch' = batch
           /\ UNCHANGED <<batchOf, epoch, resp, job, reruns, edits>>
<1>1. \/ /\ run.proc = {p} /\ Working
         /\ run' = Idle /\ batch' = [b \in Batches |-> NoBatch]
      \/ /\ structuring = p /\ ~(run.proc = {p} /\ Working)
         /\ run' = run /\ batch' = batch
  BY DEF Crash, Working
<1>2. /\ crashes' = crashes + 1
      /\ structuring' = IF structuring = p THEN "queued" ELSE structuring
      /\ tasks' = {t \in tasks : t.proc # {p}}
      /\ UNCHANGED <<batchOf, epoch, resp, job, reruns, edits>>
  BY DEF Crash
<1> QED
  BY <1>1, <1>2, IdleUpdates

-----------------------------------------------------------------------------
(* The worker, its batches and its fallbacks.                              *)

(* The steps that leave the worker and its job alone.                      *)
LEMMA NotTheWorker ==
    ASSUME TypeOK,
           \/ \E p \in Procs : Structure(p)
           \/ StructureRecovered \/ FallbackStep
           \/ \E b \in Batches : BatchStep(b)
           \/ \E q \in Questions : EditResponse(q)
    PROVE  UNCHANGED <<batchOf, run, job>>
<1>1. CASE (\E p \in Procs : Structure(p)) \/ StructureRecovered
  BY <1>1 DEF Structure, StructureRecovered
<1>2. CASE FallbackStep
  BY <1>2 DEF FallbackStep, FallbackStores, FallbackRaises
<1>3. CASE \E b \in Batches : BatchStep(b)
  BY <1>3 DEF BatchStep, Retrieve, Store, StoreRefused, Ask, GatherReturns
<1>4. CASE \E q \in Questions : EditResponse(q)
  BY <1>4 DEF EditResponse
<1> QED
  BY <1>1, <1>2, <1>3, <1>4

(* The epoch only grows.                                                   *)
LEMMA EpochGrows == TypeOK /\ Next => epoch' \in Nat /\ epoch <= epoch'
<1>1. TypeOK /\ Next => epoch' = epoch \/ epoch' = epoch + 1
  BY DEF Next, QueueStep, RunStep, FallbackStep, BatchStep, Structure, Claim, StructureEnqueues,
         Recover, ReadQuestions, ReadAnswered, RoundEnds, Count, MarkDone, MarkFailed,
         FallbackStores, FallbackRaises, Retrieve, Store, StoreRefused, Ask, GatherReturns,
         StructureRecovered, EditResponse, Crash
<1> QED
  BY <1>1, TypeParts

(* A working worker keeps its claim, an idle one has nothing.              *)
LEMMA RunInvNext ==
    ASSUME TypeOK, RunInv, Next
    PROVE  RunInv'
<1>0. /\ run.asked \in Nat /\ run.asked <= epoch /\ epoch' \in Nat /\ epoch <= epoch'
      /\ run.round \in 0..2
  BY EpochGrows, TypeParts, RunFields DEF RunInv
<1>1. CASE UNCHANGED <<run, job>>
  <2>1. run.asked <= epoch'
    BY <1>0, TypeParts
  <2> QED
    BY <1>1, <2>1 DEF RunInv, Working
<1>2. CASE StructureEnqueues
  BY <1>2 DEF StructureEnqueues, RunInv, Working
<1>3. CASE \E p \in Procs : Claim(p)
  BY <1>0, <1>3, AfterClaim DEF RunInv, Working, RunIs, JobIs
<1>4. CASE Recover
  BY <1>4, AfterRecover DEF RunInv, Working
<1>5. CASE ReadQuestions
  BY <1>0, <1>5, AfterReadQuestions DEF RunInv, Working, RunIs
<1>6. CASE ReadAnswered
  BY <1>6, AfterReadAnswered DEF RunInv, Working, RunIs
<1>7. CASE RoundEnds
  BY <1>7, AfterRoundEnds DEF RunInv, Working, RunIs
<1>8. CASE Count
  BY <1>8, AfterCount DEF RunInv, Working, RunIs
<1>9. CASE MarkDone
  BY <1>0, <1>9, AfterMarkDone DEF RunInv, Working, RunIs
<1>10. CASE MarkFailed
  BY <1>0, <1>10, AfterMarkFailed DEF RunInv, Working, RunIs
<1>11. CASE \E p \in Procs : Crash(p)
  BY <1>0, <1>11, AfterCrash DEF RunInv, Working, RunIs
<1> QED
  BY <1>1, <1>2, <1>3, <1>4, <1>5, <1>6, <1>7, <1>8, <1>9, <1>10, <1>11, NotTheWorker
  DEF Next, QueueStep, RunStep

(* A record with nothing in hand is well shaped.                           *)
LEMMA NothingShaped ==
    ASSUME NEW own
    PROVE  /\ Shaped(NoBatch, own) /\ Shaped(Failed, own)
           /\ Shaped(BatchIs("retrieve", {}, {}), own)
BY BatchValues DEF Shaped, BatchIs

(* One batch takes up a well-shaped record, and the rest stays.            *)
LEMMA ShapeOfOne ==
    ASSUME BatchInv, NEW b \in Batches, run.pc = "round", run' = run,
           batchOf' = batchOf, Shaped(batch'[b], InBatch(b)), \A c \in Batches \ {b} : batch'[c] = batch[c]
    PROVE  BatchInv'
<1>1. \A c \in Batches : InBatch(c)' = InBatch(c)
  BY DEF InBatch
<1>2. \A c \in Batches : Shaped(batch'[c], InBatch(c)')
  BY <1>1 DEF BatchInv
<1> QED
  BY <1>2 DEF BatchInv

(* The batches keep their shape.                                           *)
LEMMA BatchInvNext ==
    ASSUME TypeOK, RunInv, BatchInv, Next
    PROVE  BatchInv'
<1>0. \A b \in Batches : batch[b].pc # "none" => run.pc = "round"
  BY BatchValues DEF BatchInv, BatchIs
<1>1. CASE UNCHANGED <<batchOf, run, batch>>
  BY <1>1 DEF BatchInv, InBatch
<1>2. ASSUME run.pc # "round", run'.pc # "round", batch' = batch PROVE BatchInv'
  BY <1>2, NothingShaped DEF BatchInv
<1>3. ASSUME NEW p \in Procs, Claim(p) PROVE BatchInv'
  <2>1. run.pc = "idle"
    BY <1>3, AfterClaim DEF RunInv, Working
  <2> QED
    BY <1>2, <1>3, <2>1, AfterClaim DEF RunIs
<1>4. CASE ReadQuestions \/ Count
  BY <1>2, <1>4, AfterReadQuestions, AfterCount DEF RunIs
<1>5. CASE ReadAnswered
  <2>1. CASE batch' = batch /\ run'.pc # "round"
    BY <1>2, <1>5, <2>1, AfterReadAnswered
  <2>2. ASSUME NEW s \in SUBSET Questions, batch' = Retrieving(batchOf', s), run'.pc = "round" PROVE BatchInv'
    <3>1. \A b \in Batches : batch'[b] = NoBatch \/ batch'[b] = BatchIs("retrieve", {}, {})
      BY <2>2, BatchValues DEF Retrieving
    <3> QED
      BY <2>2, <3>1, NothingShaped DEF BatchInv
  <2> QED
    BY <1>5, <2>1, <2>2, AfterReadAnswered DEF RunIs
<1>6. CASE RoundEnds
  <2>1. \A b \in Batches : \/ batch'[b] = NoBatch
                           \/ batch'[b] = BatchIs("retrieve", {}, {}) /\ run'.pc = "round"
    BY <1>6, AfterRoundEnds DEF RunIs
  <2> QED
    BY <2>1, NothingShaped DEF BatchInv
<1>7. CASE MarkDone \/ MarkFailed
  BY <1>2, <1>7, AfterMarkDone, AfterMarkFailed DEF RunIs
<1>8. ASSUME NEW b \in Batches, Retrieve(b) PROVE BatchInv'
  <2>1. \A gaps \in SUBSET InBatch(b) : Shaped(Staged(gaps, InBatch(b) \ gaps), InBatch(b))
    BY BatchValues DEF Shaped, BatchIs
  <2> QED
    BY <1>0, <1>8, <2>1, AfterRetrieve, NothingShaped, ShapeOfOne
<1>9. ASSUME NEW b \in Batches, Store(b) PROVE BatchInv'
  <2>1. Shaped(batch[b], InBatch(b))
    BY DEF BatchInv
  <2>2. \A q : Shaped(Staged(batch[b].todo \ {q}, batch[b].ask), InBatch(b))
    BY <2>1, BatchValues DEF Shaped, BatchIs
  <2>3. run.pc = "round" /\ Shaped(batch'[b], InBatch(b))
    BY <1>0, <1>9, <2>2, AfterStore, NothingShaped
  <2> QED
    BY <1>9, <2>3, AfterStore, ShapeOfOne
<1>14. ASSUME NEW b \in Batches, StoreRefused(b) PROVE BatchInv'
  BY <1>0, <1>14, AfterStoreRefused, NothingShaped, ShapeOfOne
<1>10. ASSUME NEW b \in Batches, Ask(b) PROVE BatchInv'
  <2>1. Shaped(batch[b], InBatch(b))
    BY DEF BatchInv
  <2>2. /\ Shaped(Staged(batch[b].ask, {}), InBatch(b))
        /\ \A s : Shaped(BatchIs("gather", batch[b].ask \ s, {}), InBatch(b))
    BY <2>1, BatchValues DEF Shaped, BatchIs
  <2>3. run.pc = "round" /\ Shaped(batch'[b], InBatch(b))
    BY <1>0, <1>10, <2>2, AfterAsk
  <2> QED
    BY <1>10, <2>3, AfterAsk, ShapeOfOne
<1>11. ASSUME NEW b \in Batches, GatherReturns(b) PROVE BatchInv'
  <2>1. Shaped(Staged(batch[b].todo, {}), InBatch(b))
    BY BatchValues DEF BatchInv, Shaped, BatchIs
  <2> QED
    BY <1>0, <1>11, <2>1, AfterGatherReturns, ShapeOfOne
<1>12. ASSUME NEW t \in tasks, FallbackRaises(t) PROVE BatchInv'
  <2> DEFINE b == batchOf[t.q]
  <2>0. b \in Batches
    BY <1>12, AfterFallbackRaises
  <2>1. CASE UNCHANGED <<batchOf, run, batch>>
    BY <1>1, <2>1
  <2>2. CASE batch[b].pc = "gather" /\ batch'[b] = Failed
    BY <1>0, <1>12, <2>0, <2>2, AfterFallbackRaises, NothingShaped, ShapeOfOne
  <2> QED
    BY <1>12, <2>0, <2>1, <2>2, OneBatch DEF FallbackRaises
<1>13. ASSUME NEW p \in Procs, Crash(p) PROVE BatchInv'
  BY <1>1, <1>13, AfterCrash, NothingShaped DEF BatchInv
<1> QED
  BY <1>1, <1>3, <1>4, <1>5, <1>6, <1>7, <1>8, <1>9, <1>10, <1>11, <1>12, <1>13, <1>14
  DEF Next, QueueStep, RunStep, BatchStep, FallbackStep, Structure, StructureEnqueues, Recover,
      FallbackStores, StructureRecovered, EditResponse

(* Starting fallbacks adds only fallbacks of the present claim.            *)
LEMMA TaskInvNext ==
    ASSUME TypeOK, RunInv, BatchInv, TaskInv, Next
    PROVE  TaskInv'
<1>0. /\ job.made \in Nat /\ job.attempts \in Nat
      /\ \A t \in tasks : t.made \in Nat /\ t.attempt \in Nat
  BY TypeParts, JobFields DEF Task
<1>1. ASSUME tasks' \subseteq tasks, job'.made = job.made, job'.attempts = job.attempts,
             Working' => Working /\ run'.proc = run.proc
      PROVE  TaskInv'
  BY <1>1 DEF TaskInv
<1>2. CASE StructureEnqueues
  <2>1. CASE job' = job
    BY <1>1, <1>2, <2>1 DEF StructureEnqueues, Working
  <2>2. CASE job'.made = job.made + 1
    <3>1. \A t \in tasks : t.made <= job.made + 1 /\ t.made # job.made + 1
      BY <1>0 DEF TaskInv
    <3>2. tasks' = tasks
      BY <1>2 DEF StructureEnqueues
    <3> QED
      BY <2>2, <3>1, <3>2 DEF TaskInv
  <2> QED
    BY <1>2, <2>1, <2>2 DEF StructureEnqueues
<1>3. ASSUME NEW p \in Procs, Claim(p) PROVE TaskInv'
  <2>1. job' = JobIs("claimed", job.attempts + 1, job.made) /\ tasks' = tasks
    BY <1>3, AfterClaim
  <2>2. job'.made = job.made /\ job'.attempts = job.attempts + 1
    BY <2>1 DEF JobIs
  <2>3. ASSUME NEW t \in tasks, t.made = job.made
        PROVE  t.attempt <= job.attempts + 1 /\ t.attempt # job.attempts + 1
    <3>1. t.attempt <= job.attempts
      BY <2>3 DEF TaskInv
    <3>2. t.attempt \in Nat /\ job.attempts \in Nat
      BY <1>0
    <3> QED
      BY <3>1, <3>2
  <2> QED
    BY <2>1, <2>2, <2>3 DEF TaskInv
<1>4. CASE Recover
  BY <1>1, <1>4, AfterRecover DEF JobIs, Working
<1>5. CASE ReadQuestions
  BY <1>1, <1>5, AfterReadQuestions DEF RunIs, Working
<1>6. CASE ReadAnswered
  BY <1>1, <1>6, AfterReadAnswered DEF RunIs, Working
<1>7. CASE RoundEnds
  BY <1>1, <1>7, AfterRoundEnds DEF RunIs, Working
<1>8. CASE Count
  BY <1>1, <1>8, AfterCount DEF RunIs, Working
<1>9. CASE MarkDone
  BY <1>1, <1>9, AfterMarkDone DEF RunIs, JobIs, Working
<1>10. CASE MarkFailed
  BY <1>1, <1>10, AfterMarkFailed DEF RunIs, JobIs, Working
<1>11. ASSUME NEW b \in Batches, BatchStep(b) PROVE TaskInv'
  <2>1. CASE tasks' = tasks
    BY <1>1, <1>11, <2>1, NotTheWorker DEF Working
  <2>3. CASE StoreRefused(b)
    BY <1>1, <2>3, AfterStoreRefused DEF Working
  <2>2. CASE Ask(b)
    <3>1. PICK s : tasks' = tasks \cup {Fallback(q) : q \in s}
      BY <2>2, AfterAsk
    <3>2. \A q : Fallback(q).made = job.made /\ Fallback(q).attempt = job.attempts
                 /\ Fallback(q).proc = run.proc
      BY DEF Fallback
    <3>3. run' = run /\ job' = job
      BY <2>2, AfterAsk
    <3>4. job.attempts <= job.attempts /\ job.made <= job.made
      BY <1>0
    <3>5. \A t \in tasks' : \/ t \in tasks
                            \/ t.made = job.made /\ t.attempt = job.attempts /\ t.proc = run.proc
      BY <3>1, <3>2
    <3> QED
      BY <3>3, <3>4, <3>5 DEF TaskInv, Working
  <2> QED
    BY <1>11, <2>1, <2>2, <2>3 DEF BatchStep, Retrieve, Store, GatherReturns
<1>12. CASE FallbackStep
  <2>1. tasks' \subseteq tasks
    BY <1>12 DEF FallbackStep, FallbackStores, FallbackRaises
  <2> QED
    BY <1>1, <1>12, <2>1, NotTheWorker DEF Working
<1>13. ASSUME NEW p \in Procs, Crash(p) PROVE TaskInv'
  <2>1. tasks' \subseteq tasks /\ job' = job
    BY <1>13, AfterCrash
  <2>2. Working' => Working /\ run'.proc = run.proc
    BY <1>13, AfterCrash DEF Working, RunIs
  <2> QED
    BY <1>1, <2>1, <2>2
<1>14. CASE (\E p \in Procs : Structure(p)) \/ StructureRecovered \/ \E q \in Questions : EditResponse(q)
  <2>1. tasks' = tasks
    BY <1>14 DEF Structure, StructureRecovered, EditResponse
  <2> QED
    BY <1>1, <1>14, <2>1, NotTheWorker DEF Working
<1> QED
  BY <1>2, <1>3, <1>4, <1>5, <1>6, <1>7, <1>8, <1>9, <1>10, <1>11, <1>12, <1>13, <1>14
  DEF Next, QueueStep, RunStep

(* The worker, its batches and its fallbacks hold together.                *)
LEMMA WInvInit == Init => WInv
<1>1. Init => TypeOK
  BY TypeInit
<1>2. Init => RunInv
  BY DEF Init, Idle, RunInv, Working
<1>3. Init => BatchInv
  BY NothingShaped DEF Init, BatchInv
<1>4. Init => TaskInv
  BY DEF Init, TaskInv
<1> QED
  BY <1>1, <1>2, <1>3, <1>4 DEF WInv

LEMMA WInvStep == WInv /\ [Next]_vars => WInv'
<1>1. WInv /\ Next => WInv'
  BY TypeStep, RunInvNext, BatchInvNext, TaskInvNext DEF WInv
<1>2. ASSUME WInv, UNCHANGED vars PROVE WInv'
  <2>1. TypeOK'
    BY <1>2, TypeStep DEF WInv
  <2>2. /\ UNCHANGED <<batchOf, epoch, job, run, batch, tasks>>
    BY <1>2 DEF vars
  <2> QED
    BY <1>2, <2>1, <2>2 DEF WInv, RunInv, BatchInv, TaskInv, InBatch, Working
<1> QED
  BY <1>1, <1>2

(* The rows, the worker, its batches and the fallbacks keep their types.   *)
(* A fallback is of round 1 or 2 because batches work only in a round, and *)
(* a batch has questions in hand because they are of those it was given.   *)
THEOREM TypeCorrect == Spec => []TypeOK
<1>1. WInv => TypeOK
  BY DEF WInv
<1> QED
  BY <1>1, WInvInit, WInvStep, PTL DEF Spec

-----------------------------------------------------------------------------
(* Where the unanswered questions are.                                     *)

(* What a batch pursues it still pursues when it and the fallbacks of the  *)
(* question are left alone.                                                *)
LEMMA StillPursued ==
    ASSUME NEW c, NEW q, Pursued(c, q), batch'[c] = batch[c], run' = run, job' = job,
           batchOf' = batchOf,
           \A t \in TasksOf(c) : t.q = q => t \in tasks'
    PROVE  Pursued(c, q)'
<1>1. \A t \in TasksOf(c) : t \in tasks' => t \in TasksOf(c)'
  BY DEF TasksOf
<1> QED
  BY <1>1 DEF Pursued

(* A step of the batches: no response is deleted, and each question that   *)
(* stays unanswered stays in hand.                                         *)
LEMMA CoverOfBatches ==
    ASSUME TypeOK, CoverInv, UNCHANGED <<batchOf, run, job, epoch>>,
           \A q \in Questions : resp'[q] = "none" => resp[q] = "none",
           \A q \in run.pending, c \in Batches :
              batchOf[q] = c /\ resp'[q] = "none" /\ Current /\ run.pc = "round" /\ Pursued(c, q)
                 => Pursued(c, q)'
    PROVE  CoverInv'
<1>1. Current' = Current
  BY DEF Current
<1>2. ASSUME NEW q \in Questions, Current, resp'[q] = "none" PROVE Located(q)'
  <2>1. Located(q)
    BY <1>2 DEF CoverInv
  <2>2. SUFFICES ASSUME NEW c \in Batches, batchOf[q] = c PROVE Located(q)'
    BY TypeParts
  <2>3. run.pc = "round" => q \in run.pending /\ Pursued(c, q)
    BY <2>1, <2>2 DEF Located
  <2>4. run.pc = "round" => Pursued(c, q)'
    BY <1>2, <2>2, <2>3
  <2>5. Pursued(batchOf[q], q)' <=> Pursued(c, q)'
    BY <2>2 DEF Pursued
  <2> QED
    BY <2>1, <2>3, <2>4, <2>5 DEF Located
<1> QED
  BY <1>1, <1>2 DEF CoverInv

(* The steps of one batch.                                                 *)
LEMMA CoverOfBatch ==
    ASSUME WInv, CoverInv, NEW b \in Batches, BatchStep(b)
    PROVE  CoverInv'
<1>0. TypeOK /\ Shaped(batch[b], InBatch(b))
  BY DEF WInv, BatchInv
<1>1. UNCHANGED <<batchOf, run, job, epoch>>
  BY DEF BatchStep, Retrieve, Store, StoreRefused, Ask, GatherReturns
<1>2. /\ \A c \in Batches \ {b} : batch'[c] = batch[c]
      /\ \A t \in tasks : t \in tasks' \/ resp'[t.q] # "none"
  BY <1>0, AfterRetrieve, AfterStore, AfterStoreRefused, AfterAsk, AfterGatherReturns DEF BatchStep
<1>3. \A q \in Questions : resp'[q] = "none" => resp[q] = "none"
  <2>1. CASE Store(b) \/ StoreRefused(b)
    BY <1>0, <2>1, AfterStore, AfterStoreRefused
  <2> QED
    BY <2>1 DEF BatchStep, Retrieve, Ask, GatherReturns
<1>4. ASSUME NEW q \in run.pending, NEW c \in Batches, batchOf[q] = c,
             resp'[q] = "none", Current, run.pc = "round", Pursued(c, q)
      PROVE  Pursued(c, q)'
  <2>0. q \in Questions
    BY <1>0, TypeParts, RunFields
  <2>1. CASE c # b
    <3>1. batch'[c] = batch[c]
      BY <1>2, <2>0, <2>1
    <3>2. \A t \in TasksOf(c) : t.q = q => t \in tasks'
      BY <1>2, <1>4 DEF TasksOf
    <3> QED
      BY <1>1, <1>4, <3>1, <3>2, StillPursued
  <2>2. CASE c = b
    <3>0. q \in InBatch(b)
      BY <1>4, <2>2 DEF InBatch
    <3>1. CASE Retrieve(b)
      <4>1. batch'[b] = Failed \/ q \in batch'[b].todo \cup batch'[b].ask
        <5>1. \A gaps \in SUBSET InBatch(b) :
                 q \in Staged(gaps, InBatch(b) \ gaps).todo \cup Staged(gaps, InBatch(b) \ gaps).ask
          BY <3>0, StagedInHand
        <5> QED
          BY <1>0, <3>1, <5>1, AfterRetrieve
      <4> QED
        BY <2>2, <4>1, BatchValues DEF Pursued, BatchIs
    <3>2. CASE Store(b)
      <4>1. q \in batch[b].todo \cup batch[b].ask
        BY <1>0, <1>4, <2>2, <3>2, AfterStore DEF Pursued
      <4>2. batch'[b] = Failed \/ q \in batch'[b].todo \cup batch'[b].ask
        <5>1. \A r : q # r => q \in Staged(batch[b].todo \ {r}, batch[b].ask).todo
                                    \cup Staged(batch[b].todo \ {r}, batch[b].ask).ask
          BY <4>1, StagedInHand
        <5>2. PICK r \in Questions \cap batch[b].todo :
                 \/ resp'[r] = "ai" /\ batch'[b] = Staged(batch[b].todo \ {r}, batch[b].ask)
                 \/ batch'[b] = Failed
          BY <1>0, <3>2, AfterStore
        <5> QED
          BY <1>4, <5>1, <5>2
      <4> QED
        BY <2>2, <4>2, BatchValues DEF Pursued, BatchIs
    <3>5. CASE StoreRefused(b)
      BY <1>0, <2>2, <3>5, AfterStoreRefused, BatchValues DEF Pursued, BatchIs
    <3>3. CASE Ask(b)
      <4>1. q \in batch[b].ask
        BY <1>0, <1>4, <2>2, <3>3, AfterAsk DEF Pursued, Shaped
      <4>2. PICK s \in SUBSET batch[b].ask :
               /\ \/ s = {} /\ batch'[b] = Staged(batch[b].ask, {})
                  \/ batch'[b] = BatchIs("gather", batch[b].ask \ s, {})
               /\ tasks' = tasks \cup {Fallback(r) : r \in s}
        BY <1>0, <3>3, AfterAsk
      <4>3. CASE q \notin s
        BY <2>2, <4>1, <4>2, <4>3, BatchValues DEF Pursued, BatchIs
      <4>4. CASE q \in s
        <5>1. batch'[b].pc = "gather"
          BY <4>2, <4>4 DEF BatchIs
        <5>2. /\ Fallback(q) \in tasks' /\ Fallback(q).q = q
              /\ Fallback(q).asked = run.asked /\ Fallback(q).made = job.made
              /\ Fallback(q).attempt = job.attempts /\ Fallback(q).round = run.round
          BY <4>2, <4>4 DEF Fallback
        <5>3. Fallback(q) \in TasksOf(b)'
          BY <1>1, <1>4, <2>2, <5>2 DEF TasksOf
        <5> QED
          BY <2>2, <5>1, <5>2, <5>3 DEF Pursued
      <4> QED
        BY <4>3, <4>4
    <3>4. CASE GatherReturns(b)
      <4>1. q \in batch[b].todo
        BY <1>0, <1>4, <2>2, <3>4, AfterGatherReturns DEF Pursued, Shaped
      <4> QED
        BY <1>0, <2>2, <3>4, <4>1, AfterGatherReturns, BatchValues DEF Pursued, BatchIs
    <3> QED
      BY <3>1, <3>2, <3>3, <3>4, <3>5 DEF BatchStep
  <2> QED
    BY <2>1, <2>2
<1> QED
  BY <1>0, <1>1, <1>3, <1>4, CoverOfBatches

(* The steps of the fallbacks.                                             *)
LEMMA CoverOfFallbacks ==
    ASSUME WInv, CoverInv, FallbackStep
    PROVE  CoverInv'
<1>0. TypeOK
  BY DEF WInv
<1>1. UNCHANGED <<batchOf, run, job, epoch>>
  BY DEF FallbackStep, FallbackStores, FallbackRaises
<1>2. PICK t \in tasks : FallbackStores(t) \/ FallbackRaises(t)
  BY DEF FallbackStep
<1>3. \A q \in Questions : resp'[q] = "none" => resp[q] = "none"
  BY <1>0, <1>2, AfterFallbackStores DEF FallbackRaises
<1>4. ASSUME NEW q \in run.pending, NEW c \in Batches, batchOf[q] = c, resp'[q] = "none",
             Pursued(c, q)
      PROVE  Pursued(c, q)'
  <2>0. q \in Questions
    BY <1>0, TypeParts, RunFields
  <2>1. CASE FallbackStores(t)
    <3>1. t.q # q /\ batch' = batch /\ tasks' = tasks \ {t}
      BY <1>0, <1>4, <2>1, AfterFallbackStores
    <3>2. \A u \in TasksOf(c) : u.q = q => u \in tasks'
      BY <3>1 DEF TasksOf
    <3> QED
      BY <1>1, <1>4, <3>1, <3>2, StillPursued
  <2>2. CASE FallbackRaises(t)
    <3>1. /\ tasks' = tasks \ {t}
          /\ \A b \in Batches \ {batchOf[t.q]} : batch'[b] = batch[b]
          /\ \/ batch'[batchOf[t.q]] = Failed
             \/ /\ batch'[batchOf[t.q]] = batch[batchOf[t.q]]
                /\ batch[batchOf[t.q]].pc = "gather" => t \notin TasksOf(batchOf[t.q])
      BY <1>0, <2>2, AfterFallbackRaises
    <3>2. CASE batch'[c] = Failed
      BY <3>2, BatchValues DEF Pursued, BatchIs
    <3>3. CASE /\ batch'[c] = batch[c]
               /\ t.q = q /\ batch[c].pc = "gather" => t \notin TasksOf(c)
      <4>1. CASE \A u \in TasksOf(c) : u.q = q => u \in tasks'
        BY <1>1, <1>4, <3>3, <4>1, StillPursued
      <4>2. CASE batch[c].pc # "gather"
        BY <1>4, <3>3, <4>2 DEF Pursued
      <4> QED
        BY <3>1, <3>3, <4>1, <4>2 DEF TasksOf
    <3> QED
      BY <1>4, <2>0, <3>1, <3>2, <3>3
  <2> QED
    BY <1>2, <2>1, <2>2
<1> QED
  BY <1>0, <1>1, <1>3, <1>4, CoverOfBatches

(* A crash: the fallbacks of a worker that lives on are its own.           *)
LEMMA CoverOfCrash ==
    ASSUME WInv, CoverInv, NEW p \in Procs, Crash(p)
    PROVE  CoverInv'
<1>0. TypeOK
  BY DEF WInv
<1>1. UNCHANGED <<resp, job, epoch>>
  BY <1>0, AfterCrash
<1>2. CASE run.proc = {p} /\ Working
  <2>1. job'.status = "claimed"
    BY <1>1, <1>2 DEF WInv, RunInv
  <2>2. run'.pc = "idle"
    BY <1>0, <1>2, AfterCrash DEF RunIs
  <2> QED
    BY <2>1, <2>2 DEF CoverInv, Located
<1>3. CASE ~(run.proc = {p} /\ Working)
  <2>1. UNCHANGED <<run, batchOf, batch>> /\ tasks' = {t \in tasks : t.proc # {p}}
    BY <1>0, <1>3, AfterCrash
  <2>2. ASSUME NEW q \in run.pending, NEW c \in Batches, run.pc = "round", Pursued(c, q)
        PROVE  Pursued(c, q)'
    <3>1. \A t \in TasksOf(c) : t \in tasks /\ t.proc = run.proc
      BY <2>2 DEF TasksOf, WInv, TaskInv, Working
    <3>2. \A t \in TasksOf(c) : t \in tasks'
      BY <1>3, <2>1, <2>2, <3>1 DEF Working
    <3> QED
      BY <1>1, <2>1, <2>2, <3>2, StillPursued
  <2> QED
    BY <1>0, <1>1, <2>1, <2>2, CoverOfBatches
<1> QED
  BY <1>2, <1>3

(* Every step: the end of a round is where an unanswered question becomes  *)
(* one of a batch that failed.                                             *)
LEMMA CoverInvNext ==
    ASSUME WInv, CoverInv, Next
    PROVE  CoverInv'
<1>0. /\ TypeOK /\ run.asked \in Nat /\ epoch \in Nat /\ run.asked <= epoch
      /\ Working => job.status = "claimed"
  BY TypeParts, RunFields DEF WInv, RunInv
<1>1. ASSUME NEW p \in Procs, Structure(p) PROVE CoverInv'
  <2>1. run' = run /\ epoch' = epoch + 1
    BY <1>1 DEF Structure
  <2>2. run.asked # epoch + 1
    BY <1>0
  <2> QED
    BY <2>1, <2>2 DEF CoverInv, Current
<1>2. CASE StructureEnqueues
  <2>1. /\ UNCHANGED <<batchOf, epoch, resp, run, batch, tasks>>
        /\ job' = job \/ (~Working /\ job'.status = "pending")
    BY <1>0, <1>2 DEF StructureEnqueues
  <2> QED
    BY <2>1 DEF CoverInv, Current, Located, Working, Pursued, TasksOf
<1>3. ASSUME NEW p \in Procs, Claim(p) PROVE CoverInv'
  BY <1>0, <1>3, AfterClaim DEF CoverInv, Located, RunIs, JobIs
<1>4. CASE Recover
  BY <1>0, <1>4, AfterRecover DEF CoverInv, Located, JobIs, Working
<1>5. CASE ReadQuestions
  <2>1. job'.status = "claimed"
    BY <1>0, <1>5, AfterReadQuestions DEF Working
  <2> QED
    BY <1>0, <1>5, <2>1, AfterReadQuestions DEF CoverInv, Located, RunIs
<1>6. CASE ReadAnswered
  <2>0. job'.status = "claimed" /\ UNCHANGED <<epoch, resp>> /\ run'.asked = run.asked
    BY <1>0, <1>6, AfterReadAnswered DEF Working, RunIs
  <2>1. CASE \A q \in Questions : resp[q] # "none"
    BY <2>0, <2>1 DEF CoverInv
  <2>2. ASSUME NEW s \in SUBSET Questions, s = {q \in Questions : Current => resp[q] = "none"},
               run' = RunIs("round", run.proc, run.asked, s, 1, run.failed),
               batchOf' \in [Questions -> Batches], batch' = Retrieving(batchOf', s)
        PROVE  CoverInv'
    <3>1. \A q \in s : batch'[batchOf'[q]] = BatchIs("retrieve", {}, {})
      BY <2>2, BatchValues DEF Retrieving
    <3>2. \A q \in s : Pursued(batchOf[q], q)'
      BY <3>1 DEF Pursued, BatchIs
    <3>3. run'.pc = "round" /\ run'.pending = s
      BY <2>2 DEF RunIs
    <3> QED
      BY <2>0, <2>2, <3>2, <3>3 DEF CoverInv, Located
  <2> QED
    BY <1>0, <1>6, <2>1, <2>2, AfterReadAnswered
<1>7. CASE RoundEnds
  <2>0. job'.status = "claimed" /\ UNCHANGED <<batchOf, epoch, resp>> /\ run'.asked = run.asked
    BY <1>0, <1>7, AfterRoundEnds DEF Working, RunIs
  <2> DEFINE f == {b \in Batches : batch[b].pc = "failed"}
  <2>1. ASSUME NEW q \in Questions, Current, resp[q] = "none"
        PROVE  q \in run.pending /\ batchOf[q] \in f
    <3>1. q \in run.pending /\ Pursued(batchOf[q], q)
      BY <1>0, <1>7, <2>1, AfterRoundEnds DEF CoverInv, Located
    <3>2. batchOf[q] \in Batches /\ batch[batchOf[q]].pc \in {"none", "ok", "failed"}
      BY <1>0, <1>7, AfterRoundEnds, TypeParts
    <3>3. Shaped(batch[batchOf[q]], InBatch(batchOf[q]))
      BY <3>2 DEF WInv, BatchInv
    <3> QED
      BY <3>1, <3>2, <3>3 DEF Pursued, Shaped
  <2> HIDE DEF f
  <2>2. CASE /\ run' = RunIs("round", run.proc, run.asked, run.pending, 2, run.failed)
             /\ \A b \in Batches : batch'[b] = IF b \in f THEN BatchIs("retrieve", {}, {}) ELSE NoBatch
    <3>1. \A q \in Questions : batchOf[q] \in f => Pursued(batchOf[q], q)'
      BY <1>0, <2>0, <2>2, TypeParts DEF Pursued, BatchIs
    <3>2. run'.pc = "round" /\ run'.pending = run.pending
      BY <2>2 DEF RunIs
    <3> QED
      BY <2>0, <2>1, <3>1, <3>2 DEF CoverInv, Located, Current
  <2>3. CASE run' = RunIs("count", run.proc, run.asked, run.pending, run.round, f)
    <3>1. run'.pc = "count" /\ run'.failed = f
      BY <2>3 DEF RunIs
    <3> QED
      BY <2>0, <2>1, <3>1 DEF CoverInv, Located, Current
  <2> QED
    BY <1>0, <1>7, <2>2, <2>3, AfterRoundEnds DEF f
<1>8. CASE Count
  <2>0. job'.status = "claimed" /\ UNCHANGED <<batchOf, epoch, resp>>
    BY <1>0, <1>8, AfterCount DEF Working
  <2>1. /\ run.pc = "count" /\ run'.pc \in {"succeeding", "failing"}
        /\ run'.asked = run.asked /\ run'.failed = run.failed
    BY <1>0, <1>8, AfterCount DEF RunIs
  <2> QED
    BY <2>0, <2>1 DEF CoverInv, Located, Current
<1>9. CASE MarkDone
  <2>1. /\ run.pc \in {"mark_done", "succeeding"} /\ run'.pc = "idle"
        /\ run'.asked = run.asked /\ run'.failed = run.failed
        /\ UNCHANGED <<batchOf, epoch, resp>>
    BY <1>0, <1>9, AfterMarkDone DEF RunIs
  <2> QED
    BY <2>1 DEF CoverInv, Located, Current
<1>10. CASE MarkFailed
  <2>1. run'.pc = "idle" /\ job'.status # "done"
    BY <1>0, <1>10, AfterMarkFailed DEF RunIs, JobIs
  <2> QED
    BY <2>1 DEF CoverInv, Located
<1>11. CASE StructureRecovered
  BY <1>11 DEF StructureRecovered, CoverInv, Located, Current, Pursued, TasksOf
<1>12. ASSUME NEW q \in Questions, EditResponse(q) PROVE CoverInv'
  <2>1. UNCHANGED <<batchOf, epoch, job, run, batch, tasks>> /\ \A r \in Questions : resp'[r] = "none" => resp[r] = "none"
    BY <1>0, <1>12, AfterEditResponse
  <2> QED
    BY <2>1 DEF CoverInv, Located, Current, Pursued, TasksOf
<1> QED
  BY <1>1, <1>2, <1>3, <1>4, <1>5, <1>6, <1>7, <1>8, <1>9, <1>10, <1>11, <1>12,
     CoverOfBatch, CoverOfFallbacks, CoverOfCrash
  DEF Next, QueueStep, RunStep

-----------------------------------------------------------------------------
(* A structuring run and a worker: one after the other, unless the         *)
(* structuring job is recovered after it has made its generate job.        *)

(* A step that leaves the structuring job, the worker and the job alone.   *)
LEMMA AloneKept ==
    ASSUME AloneInv, UNCHANGED <<batchOf, structuring, epoch, job, run>>, reruns' = 0 => reruns = 0,
           structuring # "done" => tasks' \subseteq tasks,
           \A q \in Questions : resp'[q] = "none" => resp[q] = "none"
    PROVE  AloneInv'
BY DEF AloneInv, PastRead, Current, SomeAnswer

LEMMA AloneInvNext ==
    ASSUME WInv, CoverInv, AloneInv, Next
    PROVE  AloneInv'
<1>0. /\ TypeOK /\ reruns \in Nat
      /\ Working => job.status = "claimed"
      /\ "queued" \notin Procs /\ "done" \notin Procs
  BY TypeParts, GenerateAssumption DEF WInv, RunInv
<1>1. ASSUME NEW p \in Procs, Structure(p) PROVE AloneInv'
  <2>1. /\ structuring = "queued" /\ structuring' = p
        /\ UNCHANGED <<batchOf, job, run, tasks, reruns>>
    BY <1>1 DEF Structure, limits
  <2>2. reruns = 0 => job.status = "none" /\ tasks = {} /\ ~Working
    BY <1>0, <2>1 DEF AloneInv
  <2> QED
    BY <2>1, <2>2 DEF AloneInv, PastRead, Working
<1>2. CASE StructureEnqueues
  <2>1. /\ structuring # "done" /\ structuring' = "done"
        /\ UNCHANGED <<batchOf, run, reruns>> /\ job'.status \in {"pending", "claimed"}
    BY <1>0, <1>2 DEF StructureEnqueues, limits
  <2>2. reruns = 0 => ~Working
    BY <1>0, <2>1 DEF AloneInv
  <2> QED
    BY <2>1, <2>2 DEF AloneInv, PastRead, Working
<1>3. ASSUME NEW p \in Procs, Claim(p) PROVE AloneInv'
  BY <1>0, <1>3, AfterClaim DEF AloneInv, PastRead, RunIs, JobIs
<1>4. CASE Recover
  BY <1>0, <1>4, AfterRecover DEF AloneInv, PastRead, Working, JobIs
<1>5. CASE ReadQuestions
  <2>1. /\ job.status = "claimed" /\ run'.asked = epoch /\ run'.pc = "read_answered"
        /\ UNCHANGED <<structuring, epoch, job, tasks, reruns>>
    BY <1>0, <1>5, AfterReadQuestions DEF Working, RunIs
  <2> QED
    BY <2>1 DEF AloneInv, PastRead, Current
<1>6. CASE ReadAnswered \/ RoundEnds \/ Count
  <2>1. /\ job.status = "claimed" /\ PastRead /\ run'.asked = run.asked
        /\ UNCHANGED <<structuring, epoch, resp, job, tasks, reruns>>
        /\ run'.pc = "succeeding" => SomeAnswer
    BY <1>0, <1>6, AfterReadAnswered, AfterRoundEnds, AfterCount DEF Working, PastRead, RunIs
  <2> QED
    BY <2>1 DEF AloneInv, Current, SomeAnswer
<1>7. CASE MarkDone
  <2>1. /\ run.pc \in {"mark_done", "succeeding"} /\ run'.pc = "idle" /\ run'.asked = run.asked
        /\ job.status = "claimed"
        /\ UNCHANGED <<structuring, epoch, resp, tasks, reruns>>
    BY <1>0, <1>7, AfterMarkDone DEF Working, RunIs
  <2>2. CASE run.pc = "mark_done" /\ reruns = 0
    <3>1. Current
      BY <2>2 DEF AloneInv, PastRead
    <3>2. \A q \in Questions : resp[q] # "none"
      BY <2>2, <3>1 DEF CoverInv, Located
    <3> QED
      BY <2>1, <3>2 DEF AloneInv, PastRead, SomeAnswer
  <2>3. CASE run.pc = "succeeding" \/ reruns # 0
    BY <2>1, <2>3 DEF AloneInv, PastRead, SomeAnswer
  <2> QED
    BY <2>1, <2>2, <2>3
<1>8. CASE MarkFailed
  <2>1. /\ run'.pc = "idle" /\ job.status = "claimed" /\ job'.status \in {"dead", "pending"}
        /\ UNCHANGED <<structuring, epoch, resp, tasks, reruns>>
    BY <1>0, <1>8, AfterMarkFailed DEF Working, RunIs, JobIs
  <2> QED
    BY <2>1 DEF AloneInv, PastRead
<1>9. ASSUME NEW b \in Batches, BatchStep(b) PROVE AloneInv'
  <2>1. UNCHANGED <<batchOf, structuring, epoch, job, run, reruns>>
    BY <1>9 DEF BatchStep, Retrieve, Store, StoreRefused, Ask, GatherReturns, limits
  <2>2. Working
    BY <1>9, BatchValues
    DEF WInv, BatchInv, BatchStep, Retrieve, Store, StoreRefused, Ask, GatherReturns, BatchIs, Working
  <2>3. reruns = 0 => structuring = "done"
    BY <1>0, <2>2 DEF AloneInv
  <2>4. \A q \in Questions : resp'[q] = "none" => resp[q] = "none"
    BY <1>0, <1>9, AfterStore, AfterStoreRefused DEF BatchStep, Retrieve, Ask, GatherReturns
  <2> QED
    BY <2>1, <2>3, <2>4, AloneKept DEF AloneInv
<1>10. CASE FallbackStep
  <2>1. /\ UNCHANGED <<batchOf, structuring, epoch, job, run, reruns>> /\ tasks' \subseteq tasks
    BY <1>10 DEF FallbackStep, FallbackStores, FallbackRaises, limits
  <2>2. \A q \in Questions : resp'[q] = "none" => resp[q] = "none"
    BY <1>0, <1>10, AfterFallbackStores DEF FallbackStep, FallbackRaises
  <2> QED
    BY <2>1, <2>2, AloneKept
<1>11. CASE StructureRecovered
  <2>1. reruns' # 0
    BY <1>0, <1>11 DEF StructureRecovered
  <2> QED
    BY <2>1 DEF AloneInv
<1>12. ASSUME NEW q \in Questions, EditResponse(q) PROVE AloneInv'
  BY <1>0, <1>12, AfterEditResponse, AloneKept
<1>13. ASSUME NEW p \in Procs, Crash(p) PROVE AloneInv'
  <2>1. /\ UNCHANGED <<epoch, resp, job, reruns>> /\ tasks' \subseteq tasks
        /\ structuring' # "done" => structuring # "done"
    BY <1>0, <1>13, AfterCrash
  <2>2. run' = run \/ run'.pc = "idle"
    BY <1>0, <1>13, AfterCrash DEF RunIs
  <2> QED
    BY <2>1, <2>2 DEF AloneInv, PastRead, Current, SomeAnswer
<1> QED
  BY <1>1, <1>2, <1>3, <1>4, <1>5, <1>6, <1>7, <1>8, <1>9, <1>10, <1>11, <1>12, <1>13
  DEF Next, QueueStep, RunStep

(* The invariant.                                                          *)
LEMMA GInvInit == Init => GInv
<1>1. Init => WInv
  BY WInvInit
<1>2. ASSUME Init PROVE CoverInv /\ AloneInv
  BY <1>2 DEF Init, Idle, CoverInv, Located, AloneInv, PastRead, Current
<1> QED
  BY <1>1, <1>2 DEF GInv

LEMMA GInvStep == GInv /\ [Next]_vars => GInv'
<1>1. GInv /\ Next => GInv'
  BY WInvStep, CoverInvNext, AloneInvNext DEF GInv
<1>2. ASSUME GInv, UNCHANGED vars PROVE GInv'
  <2>1. WInv'
    BY <1>2, WInvStep DEF GInv
  <2>2. UNCHANGED <<batchOf, structuring, epoch, resp, job, run, batch, tasks, reruns>>
    BY <1>2 DEF vars, limits
  <2>3. CoverInv'
    BY <1>2, <2>2 DEF GInv, CoverInv, Located, Current, Pursued, TasksOf
  <2>4. AloneInv'
    BY <1>2, <2>2, AloneKept DEF GInv
  <2> QED
    BY <2>1, <2>3, <2>4 DEF GInv
<1> QED
  BY <1>1, <1>2

LEMMA SpecGInv == Spec => []GInv
BY GInvInit, GInvStep, PTL DEF Spec

(* A sub-batch that did not raise has answered each of its questions: an   *)
(* unanswered question of it would still be in hand, and it has none.      *)
THEOREM BatchesAnswerAll == Spec => []BatchAnswersAll
<1>1. ASSUME GInv PROVE BatchAnswersAll
  <2>1. SUFFICES ASSUME NEW b \in Batches, batch[b].pc = "ok", Current,
                        NEW q \in InBatch(b), resp[q] = "none"
                 PROVE  FALSE
    BY DEF BatchAnswersAll
  <2>2. q \in Questions /\ batchOf[q] = b
    BY <1>1, TypeParts, RunFields DEF GInv, WInv, InBatch
  <2>3. run.pc = "round" /\ Shaped(batch[b], InBatch(b))
    BY <1>1, <2>1, BatchValues DEF GInv, WInv, BatchInv, BatchIs
  <2>4. Pursued(b, q)
    BY <1>1, <2>1, <2>2, <2>3 DEF GInv, CoverInv, Located
  <2> QED
    BY <2>1, <2>3, <2>4 DEF Pursued, Shaped
<1> QED
  BY <1>1, SpecGInv, PTL

(* When the stage is done, only the sub-batches that failed twice have     *)
(* left questions unanswered.                                              *)
THEOREM OnlyFailuresLeaveQuestions == Spec => []OnlyFailuresStrand
<1>1. ASSUME GInv PROVE OnlyFailuresStrand
  BY <1>1 DEF GInv, CoverInv, Located, OnlyFailuresStrand, Current
<1> QED
  BY <1>1, SpecGInv, PTL

(* A document with a requirement comes out of the stage with an answer,    *)
(* unless the structuring job was recovered and ran again beside it.  (One *)
(* with none is done at once: there is nothing to ask.)                    *)
THEOREM DoneMeansAnswered ==
    ASSUME Questions # {}
    PROVE  Spec => []DoneHasAnswers
<1>1. ASSUME GInv PROVE DoneHasAnswers
  BY <1>1 DEF GInv, AloneInv, SomeAnswer, DoneHasAnswers
<1> QED
  BY <1>1, SpecGInv, PTL

-----------------------------------------------------------------------------
(* Edits: without a failure there is one hand for each question.           *)

(* The claims and the structuring runs make up for the crashes.            *)
LEMMA ClaimInvNext ==
    ASSUME GInv, ClaimInv, Next
    PROVE  ClaimInv'
<1>0. /\ TypeOK /\ reruns \in Nat /\ epoch \in Nat /\ crashes \in Nat /\ job.attempts \in Nat
      /\ Working => job.status = "claimed"
      /\ "queued" \notin Procs /\ "done" \notin Procs
      /\ reruns = 0 /\ structuring # "done" => job.status = "none"
  BY TypeParts, JobFields, GenerateAssumption DEF GInv, WInv, RunInv, AloneInv
<1>1. ASSUME UNCHANGED <<structuring, epoch, job, reruns, crashes>>, Working' => Working
      PROVE  ClaimInv'
  BY <1>1 DEF ClaimInv
<1>2. ASSUME NEW p \in Procs, Structure(p) PROVE ClaimInv'
  <2>1. /\ structuring = "queued" /\ structuring' = p /\ epoch' = epoch + 1
        /\ UNCHANGED <<batchOf, job, run, reruns, crashes>>
    BY <1>2 DEF Structure, limits
  <2> QED
    BY <1>0, <2>1 DEF ClaimInv, Working
<1>3. CASE StructureEnqueues
  <2>1. /\ structuring \in Procs /\ structuring' = "done"
        /\ UNCHANGED <<batchOf, epoch, run, reruns, crashes>>
    BY <1>3 DEF StructureEnqueues, limits
  <2>2. reruns = 0 => ~Working /\ job'.attempts = 0 /\ epoch = crashes + 1
    BY <1>0, <1>3, <2>1 DEF StructureEnqueues, ClaimInv
  <2> QED
    BY <1>0, <2>1, <2>2 DEF ClaimInv, Working
<1>4. ASSUME NEW p \in Procs, Claim(p) PROVE ClaimInv'
  <2>1. /\ job.status = "pending" /\ job' = JobIs("claimed", job.attempts + 1, job.made)
        /\ UNCHANGED <<structuring, epoch, reruns, crashes>>
    BY <1>0, <1>4, AfterClaim
  <2>2. job'.status = "claimed" /\ job'.attempts = job.attempts + 1
    BY <2>1 DEF JobIs
  <2> QED
    BY <1>0, <2>1, <2>2 DEF ClaimInv
<1>5. CASE Recover
  <2>1. /\ job.status = "claimed" /\ job'.attempts = job.attempts /\ ~Working'
        /\ UNCHANGED <<structuring, epoch, reruns, crashes>>
    BY <1>0, <1>5, AfterRecover DEF JobIs, Working
  <2> QED
    BY <1>0, <2>1 DEF ClaimInv
<1>6. CASE ReadQuestions \/ ReadAnswered \/ RoundEnds \/ Count
  <2>1. UNCHANGED <<structuring, epoch, job, reruns, crashes>> /\ Working
    BY <1>0, <1>6, AfterReadQuestions, AfterReadAnswered, AfterRoundEnds, AfterCount DEF Working
  <2> QED
    BY <1>1, <2>1
<1>7. CASE MarkDone \/ MarkFailed
  <2>1. /\ job.status = "claimed" /\ Working /\ ~Working' /\ job'.attempts = job.attempts
        /\ UNCHANGED <<structuring, epoch, reruns, crashes>>
    BY <1>0, <1>7, AfterMarkDone, AfterMarkFailed DEF Working, RunIs, JobIs
  <2> QED
    BY <1>0, <2>1 DEF ClaimInv
<1>8. CASE (\E b \in Batches : BatchStep(b)) \/ FallbackStep \/ \E q \in Questions : EditResponse(q)
  <2>1. UNCHANGED <<batchOf, structuring, epoch, job, run, reruns, crashes>>
    BY <1>8 DEF BatchStep, Retrieve, Store, StoreRefused, Ask, GatherReturns, FallbackStep, FallbackStores,
                FallbackRaises, EditResponse, limits
  <2> QED
    BY <1>1, <2>1 DEF Working
<1>9. CASE StructureRecovered
  <2>1. reruns' # 0
    BY <1>0, <1>9 DEF StructureRecovered
  <2> QED
    BY <2>1 DEF ClaimInv
<1>10. ASSUME NEW p \in Procs, Crash(p) PROVE ClaimInv'
  <2>1. /\ UNCHANGED <<epoch, job, reruns>> /\ crashes' = crashes + 1
        /\ structuring' = IF structuring = p THEN "queued" ELSE structuring
    BY <1>0, <1>10, AfterCrash
  <2>2. CASE run.proc = {p} /\ Working
    <3>1. ~Working'
      BY <1>0, <1>10, <2>2, AfterCrash DEF Working, RunIs
    <3>2. job.status = "claimed" /\ (reruns = 0 => structuring' = "done")
      BY <1>0, <2>1, <2>2
    <3> QED
      BY <1>0, <2>1, <2>2, <3>1, <3>2 DEF ClaimInv
  <2>3. CASE structuring = p /\ ~(run.proc = {p} /\ Working)
    <3>1. structuring' = "queued" /\ structuring \in Procs /\ structuring # "done" /\ run' = run
      BY <1>0, <1>10, <2>1, <2>3, AfterCrash
    <3> QED
      BY <1>0, <2>1, <3>1 DEF ClaimInv, Working
  <2> QED
    BY <1>0, <1>10, <2>2, <2>3, AfterCrash
<1> QED
  BY <1>2, <1>3, <1>4, <1>5, <1>6, <1>7, <1>8, <1>9, <1>10 DEF Next, QueueStep, RunStep

(* A step of a worker that goes on, which starts no fallback.              *)
LEMMA OwnKept ==
    ASSUME OwnInv, Working, UNCHANGED <<epoch, reruns, crashes>>, tasks' \subseteq tasks,
           Working' => job' = job /\ (run.round # 0 => run'.round # 0),
           job'.status \in {"pending", "claimed"} /\ ~Working' /\ reruns = 0
               => ~(job'.attempts + epoch <= crashes + 1)
    PROVE  OwnInv'
BY DEF OwnInv, NoRunFailed

(* Without a failure there is no fallback of another claim.                *)
LEMMA OwnInvNext ==
    ASSUME GInv, ClaimInv, OwnInv, Next
    PROVE  OwnInv'
<1>0. /\ TypeOK /\ RunInv /\ BatchInv /\ TaskInv /\ reruns \in Nat /\ epoch \in Nat
      /\ crashes \in Nat /\ job.attempts \in Nat
      /\ Working => job.status = "claimed"
      /\ "queued" \notin Procs /\ "done" \notin Procs
      /\ reruns = 0 /\ structuring # "done" => job.status = "none" /\ tasks = {}
  BY TypeParts, JobFields, GenerateAssumption DEF GInv, WInv, RunInv, AloneInv
<1>1. CASE (\E p \in Procs : Structure(p)) \/ StructureEnqueues
  <2>1. structuring # "done" /\ UNCHANGED <<batchOf, run, tasks, reruns>>
    BY <1>0, <1>1 DEF Structure, StructureEnqueues, limits
  <2> QED
    BY <1>0, <2>1 DEF OwnInv
<1>2. ASSUME NEW p \in Procs, Claim(p) PROVE OwnInv'
  <2>1. /\ job.status = "pending" /\ job' = JobIs("claimed", job.attempts + 1, job.made)
        /\ UNCHANGED <<epoch, tasks, reruns, crashes>>
    BY <1>0, <1>2, AfterClaim
  <2>2. job'.attempts = job.attempts + 1 /\ Working'
    BY <1>0, <1>2, <2>1, AfterClaim DEF JobIs, RunIs, Working
  <2>3. NoRunFailed' => tasks = {}
    BY <1>0, <2>1, <2>2 DEF OwnInv, NoRunFailed
  <2> QED
    BY <2>1, <2>2, <2>3 DEF OwnInv, NoRunFailed
<1>3. CASE Recover
  <2>1. /\ job.status = "claimed" /\ ~Working /\ job'.attempts = job.attempts
        /\ UNCHANGED <<batchOf, epoch, run, tasks, reruns, crashes>>
    BY <1>0, <1>3, AfterRecover DEF JobIs
  <2> QED
    BY <2>1 DEF OwnInv, NoRunFailed, Working
<1>4. CASE ReadQuestions \/ ReadAnswered \/ RoundEnds \/ Count
  <2>1. /\ Working /\ Working' /\ UNCHANGED <<epoch, job, tasks, reruns, crashes>>
        /\ run.round # 0 => run'.round # 0
    BY <1>0, <1>4, AfterReadQuestions, AfterReadAnswered, AfterRoundEnds, AfterCount
    DEF Working, RunIs
  <2> QED
    BY <2>1, OwnKept
<1>5. CASE MarkDone \/ MarkFailed
  <2>1. /\ Working /\ ~Working' /\ UNCHANGED <<epoch, tasks, reruns, crashes>>
        /\ job'.attempts = job.attempts
    BY <1>0, <1>5, AfterMarkDone, AfterMarkFailed DEF Working, RunIs, JobIs
  <2>2. reruns = 0 => ~(job.attempts + epoch <= crashes + 1)
    BY <1>0, <2>1 DEF ClaimInv
  <2> QED
    BY <2>1, <2>2, OwnKept
<1>6. ASSUME NEW b \in Batches, BatchStep(b) PROVE OwnInv'
  <2>1. UNCHANGED <<batchOf, epoch, job, run, reruns, crashes>>
    BY <1>6 DEF BatchStep, Retrieve, Store, StoreRefused, Ask, GatherReturns, limits
  <2>2. run.pc = "round" /\ Working
    BY <1>0, <1>6, BatchValues
    DEF BatchInv, BatchStep, Retrieve, Store, StoreRefused, Ask, GatherReturns, BatchIs, Working
  <2>3. CASE tasks' = tasks
    BY <2>1, <2>2, <2>3, OwnKept DEF Working
  <2>5. CASE StoreRefused(b)
    <3>1. tasks' \subseteq tasks
      BY <1>0, <2>5, AfterStoreRefused
    <3> QED
      BY <2>1, <2>2, <3>1, OwnKept DEF Working
  <2>4. CASE Ask(b)
    <3>1. PICK s : tasks' = tasks \cup {Fallback(q) : q \in s}
      BY <1>0, <2>4, AfterAsk
    <3>2. \A t \in tasks' : t \in tasks \/ (t.made = job.made /\ t.attempt = job.attempts)
      BY <3>1 DEF Fallback
    <3>3. run.round # 0
      BY <1>0, <2>2 DEF RunInv
    <3> QED
      BY <2>1, <2>2, <3>2, <3>3 DEF OwnInv, NoRunFailed, Working
  <2> QED
    BY <1>6, <2>3, <2>4, <2>5 DEF BatchStep, Retrieve, Store, GatherReturns
<1>7. CASE FallbackStep \/ \E q \in Questions : EditResponse(q)
  <2>1. UNCHANGED <<batchOf, epoch, job, run, reruns, crashes>> /\ tasks' \subseteq tasks
    BY <1>7 DEF FallbackStep, FallbackStores, FallbackRaises, EditResponse, limits
  <2> QED
    BY <2>1 DEF OwnInv, NoRunFailed, Working
<1>8. CASE StructureRecovered
  <2>1. reruns' # 0
    BY <1>0, <1>8 DEF StructureRecovered
  <2> QED
    BY <2>1 DEF OwnInv, NoRunFailed
<1>9. ASSUME NEW p \in Procs, Crash(p) PROVE OwnInv'
  <2>1. /\ UNCHANGED <<epoch, job, reruns>> /\ crashes' = crashes + 1
        /\ tasks' = {t \in tasks : t.proc # {p}}
    BY <1>0, <1>9, AfterCrash
  <2>2. CASE run.proc = {p} /\ Working
    <3>1. ~Working'
      BY <1>0, <1>9, <2>2, AfterCrash DEF Working, RunIs
    <3>2. ASSUME reruns = 0, job.attempts + epoch <= crashes + 2 PROVE tasks' = {}
      <4>1. NoRunFailed
        BY <1>0, <3>2 DEF NoRunFailed
      <4>2. \A t \in tasks : t.proc = {p}
        BY <1>0, <2>2, <3>2, <4>1 DEF OwnInv, TaskInv
      <4> QED
        BY <2>1, <4>2
    <3> QED
      BY <1>0, <2>1, <3>1, <3>2 DEF OwnInv
  <2>3. CASE structuring = p /\ ~(run.proc = {p} /\ Working)
    <3>1. structuring # "done" /\ run' = run
      BY <1>0, <1>9, <2>3, AfterCrash
    <3> QED
      BY <1>0, <2>1, <3>1 DEF OwnInv, Working
  <2> QED
    BY <1>0, <1>9, <2>2, <2>3, AfterCrash
<1> QED
  BY <1>1, <1>2, <1>3, <1>4, <1>5, <1>6, <1>7, <1>8, <1>9 DEF Next, QueueStep, RunStep

(* What the invariant says of a worker in its first round.                 *)
LEMMA FirstRoundIs ==
    ASSUME EInv, NoRunFailed, run.round = 1
    PROVE  /\ TypeOK /\ Working /\ Current /\ job.status = "claimed" /\ structuring = "done"
           /\ run.pc \in {"round", "count", "succeeding", "failing"}
           /\ \A t \in tasks : /\ resp[t.q] = "none" /\ t \in TasksOf(batchOf[t.q])
                               /\ t.q \in Questions /\ t.proc = run.proc
           /\ run.pc = "round" => \A b \in Batches : \A q \in Open(b) :
                 resp[q] = "none" /\ \A t \in tasks : t.q # q
<1>1. TypeOK /\ RunInv /\ TaskInv /\ AloneInv /\ OnceInv
  BY DEF EInv, GInv, WInv
<1>2. run.pc \in {"round", "count", "succeeding", "failing"}
  BY <1>1, TypeParts, RunFields DEF RunInv, RunPc
<1>3. Working /\ job.status = "claimed" /\ Current /\ structuring = "done"
  BY <1>1, <1>2 DEF RunInv, AloneInv, Working, PastRead, NoRunFailed
<1>4. \A t \in tasks : resp[t.q] = "none" /\ t \in TasksOf(batchOf[t.q]) /\ t.q \in Questions
  BY <1>1, TypeParts DEF OnceInv, Task
<1>5. \A t \in tasks : t.proc = run.proc
  BY <1>1, <1>3, <1>4 DEF TaskInv, TasksOf
<1> QED
  BY <1>1, <1>2, <1>3, <1>4, <1>5 DEF OnceInv

(* What a batch has in hand, or is given, are questions of its own.        *)
LEMMA OpenIsOwn ==
    ASSUME WInv, NEW b \in Batches
    PROVE  \A q \in Open(b) : q \in Questions /\ batchOf[q] = b
<1>1. InBatch(b) \subseteq {q \in Questions : batchOf[q] = b}
  BY TypeParts, RunFields DEF WInv, InBatch
<1>2. Shaped(batch[b], InBatch(b))
  BY DEF WInv, BatchInv
<1> QED
  BY <1>1, <1>2 DEF Open, Shaped

(* Two fallbacks that agree in everything are one.                         *)
LEMMA TaskIsItsFields ==
    ASSUME NEW t \in Task, NEW u \in Task, t.q = u.q, t.asked = u.asked, t.made = u.made,
           t.attempt = u.attempt, t.round = u.round, t.proc = u.proc
    PROVE  t = u
BY DEF Task

(* The open questions of a batch after a step of it.                       *)
LEMMA OpenOfValues ==
    ASSUME NEW b \in Batches
    PROVE  /\ batch'[b] = Failed \/ batch'[b] = NoBatch => Open(b)' = {}
           /\ \A todo, ask : batch'[b] = Staged(todo, ask) => Open(b)' = todo \cup ask
           /\ \A todo : batch'[b] = BatchIs("gather", todo, {}) => Open(b)' = todo
<1>1. \A pc, todo, ask : pc # "retrieve" /\ batch'[b] = BatchIs(pc, todo, ask) => Open(b)' = todo \cup ask
  BY DEF Open, BatchIs
<1>2. \A todo, ask : Staged(todo, ask).pc # "retrieve"
  BY DEF Staged
<1>3. \A todo, ask : batch'[b] = Staged(todo, ask) => Open(b)' = todo \cup ask
  BY <1>2, StagedInHand DEF Open
<1>4. batch'[b] = Failed \/ batch'[b] = NoBatch => Open(b)' = {}
  BY <1>1, BatchValues
<1>5. \A todo : batch'[b] = BatchIs("gather", todo, {}) => Open(b)' = todo
  BY <1>1
<1> QED
  BY <1>3, <1>4, <1>5

InNoHand(q) == (\A b \in Batches : q \notin Open(b)) /\ (\A t \in tasks : t.q # q)

(* A step of the batches and fallbacks of the first round: whatever is     *)
(* answered is in no hand any more.                                        *)
LEMMA OnceKept ==
    ASSUME EInv, UNCHANGED <<batchOf, epoch, run, job, reruns, crashes>>, NoRunFailed, run.round = 1,
           \A q \in Questions : resp[q] = "none" => resp'[q] = "none" \/ InNoHand(q)',
           tasks' \subseteq tasks,
           \A b \in Batches : Open(b)' \subseteq Open(b)
    PROVE  OnceInv'
<1>1. SUFFICES /\ \A t \in tasks' : resp'[t.q] = "none" /\ t \in TasksOf(batchOf[t.q])'
               /\ run.pc = "round" => \A b \in Batches : \A q \in Open(b)' :
                     resp'[q] = "none" /\ \A t \in tasks' : t.q # q
  BY DEF OnceInv, NoRunFailed
<1>2. ASSUME NEW t \in tasks' PROVE resp'[t.q] = "none" /\ t \in TasksOf(batchOf[t.q])'
  <2>1. t \in tasks /\ t.q \in Questions /\ resp[t.q] = "none" /\ t \in TasksOf(batchOf[t.q])
    BY FirstRoundIs
  <2> QED
    BY <2>1 DEF TasksOf, InNoHand
<1>3. ASSUME run.pc = "round", NEW b \in Batches, NEW q \in Open(b)'
      PROVE  resp'[q] = "none" /\ \A t \in tasks' : t.q # q
  <2>1. q \in Open(b)
    OBVIOUS
  <2>2. q \in Questions /\ resp[q] = "none" /\ \A t \in tasks : t.q # q
    BY <1>3, <2>1, FirstRoundIs, OpenIsOwn DEF EInv, GInv
  <2> QED
    BY <1>3, <2>2 DEF InNoHand
<1> QED
  BY <1>2, <1>3

(* A step of a batch in the first round.                                   *)
LEMMA OnceOfBatch ==
    ASSUME EInv, NoRunFailed, run.round = 1, NEW b \in Batches, BatchStep(b)
    PROVE  OnceInv'
<1>0. TypeOK /\ WInv /\ Shaped(batch[b], InBatch(b))
  BY FirstRoundIs DEF EInv, GInv, WInv, BatchInv
<1>1. UNCHANGED <<batchOf, epoch, run, job, reruns, crashes>>
  BY DEF BatchStep, Retrieve, Store, StoreRefused, Ask, GatherReturns, limits
<1>2. run.pc = "round"
  BY <1>0, BatchValues
  DEF WInv, BatchInv, BatchStep, Retrieve, Store, StoreRefused, Ask, GatherReturns, BatchIs
<1>3. \A c \in Batches \ {b} : Open(c)' = Open(c)
  <2>1. \A c \in Batches \ {b} : batch'[c] = batch[c]
    BY <1>0, AfterRetrieve, AfterStore, AfterStoreRefused, AfterAsk, AfterGatherReturns
    DEF BatchStep
  <2> QED
    BY <1>1, <2>1 DEF Open, InBatch
<1>4. \A c \in Batches : \A q \in Open(c) : q \in Questions /\ batchOf[q] = c
  BY <1>0, OpenIsOwn
<1>5. CASE Retrieve(b)
  <2>1. Open(b) = InBatch(b) /\ resp' = resp /\ tasks' = tasks
    BY <1>0, <1>5, AfterRetrieve DEF Open
  <2>2. Open(b)' \subseteq Open(b)
    <3>1. CASE batch'[b] = Failed
      BY <3>1, OpenOfValues
    <3>2. ASSUME NEW gaps \in SUBSET InBatch(b), batch'[b] = Staged(gaps, InBatch(b) \ gaps)
          PROVE  Open(b)' \subseteq Open(b)
      <4>1. Open(b)' = gaps \cup (InBatch(b) \ gaps)
        BY <3>2, OpenOfValues
      <4> QED
        BY <2>1, <4>1
    <3> QED
      BY <1>0, <1>5, <3>1, <3>2, AfterRetrieve
  <2> QED
    BY <1>1, <1>3, <2>1, <2>2, OnceKept
<1>6. CASE Store(b)
  <2>1. Open(b) = batch[b].todo \cup batch[b].ask /\ tasks' = tasks
    BY <1>0, <1>6, AfterStore DEF Open
  <2>2. PICK q \in Questions \cap batch[b].todo :
           /\ resp'[q] = "ai" /\ \A r \in Questions \ {q} : resp'[r] = resp[r]
           /\ batch'[b] = Staged(batch[b].todo \ {q}, batch[b].ask)
    BY <1>0, <1>6, AfterStore, FirstRoundIs
  <2>3. Open(b)' = Open(b) \ {q}
    BY <1>0, <2>1, <2>2, OpenOfValues DEF Shaped
  <2>4. InNoHand(q)'
    <3>1. \A c \in Batches : q \notin Open(c)'
      BY <1>3, <1>4, <2>1, <2>2, <2>3
    <3>2. \A t \in tasks : t.q # q
      BY <1>2, <2>1, FirstRoundIs
    <3> QED
      BY <2>1, <3>1, <3>2 DEF InNoHand
  <2> QED
    BY <1>1, <1>3, <2>1, <2>2, <2>3, <2>4, OnceKept
<1>9. CASE StoreRefused(b)
  <2>1. PICK t \in tasks : t.q \in batch[b].todo
    BY <1>0, <1>9, AfterStoreRefused
  <2>2. t.q \in Open(b)
    BY <1>0, <1>9, <2>1, AfterStoreRefused DEF Open
  <2> QED
    BY <1>2, <2>1, <2>2, FirstRoundIs
<1>7. CASE Ask(b)
  <2>1. Open(b) = batch[b].ask /\ resp' = resp
    BY <1>0, <1>7, AfterAsk DEF Open, Shaped
  <2>2. PICK s \in SUBSET batch[b].ask :
           /\ \/ s = {} /\ batch'[b] = Staged(batch[b].ask, {})
              \/ batch'[b] = BatchIs("gather", batch[b].ask \ s, {})
           /\ tasks' = tasks \cup {Fallback(q) : q \in s}
    BY <1>0, <1>7, AfterAsk
  <2>3. Open(b)' = batch[b].ask \ s
    <3>1. CASE s = {} /\ batch'[b] = Staged(batch[b].ask, {})
      <4>1. Open(b)' = batch[b].ask \cup {}
        BY <3>1, OpenOfValues
      <4> QED
        BY <3>1, <4>1
    <3>2. CASE batch'[b] = BatchIs("gather", batch[b].ask \ s, {})
      BY <3>2, OpenOfValues
    <3> QED
      BY <2>2, <3>1, <3>2
  <2>4. ASSUME NEW t \in tasks'
        PROVE  /\ resp[t.q] = "none" /\ t \in TasksOf(batchOf[t.q])'
               /\ t \in tasks \/ t.q \in s
    <3>1. CASE t \in tasks
      <4>1. resp[t.q] = "none" /\ t \in TasksOf(batchOf[t.q])
        BY <3>1, FirstRoundIs
      <4> QED
        BY <1>1, <3>1, <4>1 DEF TasksOf
    <3>2. ASSUME NEW q \in s, t = Fallback(q) PROVE t.q = q /\ t \in TasksOf(batchOf[t.q])'
      <4>1. /\ t.q = q /\ t.asked = run.asked /\ t.made = job.made
            /\ t.attempt = job.attempts /\ t.round = run.round
        BY <3>2 DEF Fallback
      <4> QED
        BY <1>1, <4>1 DEF TasksOf
    <3>3. \A q \in s : resp[q] = "none"
      BY <1>2, <2>1, <2>2, FirstRoundIs
    <3> QED
      BY <2>2, <3>1, <3>2, <3>3
  <2>5. ASSUME NEW c \in Batches, NEW q \in Open(c)'
        PROVE  resp[q] = "none" /\ \A t \in tasks' : t.q # q
    <3>1. q \in Open(c) /\ q \notin s
      BY <1>3, <1>4, <2>1, <2>2, <2>3
    <3>2. resp[q] = "none" /\ \A t \in tasks : t.q # q
      BY <1>2, <3>1, FirstRoundIs
    <3> QED
      BY <2>4, <3>1, <3>2
  <2> QED
    BY <2>1, <2>4, <2>5 DEF OnceInv
<1>8. CASE GatherReturns(b)
  <2>1. Open(b)' \subseteq Open(b) /\ resp' = resp /\ tasks' = tasks
    BY <1>0, <1>8, AfterGatherReturns, OpenOfValues DEF Open
  <2> QED
    BY <1>1, <1>3, <2>1, OnceKept
<1> QED
  BY <1>5, <1>6, <1>7, <1>8, <1>9 DEF BatchStep

(* A step of a fallback in the first round: no other has its question.     *)
LEMMA OnceOfFallback ==
    ASSUME EInv, NoRunFailed, run.round = 1, NEW t \in tasks, FallbackStores(t) \/ FallbackRaises(t)
    PROVE  OnceInv'
<1>0. TypeOK /\ WInv /\ tasks \subseteq Task
  BY FirstRoundIs, TypeParts DEF EInv, GInv
<1>1. UNCHANGED <<batchOf, epoch, run, job, reruns, crashes>> /\ tasks' = tasks \ {t}
  BY DEF FallbackStores, FallbackRaises, limits
<1>2. CASE FallbackStores(t)
  <2>1. /\ t.q \in Questions /\ batch' = batch
        /\ \A r \in Questions \ {t.q} : resp'[r] = resp[r]
    BY <1>0, <1>2, AfterFallbackStores
  <2>2. \A b \in Batches : Open(b)' = Open(b)
    BY <1>1, <2>1 DEF Open, InBatch
  <2>3. ASSUME NEW u \in tasks, u.q = t.q PROVE u = t
    <3>1. /\ t \in TasksOf(batchOf[t.q]) /\ t.proc = run.proc
          /\ u \in TasksOf(batchOf[t.q]) /\ u.proc = run.proc
      BY <2>3, FirstRoundIs
    <3> QED
      BY <1>0, <2>3, <3>1, TaskIsItsFields DEF TasksOf
  <2>4. CASE run.pc = "round"
    <3>1. InNoHand(t.q)'
      BY <1>1, <2>2, <2>3, <2>4, FirstRoundIs DEF InNoHand
    <3> QED
      BY <1>1, <2>1, <2>2, <3>1, OnceKept
  <2>5. CASE run.pc # "round"
    <3>1. \A u \in tasks' : resp'[u.q] = "none" /\ u \in TasksOf(batchOf[u.q])'
      <4>1. SUFFICES ASSUME NEW u \in tasks'
                     PROVE  resp'[u.q] = "none" /\ u \in TasksOf(batchOf[u.q])'
        OBVIOUS
      <4>2. u \in tasks /\ u.q # t.q
        BY <1>1, <2>3, <4>1
      <4>3. u.q \in Questions /\ resp[u.q] = "none" /\ u \in TasksOf(batchOf[u.q])
        BY <4>2, FirstRoundIs
      <4> QED
        BY <1>1, <2>1, <4>1, <4>2, <4>3 DEF TasksOf
    <3> QED
      BY <1>1, <2>5, <3>1 DEF OnceInv
  <2> QED
    BY <2>4, <2>5
<1>3. CASE FallbackRaises(t)
  <2>1. resp' = resp
    BY <1>3 DEF FallbackRaises
  <2>2. \A b \in Batches : batch'[b] = batch[b] \/ batch'[b] = Failed
    BY <1>0, <1>3, AfterFallbackRaises
  <2>3. \A b \in Batches : Open(b)' \subseteq Open(b)
    <3>1. \A b \in Batches : batch'[b] = batch[b] => Open(b)' = Open(b)
      BY <1>1 DEF Open, InBatch
    <3>2. \A b \in Batches : batch'[b] = Failed => Open(b)' = {}
      BY OpenOfValues
    <3> QED
      BY <2>2, <3>1, <3>2
  <2> QED
    BY <1>1, <2>1, <2>3, OnceKept
<1> QED
  BY <1>2, <1>3

(* Every step.                                                             *)
LEMMA OnceInvNext ==
    ASSUME EInv, Next
    PROVE  OnceInv'
<1>0. /\ TypeOK /\ RunInv /\ reruns \in Nat
      /\ Working => job.status = "claimed"
      /\ "queued" \notin Procs /\ "done" \notin Procs
      /\ reruns = 0 /\ structuring # "done" => job.status = "none"
  BY TypeParts, GenerateAssumption DEF EInv, GInv, WInv, RunInv, AloneInv
<1>1. ASSUME NoRunFailed' => run'.round = 0 PROVE OnceInv'
  BY <1>1 DEF OnceInv
<1>2. CASE (\E p \in Procs : Structure(p)) \/ StructureEnqueues
  <2>1. structuring # "done" /\ UNCHANGED <<batchOf, run, reruns>>
    BY <1>0, <1>2 DEF Structure, StructureEnqueues, limits
  <2> QED
    BY <1>0, <1>1, <2>1 DEF NoRunFailed, RunInv, Working
<1>3. ASSUME NEW p \in Procs, Claim(p) PROVE OnceInv'
  BY <1>0, <1>1, <1>3, AfterClaim DEF RunIs
<1>4. CASE Recover
  BY <1>0, <1>1, <1>4, AfterRecover DEF RunInv, Working
<1>5. CASE ReadQuestions
  BY <1>0, <1>1, <1>5, AfterReadQuestions DEF RunInv, RunIs
<1>6. CASE ReadAnswered
  <2>1. Current' = Current /\ UNCHANGED <<resp, tasks>> /\ run.round = 0
    BY <1>0, <1>6, AfterReadAnswered DEF Current, RunIs, RunInv
  <2>2. NoRunFailed' = NoRunFailed /\ (NoRunFailed => tasks = {} /\ Current)
    <3>1. NoRunFailed' = NoRunFailed
      BY <1>0, <1>6, AfterReadAnswered DEF NoRunFailed
    <3>2. Working /\ PastRead
      BY <1>0, <1>6, AfterReadAnswered DEF Working, PastRead
    <3> QED
      BY <2>1, <3>1, <3>2 DEF EInv, OwnInv, GInv, AloneInv, NoRunFailed
  <2>3. ASSUME NoRunFailed, NEW s \in SUBSET Questions,
               s = {q \in Questions : Current => resp[q] = "none"},
               run' = RunIs("round", run.proc, run.asked, s, 1, run.failed),
               batchOf' \in [Questions -> Batches], batch' = Retrieving(batchOf', s)
        PROVE  OnceInv'
    <3>1. \A b \in Batches : Open(b)' \subseteq s
      <4>1. run'.pending = s /\ \A b \in Batches : InBatch(b)' \subseteq run'.pending
        BY <2>3 DEF RunIs, InBatch
      <4>2. \A b \in Batches : batch'[b] = BatchIs("retrieve", {}, {}) \/ batch'[b] = NoBatch
        BY <2>3, BatchValues DEF Retrieving
      <4> QED
        BY <4>1, <4>2, BatchValues DEF Open, BatchIs
    <3> QED
      BY <2>1, <2>2, <2>3, <3>1 DEF OnceInv
  <2>4. CASE run'.round = 0
    BY <1>1, <2>4
  <2>5. CASE ~NoRunFailed
    BY <2>2, <2>5 DEF OnceInv
  <2> QED
    BY <1>0, <1>6, <2>1, <2>3, <2>4, <2>5, AfterReadAnswered DEF RunIs
<1>7. CASE RoundEnds
  <2>1. /\ run'.pc = "count" \/ run'.round = 2
        /\ run'.asked = run.asked
        /\ run'.round = run.round \/ run'.round = 2
        /\ UNCHANGED <<batchOf, epoch, resp, job, tasks, reruns, crashes>>
    BY <1>0, <1>7, AfterRoundEnds DEF RunIs
  <2> QED
    BY <2>1 DEF EInv, OnceInv, NoRunFailed, TasksOf
<1>8. CASE Count
  <2>1. /\ run'.pc \in {"succeeding", "failing"} /\ run'.asked = run.asked /\ run'.round = run.round
        /\ UNCHANGED <<batchOf, epoch, resp, job, tasks, reruns, crashes>>
    BY <1>0, <1>8, AfterCount DEF RunIs
  <2> QED
    BY <2>1 DEF EInv, OnceInv, NoRunFailed, TasksOf
<1>9. CASE MarkDone \/ MarkFailed
  BY <1>0, <1>1, <1>9, AfterMarkDone, AfterMarkFailed DEF RunIs
<1>10. CASE (\E b \in Batches : BatchStep(b)) \/ FallbackStep
  <2>1. UNCHANGED <<batchOf, epoch, run, job, reruns, crashes>>
    BY <1>10 DEF BatchStep, Retrieve, Store, StoreRefused, Ask, GatherReturns, FallbackStep, FallbackStores,
                 FallbackRaises, limits
  <2>2. CASE NoRunFailed /\ run.round = 1
    BY <1>10, <2>2, OnceOfBatch, OnceOfFallback DEF FallbackStep
  <2>3. CASE ~(NoRunFailed /\ run.round = 1)
    BY <2>1, <2>3 DEF OnceInv, NoRunFailed
  <2> QED
    BY <2>2, <2>3
<1>11. CASE StructureRecovered
  <2>1. reruns' # 0
    BY <1>0, <1>11 DEF StructureRecovered
  <2> QED
    BY <2>1 DEF OnceInv, NoRunFailed
<1>12. ASSUME NEW r \in Questions, EditResponse(r) PROVE OnceInv'
  <2>1. /\ resp[r] # "none" /\ \A q \in Questions \ {r} : resp'[q] = resp[q]
        /\ UNCHANGED <<batchOf, epoch, job, run, batch, tasks, reruns, crashes>>
    BY <1>0, <1>12, AfterEditResponse
  <2>2. CASE NoRunFailed /\ run.round = 1
    <3>1. \A q \in Questions : resp[q] = "none" => resp'[q] = "none"
      BY <2>1
    <3>2. \A b \in Batches : Open(b)' = Open(b)
      BY <2>1 DEF Open, InBatch
    <3> QED
      BY <2>1, <2>2, <3>1, <3>2, OnceKept
  <2>3. CASE ~(NoRunFailed /\ run.round = 1)
    BY <2>1, <2>3 DEF OnceInv, NoRunFailed
  <2> QED
    BY <2>2, <2>3
<1>13. ASSUME NEW p \in Procs, Crash(p) PROVE OnceInv'
  <2>1. CASE run'.round = 0
    BY <1>1, <2>1
  <2>2. CASE structuring = p /\ run' = run
    <3>1. reruns = 0 => ~Working
      BY <1>0, <2>2
    <3>2. UNCHANGED reruns
      BY <1>0, <1>13, AfterCrash
    <3> QED
      BY <1>0, <1>1, <2>2, <3>1, <3>2 DEF NoRunFailed, RunInv, Working
  <2> QED
    BY <1>0, <1>13, <2>1, <2>2, AfterCrash DEF RunIs
<1> QED
  BY <1>2, <1>3, <1>4, <1>5, <1>6, <1>7, <1>8, <1>9, <1>10, <1>11, <1>12, <1>13
  DEF Next, QueueStep, RunStep

(* The invariant of the edits.                                             *)
LEMMA EInvInit == Init => EInv
<1>1. Init => GInv
  BY GInvInit
<1>2. ASSUME Init PROVE ClaimInv /\ OwnInv /\ OnceInv
  BY <1>2, GenerateAssumption DEF Init, Idle, ClaimInv, OwnInv, OnceInv, NoRunFailed, Working
<1> QED
  BY <1>1, <1>2 DEF EInv

LEMMA EInvStep == EInv /\ [Next]_vars => EInv'
<1>1. EInv /\ Next => EInv'
  BY GInvStep, ClaimInvNext, OwnInvNext, OnceInvNext DEF EInv
<1>2. ASSUME EInv, UNCHANGED vars PROVE EInv'
  <2>1. GInv'
    BY <1>2, GInvStep DEF EInv
  <2>2. UNCHANGED <<batchOf, structuring, epoch, resp, job, run, batch, tasks, reruns, crashes>>
    BY <1>2 DEF vars, limits
  <2>3. ClaimInv' /\ OwnInv'
    BY <1>2, <2>2 DEF EInv, ClaimInv, OwnInv, NoRunFailed, Working
  <2>4. OnceInv'
    BY <1>2, <2>2 DEF EInv, OnceInv, NoRunFailed, TasksOf, Open, InBatch
  <2> QED
    BY <2>1, <2>3, <2>4 DEF EInv
<1> QED
  BY <1>1, <1>2

\* The step property of EditsLostToRetriesOnly.
EditLost(q) == resp[q] = "edited" /\ resp'[q] = "ai"

EditStep == NoRunFailed => \A q \in Questions : EditLost(q) =>
                run.round = 2 \/ \E t \in tasks : t.q = q /\ t \notin TasksOf(batchOf[q])

LEMMA EditStepHolds == EInv /\ [Next]_vars => EditStep
<1> SUFFICES ASSUME EInv, [Next]_vars, NoRunFailed, NEW q \in Questions, EditLost(q), run.round # 2
             PROVE  \E t \in tasks : t.q = q /\ t \notin TasksOf(batchOf[q])
  BY DEF EditStep
<1>0. TypeOK /\ RunInv /\ BatchInv /\ tasks \subseteq Task
  BY TypeParts DEF EInv, GInv, WInv
<1>1. CASE resp' = resp \/ \E p \in Procs : Structure(p)
  BY <1>1 DEF EditLost, Structure
<1>2. ASSUME NEW r \in Questions, EditResponse(r) PROVE FALSE
  BY <1>0, <1>2, AfterEditResponse DEF EditLost
<1>3. ASSUME NEW b \in Batches, Store(b) PROVE FALSE
  <2>1. run.pc = "round"
    BY <1>3, <1>0, BatchValues DEF BatchInv, Store, BatchIs
  <2>2. run.round = 1
    BY <1>0, <2>1, TypeParts, RunFields DEF RunInv
  <2>3. q \in batch[b].todo /\ batch[b].pc = "store"
    BY <1>0, <1>3, AfterStore DEF EditLost
  <2>4. q \in Open(b)
    BY <2>3 DEF Open
  <2> QED
    BY <2>1, <2>2, <2>4, FirstRoundIs DEF EditLost
<1>5. ASSUME NEW b \in Batches, StoreRefused(b) PROVE FALSE
  BY <1>0, <1>5, AfterStoreRefused DEF EditLost
<1>4. ASSUME NEW t \in tasks, FallbackStores(t)
      PROVE  \E u \in tasks : u.q = q /\ u \notin TasksOf(batchOf[q])
  <2>1. t.q = q
    BY <1>0, <1>4, AfterFallbackStores DEF EditLost
  <2>2. t.round \in {1, 2}
    BY <1>0 DEF Task
  <2>3. CASE run.round = 1
    BY <2>1, <2>3, FirstRoundIs DEF EditLost
  <2>4. CASE run.round # 1
    BY <2>1, <2>2, <2>4 DEF TasksOf
  <2> QED
    BY <2>3, <2>4
<1> QED
  BY <1>1, <1>2, <1>3, <1>4, <1>5
  DEF Next, QueueStep, RunStep, FallbackStep, BatchStep, Claim, StructureEnqueues, Recover,
      ReadQuestions, ReadAnswered, RoundEnds, Count, MarkDone, MarkFailed, FallbackRaises,
      Retrieve, Ask, GatherReturns, StructureRecovered, Crash, vars

(* As long as no run has failed, whatever crashed, an edit is lost only to *)
(* the retry of a batch or to a fallback left over from one.               *)
THEOREM EditsLostOnlyToRetries == Spec => EditsLostToRetriesOnly
<1>1. EInv /\ [Next]_vars
        => [NoRunFailed => \A q \in Questions : resp[q] = "edited" /\ resp'[q] = "ai" =>
               run.round = 2 \/ \E t \in tasks : t.q = q /\ t \notin TasksOf(batchOf[q])]_vars
  BY EditStepHolds DEF EditStep, EditLost
<1> QED
  BY <1>1, EInvInit, EInvStep, PTL DEF Spec, EditsLostToRetriesOnly

=============================================================================
