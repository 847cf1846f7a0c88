------------------------ MODULE JobQueueOrderProofs ------------------------
(***************************************************************************)
(* Proofs about the order in which the queue runs a document's stages and  *)
(* about the status it leaves on the document, when no worker outlives its *)
(* lease (SlowStages = {}).  What a crash or a second process disturbs is  *)
(* proved without them: the runs of TLC show how each of them breaks it.   *)
(***************************************************************************)
EXTENDS JobQueueWorkerProofs

-----------------------------------------------------------------------------
(* The effects of the steps, without EXCEPT: what each one makes of the    *)
(* rows, the documents, the calls and the tasks.                           *)

SameKeys ==
    /\ Ids \subseteq Ids'
    /\ \A j \in Ids : jobs'[j].doc = jobs[j].doc /\ jobs'[j].stage = jobs[j].stage

RowsKept ==
    Ids' = Ids /\ SameKeys /\ \A j \in Ids : jobs'[j].status = jobs[j].status

RowsCleared(d) ==
    /\ Ids' = Ids /\ SameKeys
    /\ \A j \in Ids : jobs'[j].status = IF jobs[j].doc = d THEN "deleted" ELSE jobs[j].status

RowsRecovered ==
    /\ Ids' = Ids /\ SameKeys
    /\ \A j \in Ids : \/ jobs'[j].status = jobs[j].status
                      \/ /\ jobs[j].status = "claimed" /\ ~Worked(j)
                         /\ jobs'[j].status = "pending"

RowsClaimed ==
    /\ Ids' = Ids /\ SameKeys
    /\ \A j \in Ids \ Claimable : jobs'[j].status = jobs[j].status
    /\ \A j \in Claimable : /\ j \in Ids /\ jobs[j].status = "pending"
                            /\ jobs'[j].status = "claimed"

\* The row j, when it is there, becomes s.
RowPut(j, s) ==
    /\ Ids' = Ids /\ SameKeys
    /\ \A k \in Ids : jobs'[k].status = IF k = j /\ Exists(j) THEN s ELSE jobs[k].status

RowAdded(d, s) ==
    /\ SameKeys
    /\ \A j \in Ids : jobs'[j].status = jobs[j].status
    /\ \/ Ids' = Ids /\ LiveRow(d, s)
       \/ /\ ~LiveRow(d, s)
          /\ \E n : /\ n \notin Ids /\ Ids' = Ids \cup {n}
                    /\ jobs'[n].doc = d /\ jobs'[n].stage = s /\ jobs'[n].status = "pending"

DocIs(d, s) ==
    \A e \in Docs : docs'[e] = IF e = d /\ docs[d] # "gone" THEN s ELSE docs[e]

CallIs(c, pc, todo) ==
    /\ call'[c].pc = pc /\ call'[c].todo = todo
    /\ \A e \in Calls \ {c} : call'[e] = call[e]

TaskAt(c, j, pc) ==
    /\ \A e \in Calls : DOMAIN task'[e] = DOMAIN task[e]
    /\ task'[c][j].pc = pc
    /\ \A e \in Calls : \A k \in DOMAIN task[e] :
          ~(e = c /\ k = j) => task'[e][k].pc = task[e][k].pc

TasksEmptied(c) ==
    DOMAIN task'[c] = {} /\ \A e \in Calls \ {c} : task'[e] = task[e]

-----------------------------------------------------------------------------
(* Lemmas: the writes of the table. *)

(* A table that is left alone.                                             *)
LEMMA RowsLeftAlone ==
    ASSUME jobs' = jobs
    PROVE  RowsKept /\ SameKeys /\ Ids' = Ids
BY DEF RowsKept, SameKeys, Ids

(* DELETE FROM jobs WHERE document_id = d.                                 *)
LEMMA ClearedByDelete ==
    ASSUME TypeOK, NEW d \in Docs, jobs' = RowsDeleted(d)
    PROVE  RowsCleared(d)
<1>1. /\ DOMAIN jobs' = Ids
      /\ \A k \in Ids : /\ jobs[k].doc # d => jobs'[k] = jobs[k]
                        /\ jobs[k].doc = d => jobs'[k].status = "deleted"
                        /\ jobs'[k].doc = jobs[k].doc /\ jobs'[k].stage = jobs[k].stage
  BY RowsDeletedTable DEF TypeOK
<1> QED
  BY <1>1 DEF RowsCleared, SameKeys, Ids

(* enqueue_job().                                                          *)
LEMMA AddedByInsert ==
    ASSUME TypeOK, NEW d \in Docs, NEW s \in Stages, jobs' = Inserted(d, s)
    PROVE  RowAdded(d, s)
<1> DEFINE row == [doc |-> d, stage |-> s, status |-> "pending",
                   attempts |-> 0, lease |-> "none", due |-> TRUE]
<1>1. CASE LiveRow(d, s)
  <2>1. jobs' = jobs
    BY <1>1 DEF Inserted
  <2> QED
    BY <1>1, <2>1, RowsLeftAlone DEF RowAdded, RowsKept
<1>2. CASE ~LiveRow(d, s)
  <2>1. jobs' = Append(jobs, row)
    BY <1>2 DEF Inserted
  <2>2. row \in Row /\ row.doc = d /\ row.stage = s /\ row.status = "pending"
    BY DEF Row, RowStatus
  <2> HIDE DEF row
  <2>3. /\ Ids' = Ids \cup {Len(jobs) + 1}
        /\ \A k \in Ids : jobs'[k] = jobs[k]
        /\ jobs'[Len(jobs) + 1] = row
    BY <2>1, <2>2, TableAppend DEF TypeOK, Ids
  <2>4. Len(jobs) + 1 \notin Ids
    BY DEF TypeOK, Ids
  <2>5. SameKeys /\ \A j \in Ids : jobs'[j].status = jobs[j].status
    BY <2>3 DEF SameKeys
  <2>6. \E n : /\ n \notin Ids /\ Ids' = Ids \cup {n}
               /\ jobs'[n].doc = d /\ jobs'[n].stage = s /\ jobs'[n].status = "pending"
    BY <2>2, <2>3, <2>4
  <2> QED
    BY <1>2, <2>5, <2>6 DEF RowAdded
<1> QED
  BY <1>1, <1>2

(* UPDATE of one row, or of none when it is gone.                          *)
LEMMA PutByUpdate ==
    ASSUME TypeOK, NEW j \in Ids, NEW r \in Row,
           r.doc = jobs[j].doc, r.stage = jobs[j].stage,
           jobs' = IF Exists(j) THEN [jobs EXCEPT ![j] = r] ELSE jobs
    PROVE  RowPut(j, r.status)
<1>1. CASE ~Exists(j)
  <2>1. jobs' = jobs
    BY <1>1
  <2> QED
    BY <1>1, <2>1, RowsLeftAlone DEF RowPut, RowsKept
<1>2. CASE Exists(j)
  <2>1. Ids' = Ids /\ \A k \in Ids : jobs'[k] = IF k = j THEN r ELSE jobs[k]
    BY <1>2, TableUpdate DEF TypeOK, Ids
  <2> QED
    BY <1>2, <2>1 DEF RowPut, SameKeys
<1> QED
  BY <1>1, <1>2

(* A write of a row's lease or backoff.                                    *)
LEMMA KeptByUpdate ==
    ASSUME TypeOK, NEW j \in Ids, NEW r \in Row, jobs' = [jobs EXCEPT ![j] = r],
           r.doc = jobs[j].doc, r.stage = jobs[j].stage, r.status = jobs[j].status
    PROVE  RowsKept
<1>1. Ids' = Ids /\ \A k \in Ids : jobs'[k] = IF k = j THEN r ELSE jobs[k]
  BY TableUpdate DEF TypeOK, Ids
<1> QED
  BY <1>1 DEF RowsKept, SameKeys

(* UPDATE documents SET processing_status.                                 *)
LEMMA SetByUpdate ==
    ASSUME TypeOK, NEW d, NEW s, docs' = StatusSet(d, s)
    PROVE  DocIs(d, s)
<1>1. CASE docs[d] = "gone"
  BY <1>1 DEF DocIs, StatusSet
<1>2. CASE docs[d] # "gone"
  BY <1>2 DEF DocIs, StatusSet, TypeOK
<1> QED
  BY <1>1, <1>2

(* A jump of one call.                                                     *)
LEMMA CallGoes ==
    ASSUME TypeOK, NEW c \in Calls, NEW pc, Goto(c, pc)
    PROVE  CallIs(c, pc, call[c].todo)
<1>1. call[c] \in CallRecord /\ DOMAIN call = Calls
  BY TypeParts
<1>2. call' = [call EXCEPT ![c] = [call[c] EXCEPT !.pc = pc]]
  BY DEF Goto
<1>3. LET r == [call[c] EXCEPT !.pc = pc] IN r.pc = pc /\ r.todo = call[c].todo
  BY <1>1 DEF CallRecord
<1> QED
  BY <1>1, <1>2, <1>3 DEF CallIs

(* A jump of one task.                                                     *)
LEMMA TaskGoes ==
    ASSUME TypeOK, NEW c \in Calls, NEW j, Active(c, j), NEW pc \in TaskPc, TaskGoto(c, j, pc)
    PROVE  TaskAt(c, j, pc)
<1>1. TasksOK /\ j \in DOMAIN task[c]
  BY ActiveIds, TypeParts
<1>2. \A e \in Calls : /\ DOMAIN task'[e] = DOMAIN task[e]
                       /\ \A k \in DOMAIN task[e] :
                            task'[e][k] = IF e = c /\ k = j
                                          THEN [pc |-> pc, attempts |-> task[c][j].attempts]
                                          ELSE task[e][k]
  BY <1>1, TaskGotoEffect
<1>3. task'[c][j] = [pc |-> pc, attempts |-> task[c][j].attempts]
  BY <1>1, <1>2
<1>4. \A e \in Calls : \A k \in DOMAIN task[e] :
         ~(e = c /\ k = j) => task'[e][k] = task[e][k]
  BY <1>2
<1> QED
  BY <1>2, <1>3, <1>4 DEF TaskAt

(* A call that forgets its tasks.                                          *)
LEMMA TasksGo ==
    ASSUME TypeOK, NEW c \in Calls, task' = [task EXCEPT ![c] = NoTask]
    PROVE  TasksEmptied(c)
BY NoTaskType DEF TypeOK, TasksEmptied

-----------------------------------------------------------------------------
(* Lemmas: the steps. *)

(* documents_process() clears the rows ...                                 *)
LEMMA AfterProcessDelete ==
    ASSUME TypeOK, NEW c \in Calls, NEW d \in Docs, ProcessDelete(c, d)
    PROVE  /\ call[c].pc = "idle" /\ LoopFree(Home[c]) /\ docs[d] # "gone"
           /\ processed'[d] = processed[d] + 1
           /\ \A e \in Docs \ {d} : processed'[e] = processed[e]
           /\ RowsCleared(d) /\ CallIs(c, "enqueue_ingest", {d})
           /\ UNCHANGED <<docs, task, crashes>>
<1>1. call[c] \in CallRecord /\ DOMAIN call = Calls /\ DOMAIN processed = Docs
  BY TypeParts
<1>2. call' = [call EXCEPT ![c] = [call[c] EXCEPT !.pc = "enqueue_ingest", !.todo = {d}]]
  BY DEF ProcessDelete
<1>3. LET r == [call[c] EXCEPT !.pc = "enqueue_ingest", !.todo = {d}]
      IN  r.pc = "enqueue_ingest" /\ r.todo = {d}
  BY <1>1 DEF CallRecord
<1>4. CallIs(c, "enqueue_ingest", {d})
  BY <1>1, <1>2, <1>3 DEF CallIs
<1>5. processed' = [processed EXCEPT ![d] = processed[d] + 1]
  BY DEF ProcessDelete
<1>6. RowsCleared(d)
  BY ClearedByDelete DEF ProcessDelete
<1> QED
  BY <1>1, <1>4, <1>5, <1>6 DEF ProcessDelete

(* ... queues the ingest stage, or finds the document gone ...             *)
LEMMA AfterProcessEnqueue ==
    ASSUME TypeOK, NEW c \in Calls, ProcessEnqueue(c)
    PROVE  /\ call[c].pc = "enqueue_ingest"
           /\ UNCHANGED <<docs, task, processed, crashes>>
           /\ \E d \in Docs :
                 /\ d \in call[c].todo
                 /\ \/ docs[d] = "gone" /\ RowsKept /\ CallIs(c, "idle", {})
                    \/ /\ docs[d] # "gone" /\ RowAdded(d, "ingest")
                       /\ CallIs(c, "set_queued", call[c].todo)
<1>1. PICK d \in call[c].todo :
        \/ docs[d] = "gone" /\ call' = [call EXCEPT ![c] = IdleCall] /\ jobs' = jobs
        \/ docs[d] # "gone" /\ jobs' = Inserted(d, "ingest") /\ Goto(c, "set_queued")
  BY DEF ProcessEnqueue
<1>2. d \in Docs /\ "ingest" \in Stages /\ DOMAIN call = Calls
  BY TypeParts DEF Stages, TypeOK
<1>3. CASE docs[d] = "gone" /\ call' = [call EXCEPT ![c] = IdleCall] /\ jobs' = jobs
  <2>1. IdleCall.pc = "idle" /\ IdleCall.todo = {}
    BY DEF IdleCall
  <2>2. CallIs(c, "idle", {})
    BY <1>2, <1>3, <2>1 DEF CallIs
  <2> QED
    BY <1>1, <1>2, <1>3, <2>2, RowsLeftAlone DEF ProcessEnqueue
<1>4. CASE docs[d] # "gone" /\ jobs' = Inserted(d, "ingest") /\ Goto(c, "set_queued")
  <2>1. RowAdded(d, "ingest") /\ CallIs(c, "set_queued", call[c].todo)
    BY <1>2, <1>4, AddedByInsert, CallGoes
  <2> QED
    BY <1>1, <1>2, <1>4, <2>1 DEF ProcessEnqueue
<1> QED
  BY <1>1, <1>3, <1>4

(* ... and sets the status of the document.                                *)
LEMMA AfterProcessSetQueued ==
    ASSUME TypeOK, NEW c \in Calls, ProcessSetQueued(c)
    PROVE  /\ call[c].pc = "set_queued"
           /\ RowsKept /\ CallIs(c, "kicked", {})
           /\ UNCHANGED <<jobs, task, processed, crashes>>
           /\ \E d \in Docs : d \in call[c].todo /\ DocIs(d, "queued")
<1>1. call[c] \in CallRecord /\ DOMAIN call = Calls
  BY TypeParts
<1>2. call' = [call EXCEPT ![c] = [call[c] EXCEPT !.pc = "kicked", !.todo = {}]]
  BY DEF ProcessSetQueued
<1>3. LET r == [call[c] EXCEPT !.pc = "kicked", !.todo = {}] IN r.pc = "kicked" /\ r.todo = {}
  BY <1>1 DEF CallRecord
<1>4. CallIs(c, "kicked", {})
  BY <1>1, <1>2, <1>3 DEF CallIs
<1>5. PICK d \in call[c].todo : docs' = StatusSet(d, "queued")
  BY DEF ProcessSetQueued
<1>6. d \in Docs /\ DocIs(d, "queued")
  BY <1>5, SetByUpdate DEF TypeOK
<1> QED
  BY <1>4, <1>5, <1>6, RowsLeftAlone DEF ProcessSetQueued

(* documents_delete().                                                     *)
LEMMA AfterDocumentDelete ==
    ASSUME TypeOK, NEW d \in Docs, DocumentDelete(d)
    PROVE  /\ \E p \in Procs : LoopFree(p)
           /\ RowsCleared(d)
           /\ docs'[d] = "gone" /\ \A e \in Docs \ {d} : docs'[e] = docs[e]
           /\ UNCHANGED <<call, task, processed, crashes>>
<1>1. RowsCleared(d)
  BY ClearedByDelete DEF DocumentDelete
<1> QED
  BY <1>1 DEF DocumentDelete, TypeOK

(* documents_process() without an LLM key.                                 *)
LEMMA AfterWithoutKey ==
    ASSUME TypeOK, NEW d \in Docs, ProcessWithoutKey(d)
    PROVE  /\ \E p \in Procs : LoopFree(p)
           /\ RowsKept /\ docs[d] # "gone" /\ DocIs(d, "uploaded")
           /\ UNCHANGED <<jobs, call, task, processed, crashes>>
<1>1. DocIs(d, "uploaded")
  BY DEF ProcessWithoutKey, DocIs, TypeOK
<1> QED
  BY <1>1, RowsLeftAlone DEF ProcessWithoutKey

(* A drain starts by recovering the rows whose worker is lost.             *)
LEMMA AfterRecover ==
    ASSUME WInv, NEW c \in Calls, StartDrain(c) \/ KickDrain(c)
    PROVE  /\ call[c].pc \in {"idle", "kicked"} /\ LoopFree(Home[c])
           /\ RowsRecovered /\ CallIs(c, "claim", call[c].todo)
           /\ UNCHANGED <<docs, task, processed, crashes>>
<1>0. RecoverStuckJobs(c) /\ TypeOK
  BY DEF StartDrain, KickDrain, WInv
<1> DEFINE rec(r) == [r EXCEPT !.status = "pending", !.lease = "none"]
<1>1. \A r \in Row : /\ rec(r).status = "pending"
                     /\ rec(r).doc = r.doc /\ rec(r).stage = r.stage
  BY DEF Row
<1>2. jobs' = [j \in Ids |-> IF jobs[j].status = "claimed" /\ jobs[j].lease = "lapsed"
                             THEN rec(jobs[j]) ELSE jobs[j]]
  BY <1>0 DEF RecoverStuckJobs
<1>3. \A j \in Ids : jobs[j] \in Row
  BY <1>0, TableType DEF TypeOK
<1> HIDE DEF rec
<1>4. Ids' = Ids
  BY <1>2 DEF Ids
<1>5. \A j \in Ids : jobs[j].status = "claimed" /\ jobs[j].lease = "lapsed" => ~Worked(j)
  BY DEF WInv, HeldInv, Worked, Exists
<1>6. SameKeys
  BY <1>1, <1>2, <1>3, <1>4 DEF SameKeys
<1>7. RowsRecovered
  BY <1>1, <1>2, <1>3, <1>4, <1>5, <1>6 DEF RowsRecovered
<1>8. CallIs(c, "claim", call[c].todo)
  BY <1>0, CallGoes DEF RecoverStuckJobs
<1> QED
  BY <1>0, <1>7, <1>8 DEF StartDrain, KickDrain, RecoverStuckJobs

(* claim_jobs() and the start of the tasks.                                *)
LEMMA AfterClaim ==
    ASSUME TypeOK, NEW c \in Calls, Claim(c)
    PROVE  /\ \/ call[c].pc = "claim"
              \/ call[c].pc = "derive" /\ call[c].todo = {}
           /\ RowsClaimed
           /\ CallIs(c, IF Claimable = {} THEN "idle" ELSE "gather", call[c].todo)
           /\ DOMAIN task'[c] = Claimable
           /\ \A j \in Claimable : task'[c][j].pc = "start"
           /\ \A e \in Calls \ {c} : task'[e] = task[e]
           /\ UNCHANGED <<docs, processed, crashes>>
<1> DEFINE cl(r) == [r EXCEPT !.status = "claimed", !.lease = "held", !.attempts = r.attempts + 1]
           f == [j \in Claimable |-> [pc |-> "start", attempts |-> jobs[j].attempts + 1]]
<1>1. \A r \in Row : /\ cl(r).status = "claimed"
                     /\ cl(r).doc = r.doc /\ cl(r).stage = r.stage
  BY DEF Row
<1>2. jobs' = [j \in Ids |-> IF j \in Claimable THEN cl(jobs[j]) ELSE jobs[j]]
  BY DEF Claim
<1>3. \A j \in Ids : jobs[j] \in Row
  BY TableType DEF TypeOK
<1>4. \A j \in Claimable : j \in Ids /\ jobs[j].status = "pending"
  BY DEF Claimable
<1>5. task' = [task EXCEPT ![c] = f] /\ DOMAIN task = Calls
  BY DEF Claim, TypeOK
<1>6. DOMAIN f = Claimable /\ \A j \in Claimable : f[j].pc = "start"
  OBVIOUS
<1> HIDE DEF cl, f
<1>7. Ids' = Ids
  BY <1>2 DEF Ids
<1>8. SameKeys
  BY <1>1, <1>2, <1>3, <1>4, <1>7 DEF SameKeys
<1>9. RowsClaimed
  BY <1>1, <1>2, <1>3, <1>4, <1>7, <1>8 DEF RowsClaimed
<1>10. CallIs(c, IF Claimable = {} THEN "idle" ELSE "gather", call[c].todo)
  BY CallGoes DEF Claim
<1> QED
  BY <1>5, <1>6, <1>9, <1>10 DEF Claim

(* gather() returns: the documents of the round are to be derived.         *)
LEMMA AfterGather ==
    ASSUME TypeOK, NEW c \in Calls, GatherReturns(c)
    PROVE  /\ call[c].pc = "gather" /\ AllFinished(c) /\ LoopFree(Home[c])
           /\ RowsKept /\ TasksEmptied(c)
           /\ CallIs(c, "derive", {jobs[j].doc : j \in DOMAIN task[c]})
           /\ UNCHANGED <<jobs, docs, processed, crashes>>
<1> DEFINE touched == {jobs[j].doc : j \in DOMAIN task[c]}
<1>1. call[c] \in CallRecord /\ DOMAIN call = Calls
  BY TypeParts
<1>2. call' = [call EXCEPT ![c] = [call[c] EXCEPT !.pc = "derive", !.todo = touched]]
  BY DEF GatherReturns
<1> HIDE DEF touched
<1>3. LET r == [call[c] EXCEPT !.pc = "derive", !.todo = touched]
      IN  r.pc = "derive" /\ r.todo = touched
  BY <1>1 DEF CallRecord
<1>4. CallIs(c, "derive", touched)
  BY <1>1, <1>2, <1>3 DEF CallIs
<1>5. TasksEmptied(c)
  BY TasksGo DEF GatherReturns
<1> QED
  BY <1>4, <1>5, RowsLeftAlone DEF GatherReturns, touched

(* derive_doc_status() reads the rows of a document ...                    *)
LEMMA AfterDeriveRead ==
    ASSUME TypeOK, NEW c \in Calls, DeriveRead(c)
    PROVE  /\ call[c].pc = "derive"
           /\ RowsKept
           /\ UNCHANGED <<jobs, docs, task, processed, crashes>>
           /\ \E d \in Docs :
                 /\ d \in call[c].todo
                 /\ \/ /\ DerivedStatuses(d) = {}
                       /\ CallIs(c, "derive", call[c].todo \ {d})
                    \/ \E s \in DerivedStatuses(d) :
                          /\ CallIs(c, "derive_write", call[c].todo)
                          /\ call'[c].derived = {[doc |-> d, status |-> s]}
<1>1. call[c] \in CallRecord /\ DOMAIN call = Calls /\ call[c].pc = "derive"
  BY TypeParts DEF DeriveRead
<1>2. PICK d \in call[c].todo :
        \/ /\ DerivedStatuses(d) = {}
           /\ call' = [call EXCEPT ![c].todo = @ \ {d}]
        \/ \E s \in DerivedStatuses(d) :
              call' = [call EXCEPT ![c].pc = "derive_write",
                                   ![c].derived = {[doc |-> d, status |-> s]}]
  BY DEF DeriveRead
<1>3. d \in Docs
  BY <1>1 DEF CallRecord
<1>4. CASE DerivedStatuses(d) = {} /\ call' = [call EXCEPT ![c].todo = @ \ {d}]
  <2>1. LET r == [call[c] EXCEPT !.todo = call[c].todo \ {d}]
        IN  r.pc = "derive" /\ r.todo = call[c].todo \ {d}
    BY <1>1 DEF CallRecord
  <2>2. call' = [call EXCEPT ![c] = [call[c] EXCEPT !.todo = call[c].todo \ {d}]]
    BY <1>4
  <2>3. CallIs(c, "derive", call[c].todo \ {d})
    BY <1>1, <2>1, <2>2 DEF CallIs
  <2> QED
    BY <1>2, <1>3, <1>4, <2>3, RowsLeftAlone DEF DeriveRead
<1>5. ASSUME NEW s \in DerivedStatuses(d),
             call' = [call EXCEPT ![c].pc = "derive_write",
                                  ![c].derived = {[doc |-> d, status |-> s]}]
      PROVE  /\ CallIs(c, "derive_write", call[c].todo)
             /\ call'[c].derived = {[doc |-> d, status |-> s]}
  <2> DEFINE w == {[doc |-> d, status |-> s]}
  <2>1. call' = [call EXCEPT ![c] = [call[c] EXCEPT !.pc = "derive_write", !.derived = w]]
    BY <1>5
  <2> HIDE DEF w
  <2>2. LET r == [call[c] EXCEPT !.pc = "derive_write", !.derived = w]
        IN  r.pc = "derive_write" /\ r.todo = call[c].todo /\ r.derived = w
    BY <1>1 DEF CallRecord
  <2>3. CallIs(c, "derive_write", call[c].todo) /\ call'[c].derived = w
    BY <1>1, <2>1, <2>2 DEF CallIs
  <2> QED
    BY <2>3 DEF w
<1> QED
  BY <1>1, <1>2, <1>3, <1>4, <1>5, RowsLeftAlone DEF DeriveRead

(* ... and writes the status.                                              *)
LEMMA AfterDeriveWrite ==
    ASSUME TypeOK, NEW c \in Calls, DeriveWrite(c)
    PROVE  /\ call[c].pc = "derive_write"
           /\ RowsKept
           /\ UNCHANGED <<jobs, task, processed, crashes>>
           /\ \E w \in call[c].derived : /\ w.doc \in Docs
                                         /\ DocIs(w.doc, w.status)
                                         /\ CallIs(c, "derive", call[c].todo \ {w.doc})
<1>1. call[c] \in CallRecord /\ DOMAIN call = Calls
  BY TypeParts
<1>2. PICK w \in call[c].derived :
        /\ docs' = StatusSet(w.doc, w.status)
        /\ call' = [call EXCEPT ![c].pc = "derive", ![c].todo = @ \ {w.doc}, ![c].derived = {}]
  BY DEF DeriveWrite
<1>3. w.doc \in Docs
  BY <1>1 DEF CallRecord
<1> DEFINE rest == call[c].todo \ {w.doc}
<1>4. call' = [call EXCEPT ![c] = [call[c] EXCEPT !.pc = "derive", !.todo = rest, !.derived = {}]]
  BY <1>2
<1> HIDE DEF rest
<1>5. LET r == [call[c] EXCEPT !.pc = "derive", !.todo = rest, !.derived = {}]
      IN  r.pc = "derive" /\ r.todo = rest
  BY <1>1 DEF CallRecord
<1>6. CallIs(c, "derive", rest)
  BY <1>1, <1>4, <1>5 DEF CallIs
<1>7. DocIs(w.doc, w.status)
  BY <1>2, SetByUpdate
<1> QED
  BY <1>2, <1>3, <1>6, <1>7, RowsLeftAlone DEF DeriveWrite, rest

(* A drain ends: its time is spent, or an exception left gather().         *)
LEMMA AfterDrainEnd ==
    ASSUME TypeOK, NEW c \in Calls, BudgetSpent(c) \/ AbortedDrainEnds(c)
    PROVE  /\ RowsKept /\ CallIs(c, "idle", call[c].todo)
           /\ UNCHANGED <<jobs, docs, processed, crashes>>
           /\ \/ /\ call[c].pc = "derive" /\ call[c].todo = {} /\ task' = task
              \/ /\ call[c].pc = "aborted" /\ AllFinished(c) /\ LoopFree(Home[c])
                 /\ TasksEmptied(c)
<1>1. Goto(c, "idle")
  BY DEF BudgetSpent, AbortedDrainEnds, Goto
<1>2. CallIs(c, "idle", call[c].todo)
  BY <1>1, CallGoes
<1> QED
  BY <1>2, RowsLeftAlone, TasksGo DEF BudgetSpent, AbortedDrainEnds

(* Only a row that is there is worked on, and its task has a place.        *)
LEMMA ActiveParts ==
    ASSUME TypeOK, NEW c \in Calls, NEW j, Active(c, j)
    PROVE  j \in Ids /\ j \in DOMAIN task[c] /\ jobs[j] \in Row /\ jobs[j].doc \in Docs
BY ActiveIds, TableType DEF TypeOK, Row

(* run_job() up to its first await.                                        *)
LEMMA AfterTaskStart ==
    ASSUME TypeOK, NEW c \in Calls, NEW j, TaskStart(c, j)
    PROVE  /\ Active(c, j) /\ task[c][j].pc = "start" /\ LoopFree(Home[c])
           /\ RowsKept
           /\ \E pc \in {"running", "enqueue", "mark_failed"} : TaskAt(c, j, pc)
           /\ \/ docs' = docs
              \/ /\ docs[jobs[j].doc] # "gone"
                 /\ \E s \in {"extracting", "chunked", "analyzing", "structured"} :
                       DocIs(jobs[j].doc, s)
           /\ UNCHANGED <<jobs, call, processed, crashes>>
<1>1. {"running", "enqueue", "mark_failed"} \subseteq TaskPc /\ Active(c, j)
  BY DEF TaskPc, TaskStart
<1>2. \E pc \in {"running", "enqueue", "mark_failed"} : TaskGoto(c, j, pc)
  BY DEF TaskStart
<1>3. \E pc \in {"running", "enqueue", "mark_failed"} : TaskAt(c, j, pc)
  BY <1>1, <1>2, TaskGoes
<1>4. \/ docs' = docs
      \/ /\ docs[jobs[j].doc] # "gone"
         /\ \E s \in {"extracting", "chunked", "analyzing", "structured"} :
               docs' = StatusSet(jobs[j].doc, s)
  BY DEF TaskStart
<1> QED
  BY <1>3, <1>4, SetByUpdate, RowsLeftAlone DEF TaskStart

(* The stage's last await returned, or raised.                             *)
LEMMA AfterTaskEnds ==
    ASSUME TypeOK, NEW c \in Calls, NEW j, TaskEnds(c, j)
    PROVE  /\ Active(c, j) /\ task[c][j].pc = "running" /\ LoopFree(Home[c])
           /\ RowsKept
           /\ \E pc \in {"enqueue", "mark_failed"} : TaskAt(c, j, pc)
           /\ UNCHANGED <<jobs, docs, call, processed, crashes>>
<1>1. {"enqueue", "mark_failed"} \subseteq TaskPc /\ Active(c, j)
  BY DEF TaskPc, TaskEnds
<1>2. \E pc \in {"enqueue", "mark_failed"} : TaskGoto(c, j, pc)
  BY DEF TaskEnds
<1>3. \E pc \in {"enqueue", "mark_failed"} : TaskAt(c, j, pc)
  BY <1>1, <1>2, TaskGoes
<1> QED
  BY <1>3, RowsLeftAlone DEF TaskEnds

(* enqueue_successors().                                                   *)
LEMMA AfterEnqueueSuccessors ==
    ASSUME TypeOK, NEW c \in Calls, NEW j, EnqueueSuccessors(c, j)
    PROVE  /\ Active(c, j) /\ task[c][j].pc = "enqueue"
           /\ \/ /\ jobs[j].stage = "generate"
                 /\ RowsKept /\ TaskAt(c, j, "mark_done")
              \/ /\ docs[jobs[j].doc] = "gone"
                 /\ RowsKept /\ TaskAt(c, j, "mark_failed")
              \/ /\ jobs[j].stage # "generate" /\ docs[jobs[j].doc] # "gone"
                 /\ RowAdded(jobs[j].doc, Successor[jobs[j].stage])
                 /\ TaskAt(c, j, "mark_done")
           /\ UNCHANGED <<docs, call, processed, crashes>>
<1>1. /\ "mark_done" \in TaskPc /\ "mark_failed" \in TaskPc
      /\ Active(c, j) /\ task[c][j].pc = "enqueue"
      /\ UNCHANGED <<docs, call, processed, crashes>>
  BY DEF TaskPc, EnqueueSuccessors
<1>2. CASE jobs[j].stage = "generate" /\ TaskGoto(c, j, "mark_done") /\ jobs' = jobs
  BY <1>1, <1>2, TaskGoes, RowsLeftAlone
<1>3. CASE docs[jobs[j].doc] = "gone" /\ TaskGoto(c, j, "mark_failed") /\ jobs' = jobs
  BY <1>1, <1>3, TaskGoes, RowsLeftAlone
<1>4. CASE /\ jobs[j].stage # "generate" /\ docs[jobs[j].doc] # "gone"
           /\ jobs' = Inserted(jobs[j].doc, Successor[jobs[j].stage])
           /\ TaskGoto(c, j, "mark_done")
  <2>1. jobs[j].doc \in Docs /\ jobs[j].stage \in Stages
    BY <1>1, ActiveParts DEF Row
  <2>2. Successor[jobs[j].stage] \in Stages
    BY <1>4, <2>1 DEF Stages, Successor
  <2>3. RowAdded(jobs[j].doc, Successor[jobs[j].stage])
    BY <1>4, <2>1, <2>2, AddedByInsert
  <2>4. TaskAt(c, j, "mark_done")
    BY <1>1, <1>4, TaskGoes
  <2> QED
    BY <1>1, <1>4, <2>3, <2>4
<1> QED
  BY <1>2, <1>3, <1>4 DEF EnqueueSuccessors

(* UPDATE jobs SET status = 'done'.                                        *)
LEMMA AfterMarkDone ==
    ASSUME TypeOK, NEW c \in Calls, NEW j, MarkDone(c, j)
    PROVE  /\ Active(c, j) /\ task[c][j].pc = "mark_done"
           /\ RowPut(j, "done") /\ TaskAt(c, j, "finished")
           /\ UNCHANGED <<docs, call, processed, crashes>>
<1>1. Active(c, j) /\ TaskGoto(c, j, "finished") /\ "finished" \in TaskPc
  BY DEF MarkDone, TaskPc
<1>2. j \in Ids /\ jobs[j] \in Row
  BY <1>1, ActiveParts
<1> DEFINE r == [jobs[j] EXCEPT !.status = "done"]
<1>3. r \in Row /\ r.doc = jobs[j].doc /\ r.stage = jobs[j].stage /\ r.status = "done"
  BY <1>2 DEF Row, RowStatus
<1>4. jobs' = IF Exists(j) THEN [jobs EXCEPT ![j] = r] ELSE jobs
  BY DEF MarkDone
<1> HIDE DEF r
<1>5. RowPut(j, "done")
  <2>1. RowPut(j, r.status)
    BY <1>2, <1>3, <1>4, PutByUpdate
  <2> QED
    BY <1>3, <2>1
<1>6. TaskAt(c, j, "finished")
  BY <1>1, TaskGoes
<1> QED
  BY <1>5, <1>6 DEF MarkDone

(* mark_failed().                                                          *)
LEMMA AfterMarkFailed ==
    ASSUME TypeOK, NEW c \in Calls, NEW j, MarkFailed(c, j)
    PROVE  /\ Active(c, j) /\ task[c][j].pc = "mark_failed"
           /\ \E s \in {"dead", "pending"} : RowPut(j, s)
           /\ TaskAt(c, j, "finished")
           /\ UNCHANGED <<docs, call, processed, crashes>>
<1>1. Active(c, j) /\ TaskGoto(c, j, "finished") /\ "finished" \in TaskPc
  BY DEF MarkFailed, TaskPc
<1>2. j \in Ids /\ jobs[j] \in Row
  BY <1>1, ActiveParts
<1> DEFINE dead == [jobs[j] EXCEPT !.status = "dead", !.lease = "none", !.due = TRUE]
           again == [jobs[j] EXCEPT !.status = "pending", !.lease = "none", !.due = FALSE]
<1>3. /\ dead \in Row /\ dead.doc = jobs[j].doc /\ dead.stage = jobs[j].stage
      /\ dead.status = "dead"
  BY <1>2 DEF Row, RowStatus
<1>4. /\ again \in Row /\ again.doc = jobs[j].doc /\ again.stage = jobs[j].stage
      /\ again.status = "pending"
  BY <1>2 DEF Row, RowStatus
<1>5. \/ jobs' = IF Exists(j) THEN [jobs EXCEPT ![j] = dead] ELSE jobs
      \/ jobs' = IF Exists(j) THEN [jobs EXCEPT ![j] = again] ELSE jobs
  BY DEF MarkFailed
<1> HIDE DEF dead, again
<1>6. CASE jobs' = IF Exists(j) THEN [jobs EXCEPT ![j] = dead] ELSE jobs
  <2>1. RowPut(j, dead.status)
    BY <1>2, <1>3, <1>6, PutByUpdate
  <2>2. RowPut(j, "dead")
    BY <1>3, <2>1
  <2>3. TaskAt(c, j, "finished")
    BY <1>1, TaskGoes
  <2> QED
    BY <2>2, <2>3 DEF MarkFailed
<1>7. CASE jobs' = IF Exists(j) THEN [jobs EXCEPT ![j] = again] ELSE jobs
  <2>1. RowPut(j, again.status)
    BY <1>2, <1>4, <1>7, PutByUpdate
  <2>2. RowPut(j, "pending")
    BY <1>4, <2>1
  <2>3. TaskAt(c, j, "finished")
    BY <1>1, TaskGoes
  <2> QED
    BY <2>2, <2>3 DEF MarkFailed
<1> QED
  BY <1>5, <1>6, <1>7

(* A heartbeat, and time.                                                  *)
LEMMA AfterTime ==
    ASSUME TypeOK, NEW j,
           \/ \E c \in Calls : Heartbeat(c, j)
           \/ BackoffElapses(j) \/ LeaseLapses(j)
    PROVE  RowsKept /\ UNCHANGED <<docs, call, task, processed, crashes>>
<1>1. j \in Ids /\ jobs[j] \in Row
  <2>1. j \in Ids
    BY ActiveParts DEF Heartbeat, BackoffElapses, LeaseLapses
  <2> QED
    BY <2>1, TableType DEF TypeOK
<1> DEFINE held == [jobs[j] EXCEPT !.lease = "held"]
           due == [jobs[j] EXCEPT !.due = TRUE]
           lapsed == [jobs[j] EXCEPT !.lease = "lapsed"]
<1>2. \A r \in {held, due, lapsed} : /\ r \in Row /\ r.doc = jobs[j].doc
                                     /\ r.stage = jobs[j].stage /\ r.status = jobs[j].status
  BY <1>1 DEF Row
<1>3. \/ jobs' = [jobs EXCEPT ![j] = held]
      \/ jobs' = [jobs EXCEPT ![j] = due]
      \/ jobs' = [jobs EXCEPT ![j] = lapsed]
  BY DEF Heartbeat, BackoffElapses, LeaseLapses
<1>4. UNCHANGED <<docs, call, task, processed, crashes>>
  BY DEF Heartbeat, BackoffElapses, LeaseLapses
<1> HIDE DEF held, due, lapsed
<1>5. RowsKept
  BY <1>1, <1>2, <1>3, KeptByUpdate
<1> QED
  BY <1>4, <1>5

(* A crash empties the calls of its process.                               *)
LEMMA AfterCrash ==
    ASSUME TypeOK, NEW p \in Procs, Crash(p)
    PROVE  /\ RowsKept /\ crashes' = crashes + 1
           /\ \A c \in Calls : \/ call'[c] = call[c] /\ task'[c] = task[c]
                               \/ /\ call'[c].pc = "idle" /\ call'[c].todo = {}
                                  /\ DOMAIN task'[c] = {}
           /\ UNCHANGED <<jobs, docs, processed>>
<1>1. IdleCall.pc = "idle" /\ IdleCall.todo = {} /\ DOMAIN NoTask = {}
  BY NoTaskType DEF IdleCall
<1> QED
  BY <1>1, RowsLeftAlone DEF Crash

-----------------------------------------------------------------------------
(* A live row is the only one of its document and stage. *)

SameDoc(j, k) == jobs[j].doc = jobs[k].doc

LiveUnique ==
    \A j, k \in Ids :
        Live(j) /\ Live(k) /\ SameDoc(j, k) /\ jobs[j].stage = jobs[k].stage => j = k

(* The index refuses nothing that mark_failed() writes: the worker's own   *)
(* row is live, so no other is.                                            *)
LEMMA NeverRaises ==
    ASSUME WInv, LiveUnique, NEW c \in Calls, NEW j
    PROVE  ~MarkFailedRaises(c, j)
<1> SUFFICES ASSUME MarkFailedRaises(c, j) PROVE FALSE
  OBVIOUS
<1>1. Active(c, j) /\ Duplicate(j) /\ TypeOK
  BY DEF MarkFailedRaises, WInv
<1>2. j \in Ids /\ Exists(j)
  BY <1>1, ActiveIds DEF Duplicate
<1>3. Live(j)
  BY <1>1, <1>2 DEF WInv, HeldInv, Live
<1> QED
  BY <1>1, <1>2, <1>3 DEF Duplicate, Indexed, Live, LiveUnique, SameDoc

NoNewLive == Ids' = Ids /\ SameKeys /\ \A j \in Ids : Live(j)' => Live(j)

(* A step that makes no row live keeps the live rows apart.                *)
LEMMA UniqueKept ==
    ASSUME LiveUnique, NoNewLive
    PROVE  LiveUnique'
BY DEF LiveUnique, NoNewLive, SameKeys, SameDoc

(* So does enqueue_job(), which adds a row only where none is live.        *)
LEMMA UniqueAdded ==
    ASSUME LiveUnique, NEW d, NEW s, RowAdded(d, s)
    PROVE  LiveUnique'
<1>1. \A j \in Ids : /\ jobs'[j].doc = jobs[j].doc /\ jobs'[j].stage = jobs[j].stage
                     /\ Live(j)' <=> Live(j)
  BY DEF RowAdded, SameKeys, Live
<1>2. CASE Ids' = Ids
  BY <1>1, <1>2 DEF LiveUnique, SameDoc
<1>3. CASE Ids' # Ids
  <2>1. PICK n : /\ n \notin Ids /\ Ids' = Ids \cup {n}
                 /\ jobs'[n].doc = d /\ jobs'[n].stage = s
    BY <1>3 DEF RowAdded
  <2>2. \A j \in Ids : Live(j)' => ~(jobs'[j].doc = d /\ jobs'[j].stage = s)
    BY <1>1, <1>3 DEF RowAdded, LiveRow, Indexed, Live
  <2> SUFFICES ASSUME NEW j \in Ids', NEW k \in Ids', Live(j)', Live(k)',
                      jobs'[j].doc = jobs'[k].doc, jobs'[j].stage = jobs'[k].stage
               PROVE  j = k
    BY DEF LiveUnique, SameDoc
  <2>3. CASE j \in Ids /\ k \in Ids
    BY <1>1, <2>3 DEF LiveUnique, SameDoc
  <2>4. CASE j = n \/ k = n
    BY <2>1, <2>2, <2>4
  <2> QED
    BY <2>1, <2>3, <2>4
<1> QED
  BY <1>2, <1>3

(* The writes of the table that make no row live.                          *)
LEMMA NoRowMadeLive ==
    /\ RowsKept => NoNewLive
    /\ \A d : RowsCleared(d) => NoNewLive
    /\ RowsRecovered => NoNewLive
    /\ RowsClaimed => NoNewLive
    /\ \A j, s : (Exists(j) => Live(j)) /\ RowPut(j, s) => NoNewLive
<1>1. RowsKept => NoNewLive
  BY DEF RowsKept, NoNewLive, Live
<1>2. \A d : RowsCleared(d) => NoNewLive
  BY DEF RowsCleared, NoNewLive, Live
<1>3. RowsRecovered => NoNewLive
  BY DEF RowsRecovered, NoNewLive, Live
<1>4. RowsClaimed => NoNewLive
  BY DEF RowsClaimed, NoNewLive, Live
<1>5. \A j, s : (Exists(j) => Live(j)) /\ RowPut(j, s) => NoNewLive
  BY DEF RowPut, NoNewLive, Live
<1> QED
  BY <1>1, <1>2, <1>3, <1>4, <1>5

(* The row of a job at work is live as long as it is there.                *)
LEMMA WorkedIsLive ==
    ASSUME WInv, NEW c \in Calls, NEW j, Active(c, j), Exists(j)
    PROVE  Live(j) /\ jobs[j].status = "claimed"
BY ActiveIds DEF WInv, HeldInv, Live

(* The live rows stay apart through every step.                            *)
LEMMA UniqueStep ==
    ASSUME WInv, LiveUnique, [Next]_vars
    PROVE  LiveUnique'
<1>t. TypeOK
  BY DEF WInv
<1>1. ASSUME NEW c \in Calls, NEW d \in Docs, ProcessDelete(c, d) PROVE LiveUnique'
  BY <1>t, <1>1, AfterProcessDelete, NoRowMadeLive, UniqueKept
<1>2. ASSUME NEW c \in Calls, ProcessEnqueue(c) PROVE LiveUnique'
  BY <1>t, <1>2, AfterProcessEnqueue, NoRowMadeLive, UniqueKept, UniqueAdded
<1>3. ASSUME NEW c \in Calls, ProcessSetQueued(c) PROVE LiveUnique'
  BY <1>t, <1>3, AfterProcessSetQueued, NoRowMadeLive, UniqueKept
<1>4. ASSUME NEW d \in Docs, DocumentDelete(d) PROVE LiveUnique'
  BY <1>t, <1>4, AfterDocumentDelete, NoRowMadeLive, UniqueKept
<1>w. ASSUME NEW d \in Docs, ProcessWithoutKey(d) PROVE LiveUnique'
  BY <1>t, <1>w, AfterWithoutKey, NoRowMadeLive, UniqueKept
<1>5. ASSUME NEW c \in Calls, StartDrain(c) \/ KickDrain(c) PROVE LiveUnique'
  BY <1>5, AfterRecover, NoRowMadeLive, UniqueKept
<1>6. ASSUME NEW c \in Calls, Claim(c) PROVE LiveUnique'
  BY <1>t, <1>6, AfterClaim, NoRowMadeLive, UniqueKept
<1>7. ASSUME NEW c \in Calls, GatherReturns(c) PROVE LiveUnique'
  BY <1>t, <1>7, AfterGather, NoRowMadeLive, UniqueKept
<1>8. ASSUME NEW c \in Calls, DeriveRead(c) PROVE LiveUnique'
  BY <1>t, <1>8, AfterDeriveRead, NoRowMadeLive, UniqueKept
<1>9. ASSUME NEW c \in Calls, DeriveWrite(c) PROVE LiveUnique'
  BY <1>t, <1>9, AfterDeriveWrite, NoRowMadeLive, UniqueKept
<1>10. ASSUME NEW c \in Calls, BudgetSpent(c) \/ AbortedDrainEnds(c) PROVE LiveUnique'
  BY <1>t, <1>10, AfterDrainEnd, NoRowMadeLive, UniqueKept
<1>11. ASSUME NEW c \in Calls, NEW j, TaskStart(c, j) PROVE LiveUnique'
  BY <1>t, <1>11, AfterTaskStart, NoRowMadeLive, UniqueKept
<1>12. ASSUME NEW c \in Calls, NEW j, TaskEnds(c, j) PROVE LiveUnique'
  BY <1>t, <1>12, AfterTaskEnds, NoRowMadeLive, UniqueKept
<1>13. ASSUME NEW c \in Calls, NEW j, EnqueueSuccessors(c, j) PROVE LiveUnique'
  <2>1. RowsKept \/ RowAdded(jobs[j].doc, Successor[jobs[j].stage])
    BY <1>t, <1>13, AfterEnqueueSuccessors
  <2> QED
    BY <2>1, NoRowMadeLive, UniqueKept, UniqueAdded
<1>14. ASSUME NEW c \in Calls, NEW j, MarkDone(c, j) PROVE LiveUnique'
  <2>1. RowPut(j, "done") /\ (Exists(j) => Live(j))
    BY <1>t, <1>14, AfterMarkDone, WorkedIsLive
  <2> QED
    BY <2>1, NoRowMadeLive, UniqueKept
<1>15. ASSUME NEW c \in Calls, NEW j, MarkFailed(c, j) PROVE LiveUnique'
  <2>1. PICK s : RowPut(j, s) /\ (Exists(j) => Live(j))
    BY <1>t, <1>15, AfterMarkFailed, WorkedIsLive
  <2> QED
    BY <2>1, NoRowMadeLive, UniqueKept
<1>16. ASSUME NEW c \in Calls, NEW j, MarkFailedRaises(c, j) PROVE LiveUnique'
  BY <1>16, NeverRaises
<1>17. ASSUME NEW j, (\E c \in Calls : Heartbeat(c, j)) \/ BackoffElapses(j) \/ LeaseLapses(j)
       PROVE  LiveUnique'
  BY <1>t, <1>17, AfterTime, NoRowMadeLive, UniqueKept
<1>18. ASSUME NEW p \in Procs, Crash(p) PROVE LiveUnique'
  BY <1>t, <1>18, AfterCrash, NoRowMadeLive, UniqueKept
<1>19. CASE UNCHANGED vars
  BY <1>19, RowsLeftAlone, NoRowMadeLive, UniqueKept DEF vars
<1> QED
  BY <1>1, <1>2, <1>3, <1>4, <1>w, <1>5, <1>6, <1>7, <1>8, <1>9, <1>10, <1>11, <1>12, <1>13,
     <1>14, <1>15, <1>16, <1>17, <1>18, <1>19 DEF Next, CallStep, TaskStep

(* No drain aborts: no other step than a refused mark_failed() makes one.  *)
LEMMA AbortStep ==
    ASSUME WInv, LiveUnique, NoDrainAborts, [Next]_vars
    PROVE  NoDrainAborts'
<1>t. TypeOK
  BY DEF WInv
<1>i. ASSUME NEW c \in Calls, NEW pc, NEW todo, CallIs(c, pc, todo), pc # "aborted"
      PROVE  NoDrainAborts'
  BY <1>i DEF NoDrainAborts, CallIs
<1>u. ASSUME call' = call PROVE NoDrainAborts'
  BY <1>u DEF NoDrainAborts
<1>1. ASSUME NEW c \in Calls, NEW d \in Docs, ProcessDelete(c, d) PROVE NoDrainAborts'
  BY <1>t, <1>i, <1>1, AfterProcessDelete
<1>2. ASSUME NEW c \in Calls, ProcessEnqueue(c) PROVE NoDrainAborts'
  BY <1>t, <1>i, <1>2, AfterProcessEnqueue
<1>3. ASSUME NEW c \in Calls, ProcessSetQueued(c) PROVE NoDrainAborts'
  BY <1>t, <1>i, <1>3, AfterProcessSetQueued
<1>4. ASSUME NEW d \in Docs, DocumentDelete(d) PROVE NoDrainAborts'
  BY <1>t, <1>u, <1>4, AfterDocumentDelete
<1>w. ASSUME NEW d \in Docs, ProcessWithoutKey(d) PROVE NoDrainAborts'
  BY <1>t, <1>u, <1>w, AfterWithoutKey
<1>5. ASSUME NEW c \in Calls, StartDrain(c) \/ KickDrain(c) PROVE NoDrainAborts'
  BY <1>i, <1>5, AfterRecover
<1>6. ASSUME NEW c \in Calls, Claim(c) PROVE NoDrainAborts'
  <2>1. CallIs(c, "idle", call[c].todo) \/ CallIs(c, "gather", call[c].todo)
    BY <1>t, <1>6, AfterClaim
  <2> QED
    BY <1>i, <2>1
<1>7. ASSUME NEW c \in Calls, GatherReturns(c) PROVE NoDrainAborts'
  BY <1>t, <1>i, <1>7, AfterGather
<1>8. ASSUME NEW c \in Calls, DeriveRead(c) PROVE NoDrainAborts'
  BY <1>t, <1>i, <1>8, AfterDeriveRead
<1>9. ASSUME NEW c \in Calls, DeriveWrite(c) PROVE NoDrainAborts'
  BY <1>t, <1>i, <1>9, AfterDeriveWrite
<1>10. ASSUME NEW c \in Calls, BudgetSpent(c) \/ AbortedDrainEnds(c) PROVE NoDrainAborts'
  BY <1>t, <1>i, <1>10, AfterDrainEnd
<1>11. ASSUME NEW c \in Calls, NEW j, TaskStart(c, j) PROVE NoDrainAborts'
  BY <1>t, <1>u, <1>11, AfterTaskStart
<1>12. ASSUME NEW c \in Calls, NEW j, TaskEnds(c, j) PROVE NoDrainAborts'
  BY <1>t, <1>u, <1>12, AfterTaskEnds
<1>13. ASSUME NEW c \in Calls, NEW j, EnqueueSuccessors(c, j) PROVE NoDrainAborts'
  BY <1>t, <1>u, <1>13, AfterEnqueueSuccessors
<1>14. ASSUME NEW c \in Calls, NEW j, MarkDone(c, j) PROVE NoDrainAborts'
  BY <1>t, <1>u, <1>14, AfterMarkDone
<1>15. ASSUME NEW c \in Calls, NEW j, MarkFailed(c, j) PROVE NoDrainAborts'
  BY <1>t, <1>u, <1>15, AfterMarkFailed
<1>16. ASSUME NEW c \in Calls, NEW j, MarkFailedRaises(c, j) PROVE NoDrainAborts'
  BY <1>16, NeverRaises
<1>17. ASSUME NEW j, (\E c \in Calls : Heartbeat(c, j)) \/ BackoffElapses(j) \/ LeaseLapses(j)
       PROVE  NoDrainAborts'
  BY <1>t, <1>u, <1>17, AfterTime
<1>18. ASSUME NEW p \in Procs, Crash(p) PROVE NoDrainAborts'
  BY <1>t, <1>18, AfterCrash DEF NoDrainAborts
<1>19. CASE UNCHANGED vars
  BY <1>u, <1>19 DEF vars
<1> QED
  BY <1>1, <1>2, <1>3, <1>4, <1>w, <1>5, <1>6, <1>7, <1>8, <1>9, <1>10, <1>11, <1>12, <1>13,
     <1>14, <1>15, <1>16, <1>17, <1>18, <1>19 DEF Next, CallStep, TaskStep

UInv == WInv /\ LiveUnique /\ NoDrainAborts

(* The invariant so far is inductive.                                      *)
LEMMA UInvInductive ==
    ASSUME SlowStages = {}
    PROVE  (Init => UInv) /\ (UInv /\ [Next]_vars => UInv')
<1>1. Init => LiveUnique /\ NoDrainAborts
  BY DEF Init, LiveUnique, NoDrainAborts, Ids, IdleCall
<1> QED
  BY <1>1, WInvInductive, UniqueStep, AbortStep DEF UInv

(* mark_failed() never meets the unique-live index: no drain ends before   *)
(* it has derived the statuses, with any number of processes and crashes.  *)
THEOREM NoDrainAbortsCorrect ==
    ASSUME SlowStages = {}
    PROVE  Spec => []NoDrainAborts
<1>1. UInv => NoDrainAborts
  BY DEF UInv
<1>2. (Init => UInv) /\ (UInv /\ [Next]_vars => UInv')
  BY UInvInductive
<1> QED
  BY <1>1, <1>2, PTL DEF Spec

-----------------------------------------------------------------------------
(* What documents_process() finds when a document is queued for the first  *)
(* time: no row of it, and no other call that queues it; its rows then     *)
(* stay until the document is deleted.                                     *)

NoRows(d) == \A j \in Ids : jobs[j].doc # d

Enqueues(c, d) == call[c].pc = "enqueue_ingest" /\ d \in call[c].todo

NewIsBare ==
    \A d \in Docs : processed[d] = 0 => NoRows(d) /\ \A c \in Calls : ~Enqueues(c, d)

FirstIsBare ==
    \A d \in Docs, c \in Calls : QueuedOnce(d) /\ Enqueues(c, d) =>
        NoRows(d) /\ \A e \in Calls : Enqueues(e, d) => e = c

FirstRowsStay ==
    \A j \in Ids : QueuedOnce(jobs[j].doc) /\ docs[jobs[j].doc] # "gone" => Exists(j)

GoneIsBare == \A j \in Ids : docs[jobs[j].doc] = "gone" => ~Exists(j)

WritesNoDeletion ==
    \A c \in Calls : call[c].pc = "derive_write" =>
        \A w \in call[c].derived : w.status # "gone"

BareInv == NewIsBare /\ FirstIsBare /\ FirstRowsStay /\ GoneIsBare

(* A call that is about to write a status has just read it.                *)
LEMMA WritersKept ==
    ASSUME UInv, [Next]_vars, NEW e \in Calls, call'[e].pc = "derive_write"
    PROVE  call'[e] = call[e] \/ DeriveRead(e)
<1>t. TypeOK /\ WInv /\ LiveUnique
  BY DEF UInv, WInv
<1> DEFINE Goal == call'[e] = call[e] \/ DeriveRead(e)
<1>i. ASSUME NEW c \in Calls, NEW pc, NEW todo, CallIs(c, pc, todo), pc # "derive_write"
      PROVE  Goal
  <2>1. c # e
    BY <1>i DEF CallIs
  <2> QED
    BY <1>i, <2>1 DEF CallIs
<1>u. ASSUME call' = call PROVE Goal
  BY <1>u
<1> HIDE DEF Goal
<1>1. ASSUME NEW c \in Calls, NEW d \in Docs, ProcessDelete(c, d) PROVE Goal
  BY <1>t, <1>i, <1>1, AfterProcessDelete
<1>2. ASSUME NEW c \in Calls, ProcessEnqueue(c) PROVE Goal
  BY <1>t, <1>i, <1>2, AfterProcessEnqueue
<1>3. ASSUME NEW c \in Calls, ProcessSetQueued(c) PROVE Goal
  BY <1>t, <1>i, <1>3, AfterProcessSetQueued
<1>4. ASSUME NEW d \in Docs, DocumentDelete(d) PROVE Goal
  BY <1>t, <1>u, <1>4, AfterDocumentDelete
<1>w. ASSUME NEW d \in Docs, ProcessWithoutKey(d) PROVE Goal
  BY <1>t, <1>u, <1>w, AfterWithoutKey
<1>5. ASSUME NEW c \in Calls, StartDrain(c) \/ KickDrain(c) PROVE Goal
  BY <1>t, <1>i, <1>5, AfterRecover
<1>6. ASSUME NEW c \in Calls, Claim(c) PROVE Goal
  <2>1. CallIs(c, "idle", call[c].todo) \/ CallIs(c, "gather", call[c].todo)
    BY <1>t, <1>6, AfterClaim
  <2> QED
    BY <1>i, <2>1
<1>7. ASSUME NEW c \in Calls, GatherReturns(c) PROVE Goal
  BY <1>t, <1>i, <1>7, AfterGather
<1>8. ASSUME NEW c \in Calls, DeriveRead(c) PROVE Goal
  <2>1. CASE c = e
    BY <1>8, <2>1 DEF Goal
  <2>2. CASE c # e
    BY <1>t, <1>8, <2>2, AfterDeriveRead DEF CallIs, Goal
  <2> QED
    BY <2>1, <2>2
<1>9. ASSUME NEW c \in Calls, DeriveWrite(c) PROVE Goal
  BY <1>t, <1>i, <1>9, AfterDeriveWrite
<1>10. ASSUME NEW c \in Calls, BudgetSpent(c) \/ AbortedDrainEnds(c) PROVE Goal
  BY <1>t, <1>i, <1>10, AfterDrainEnd
<1>11. ASSUME NEW c \in Calls, NEW j, TaskStep(c, j) PROVE Goal
  <2>1. call' = call
    BY <1>t, <1>11, AfterTaskStart, AfterTaskEnds, AfterEnqueueSuccessors, AfterMarkDone,
       AfterMarkFailed, NeverRaises DEF TaskStep
  <2> QED
    BY <1>u, <2>1
<1>12. ASSUME NEW j, (\E c \in Calls : Heartbeat(c, j)) \/ BackoffElapses(j) \/ LeaseLapses(j)
       PROVE  Goal
  BY <1>t, <1>u, <1>12, AfterTime
<1>13. ASSUME NEW p \in Procs, Crash(p) PROVE Goal
  <2>1. call'[e] = call[e] \/ call'[e].pc = "idle"
    BY <1>t, <1>13, AfterCrash
  <2> QED
    BY <2>1 DEF Goal
<1>14. ASSUME UNCHANGED vars PROVE Goal
  BY <1>u, <1>14 DEF vars
<1>15. Goal
  BY <1>1, <1>2, <1>3, <1>4, <1>w, <1>5, <1>6, <1>7, <1>8, <1>9, <1>10, <1>11, <1>12, <1>13, <1>14
     DEF Next, CallStep
<1> QED
  BY <1>15 DEF Goal

(* _derive_status_from_jobs() never says that a document is gone.          *)
LEMMA DerivedNeverGone ==
    ASSUME TypeOK, NEW d, NEW s \in DerivedStatuses(d)
    PROVE  s # "gone"
<1>1. \A j \in Ids : jobs[j].stage \in Stages
  BY TableType DEF Row, TypeOK
<1>2. RowsOf(d) \subseteq Ids
  BY DEF RowsOf
<1>3. \A t \in Stages : StageDeadStatus[t] # "gone" /\ StageRunningStatus[t] # "gone"
  BY DEF Stages, StageDeadStatus, StageRunningStatus
<1>4. "generate" \in Stages
  BY DEF Stages
<1> QED
  BY <1>1, <1>2, <1>3, <1>4 DEF DerivedStatuses

(* What a drain is about to write is never a deletion.                     *)
LEMMA WritesNoDeletionStep ==
    ASSUME UInv, WritesNoDeletion, [Next]_vars
    PROVE  WritesNoDeletion'
<1>t. TypeOK
  BY DEF UInv, WInv
<1> SUFFICES ASSUME NEW e \in Calls, call'[e].pc = "derive_write", NEW w \in call'[e].derived
             PROVE  w.status # "gone"
  BY DEF WritesNoDeletion
<1>1. CASE call'[e] = call[e]
  BY <1>1 DEF WritesNoDeletion
<1>2. CASE DeriveRead(e)
  <2>1. PICK d \in Docs : \E s \in DerivedStatuses(d) :
          call'[e].derived = {[doc |-> d, status |-> s]}
    BY <1>t, <1>2, AfterDeriveRead DEF CallIs
  <2> QED
    BY <1>t, <2>1, DerivedNeverGone
<1> QED
  BY <1>1, <1>2, WritersKept

SameGone == \A d \in Docs : docs'[d] = "gone" <=> docs[d] = "gone"

SameExisting == Ids' = Ids /\ SameKeys /\ \A j \in Ids : Exists(j)' <=> Exists(j)

NoNewEnqueues == \A c \in Calls, d \in Docs : Enqueues(c, d)' => Enqueues(c, d)

(* A step that neither adds nor deletes rows or documents.                 *)
LEMMA BareKept ==
    ASSUME TypeOK, BareInv, SameExisting, SameGone, NoNewEnqueues, processed' = processed
    PROVE  BareInv'
<1>1. \A j \in Ids : jobs[j].doc \in Docs /\ jobs'[j].doc = jobs[j].doc
  BY TableType DEF TypeOK, Row, SameExisting, SameKeys
<1>2. \A d \in Docs : (QueuedOnce(d)' <=> QueuedOnce(d)) /\ (NoRows(d) => NoRows(d)')
  BY <1>1 DEF QueuedOnce, NoRows, SameExisting
<1>3. NewIsBare'
  BY <1>2 DEF NewIsBare, BareInv, NoNewEnqueues
<1>4. FirstIsBare'
  BY <1>2 DEF FirstIsBare, BareInv, NoNewEnqueues
<1>5. FirstRowsStay' /\ GoneIsBare'
  BY <1>1, <1>2 DEF FirstRowsStay, GoneIsBare, BareInv, SameExisting, SameGone
<1> QED
  BY <1>3, <1>4, <1>5 DEF BareInv

(* A row added for a document that nobody is about to queue.               *)
LEMMA BareAdded ==
    ASSUME TypeOK, BareInv, NEW d \in Docs, NEW s, RowAdded(d, s), docs[d] # "gone",
           processed[d] # 0, docs' = docs, processed' = processed, NoNewEnqueues,
           QueuedOnce(d) => \A e \in Calls : ~Enqueues(e, d)'
    PROVE  BareInv'
<1>1. \A j \in Ids : jobs[j].doc \in Docs /\ jobs'[j].doc = jobs[j].doc /\ (Exists(j)' <=> Exists(j))
  BY TableType DEF TypeOK, Row, RowAdded, SameKeys, Exists
<1>2. \A j \in Ids' \ Ids : jobs'[j].doc = d /\ Exists(j)'
  BY DEF RowAdded, Exists
<1>3. \A e \in Docs : /\ QueuedOnce(e)' <=> QueuedOnce(e)
                      /\ e # d /\ NoRows(e) => NoRows(e)'
  BY <1>1, <1>2 DEF QueuedOnce, NoRows
<1>4. NewIsBare'
  BY <1>3 DEF NewIsBare, BareInv, NoNewEnqueues
<1>5. FirstIsBare'
  BY <1>3 DEF FirstIsBare, BareInv, NoNewEnqueues
<1>6. FirstRowsStay' /\ GoneIsBare'
  BY <1>1, <1>2, <1>3 DEF FirstRowsStay, GoneIsBare, BareInv
<1> QED
  BY <1>4, <1>5, <1>6 DEF BareInv

(* documents_process() clears the rows of the document.                    *)
LEMMA BareQueued ==
    ASSUME TypeOK, BareInv, NEW c \in Calls, NEW d \in Docs, ProcessDelete(c, d)
    PROVE  BareInv'
<1>1. /\ docs[d] # "gone" /\ docs' = docs
      /\ processed'[d] = processed[d] + 1 /\ processed[d] \in Nat
      /\ \A e \in Docs \ {d} : processed'[e] = processed[e]
      /\ RowsCleared(d) /\ CallIs(c, "enqueue_ingest", {d})
  BY AfterProcessDelete DEF TypeOK
<1>2. \A j \in Ids : /\ jobs[j].doc \in Docs /\ jobs'[j].doc = jobs[j].doc
                     /\ jobs[j].doc # d => (Exists(j)' <=> Exists(j))
                     /\ jobs[j].doc = d => ~Exists(j)'
  BY <1>1, TableType DEF TypeOK, Row, RowsCleared, SameKeys, Exists
<1>3. Ids' = Ids /\ \A e \in Docs : NoRows(e) => NoRows(e)'
  BY <1>1, <1>2 DEF NoRows, RowsCleared
<1>4. processed'[d] # 0 /\ (QueuedOnce(d)' => processed[d] = 0)
  BY <1>1 DEF QueuedOnce
<1>5. \A e \in Docs \ {d} : (QueuedOnce(e)' <=> QueuedOnce(e))
  BY <1>1 DEF QueuedOnce
<1>6. \A f \in Calls, e \in Docs : Enqueues(f, e)' => Enqueues(f, e) \/ (f = c /\ e = d)
  BY <1>1 DEF Enqueues, CallIs
<1>7. NewIsBare'
  BY <1>1, <1>3, <1>4, <1>6 DEF NewIsBare, BareInv
<1>8. FirstIsBare'
  BY <1>3, <1>4, <1>5, <1>6 DEF FirstIsBare, NewIsBare, BareInv
<1>9. FirstRowsStay'
  BY <1>1, <1>2, <1>3, <1>4, <1>5 DEF FirstRowsStay, NewIsBare, NoRows, BareInv
<1>10. GoneIsBare'
  BY <1>1, <1>2, <1>3 DEF GoneIsBare, BareInv
<1> QED
  BY <1>7, <1>8, <1>9, <1>10 DEF BareInv

(* documents_delete() takes the rows with the document.                    *)
LEMMA BareDeleted ==
    ASSUME TypeOK, BareInv, NEW d \in Docs, DocumentDelete(d)
    PROVE  BareInv'
<1>1. /\ docs'[d] = "gone" /\ \A e \in Docs \ {d} : docs'[e] = docs[e]
      /\ RowsCleared(d) /\ call' = call /\ processed' = processed
  BY AfterDocumentDelete
<1>2. \A j \in Ids : /\ jobs[j].doc \in Docs /\ jobs'[j].doc = jobs[j].doc
                     /\ jobs[j].doc # d => (Exists(j)' <=> Exists(j))
                     /\ jobs[j].doc = d => ~Exists(j)'
  BY <1>1, TableType DEF TypeOK, Row, RowsCleared, SameKeys, Exists
<1>3. Ids' = Ids /\ \A e \in Docs : (NoRows(e) => NoRows(e)') /\ (QueuedOnce(e)' <=> QueuedOnce(e))
  BY <1>1, <1>2 DEF NoRows, RowsCleared, QueuedOnce
<1>4. \A f \in Calls, e \in Docs : Enqueues(f, e)' <=> Enqueues(f, e)
  BY <1>1 DEF Enqueues
<1>5. NewIsBare' /\ FirstIsBare'
  BY <1>1, <1>3, <1>4 DEF NewIsBare, FirstIsBare, BareInv
<1>6. FirstRowsStay' /\ GoneIsBare'
  BY <1>1, <1>2, <1>3 DEF FirstRowsStay, GoneIsBare, BareInv
<1> QED
  BY <1>5, <1>6 DEF BareInv

(* The writes of the table that keep every row.                            *)
LEMMA ExistingKept ==
    /\ RowsKept => SameExisting
    /\ RowsRecovered => SameExisting
    /\ RowsClaimed => SameExisting
    /\ \A j, s : s # "deleted" /\ RowPut(j, s) => SameExisting
<1>1. RowsKept => SameExisting
  BY DEF RowsKept, SameExisting, Exists
<1>2. RowsRecovered => SameExisting
  BY DEF RowsRecovered, SameExisting, Exists
<1>3. RowsClaimed => SameExisting
  BY DEF RowsClaimed, SameExisting, Exists
<1>4. \A j, s : s # "deleted" /\ RowPut(j, s) => SameExisting
  BY DEF RowPut, SameExisting, Exists
<1> QED
  BY <1>1, <1>2, <1>3, <1>4

(* A write of a status deletes no document and brings none back.           *)
LEMMA GoneKept ==
    /\ docs' = docs => SameGone
    /\ \A d, s : s # "gone" /\ DocIs(d, s) => SameGone
BY DEF SameGone, DocIs

(* A call that goes elsewhere queues nothing new.                          *)
LEMMA EnqueuesKept ==
    /\ call' = call => NoNewEnqueues
    /\ \A c \in Calls : \A pc, todo :
          pc # "enqueue_ingest" /\ CallIs(c, pc, todo) => NoNewEnqueues
<1>1. call' = call => NoNewEnqueues
  BY DEF NoNewEnqueues, Enqueues
<1>2. ASSUME NEW c \in Calls, NEW pc, NEW todo, pc # "enqueue_ingest", CallIs(c, pc, todo)
      PROVE  NoNewEnqueues
  <2> SUFFICES ASSUME NEW e \in Calls, NEW d \in Docs, Enqueues(e, d)'
               PROVE  Enqueues(e, d)
    BY DEF NoNewEnqueues
  <2>1. e # c
    BY <1>2 DEF Enqueues, CallIs
  <2> QED
    BY <1>2, <2>1 DEF Enqueues, CallIs
<1> QED
  BY <1>1, <1>2

(* The ingest stage is added for a document that has been queued, by the   *)
(* one call that queues it.                                                *)
LEMMA BareEnqueued ==
    ASSUME TypeOK, BareInv, NEW c \in Calls, ProcessEnqueue(c)
    PROVE  BareInv'
<1>1. PICK d \in Docs :
        /\ d \in call[c].todo
        /\ \/ docs[d] = "gone" /\ RowsKept /\ CallIs(c, "idle", {})
           \/ /\ docs[d] # "gone" /\ RowAdded(d, "ingest")
              /\ CallIs(c, "set_queued", call[c].todo)
  BY AfterProcessEnqueue
<1>2. Enqueues(c, d) /\ docs' = docs /\ processed' = processed
  BY <1>1, AfterProcessEnqueue DEF Enqueues
<1>3. CASE RowsKept /\ CallIs(c, "idle", {})
  <2>1. SameExisting /\ SameGone /\ NoNewEnqueues
    BY <1>2, <1>3, ExistingKept, GoneKept, EnqueuesKept
  <2> QED
    BY <1>2, <2>1, BareKept
<1>4. CASE docs[d] # "gone" /\ RowAdded(d, "ingest") /\ CallIs(c, "set_queued", call[c].todo)
  <2>1. NoNewEnqueues /\ ~Enqueues(c, d)'
    BY <1>4, EnqueuesKept DEF CallIs, Enqueues
  <2>2. processed[d] # 0
    BY <1>2 DEF BareInv, NewIsBare
  <2>3. QueuedOnce(d) => \A e \in Calls : Enqueues(e, d) => e = c
    BY <1>2 DEF BareInv, FirstIsBare
  <2>4. QueuedOnce(d) => \A e \in Calls : ~Enqueues(e, d)'
    BY <2>1, <2>3 DEF NoNewEnqueues
  <2> QED
    BY <1>2, <1>4, <2>1, <2>2, <2>4, BareAdded
<1> QED
  BY <1>1, <1>3, <1>4

(* A successor is added for a document that has a row already.             *)
LEMMA BareSuccessor ==
    ASSUME TypeOK, BareInv, NEW c \in Calls, NEW j, EnqueueSuccessors(c, j)
    PROVE  BareInv'
<1>1. /\ j \in Ids /\ jobs[j].doc \in Docs
      /\ docs' = docs /\ call' = call /\ processed' = processed
  BY AfterEnqueueSuccessors, ActiveParts
<1>2. SameGone /\ NoNewEnqueues
  BY <1>1, GoneKept, EnqueuesKept
<1>3. CASE RowsKept
  BY <1>1, <1>2, <1>3, ExistingKept, BareKept
<1>4. CASE /\ docs[jobs[j].doc] # "gone"
           /\ RowAdded(jobs[j].doc, Successor[jobs[j].stage])
  <2>1. ~NoRows(jobs[j].doc)
    BY <1>1 DEF NoRows
  <2>2. processed[jobs[j].doc] # 0
    BY <1>1, <2>1 DEF BareInv, NewIsBare
  <2>3. QueuedOnce(jobs[j].doc) => \A e \in Calls : ~Enqueues(e, jobs[j].doc)
    BY <1>1, <2>1 DEF BareInv, FirstIsBare
  <2>4. \A e \in Calls : Enqueues(e, jobs[j].doc)' => Enqueues(e, jobs[j].doc)
    <3> DEFINE d == jobs[j].doc
    <3>1. \A e \in Calls : call'[e] = call[e]
      BY <1>1
    <3>2. d \in Docs
      BY <1>1
    <3>3. jobs'[j].doc = d
      BY <1>1, <1>4 DEF RowAdded, SameKeys
    <3> QED
      BY <3>1, <3>3 DEF Enqueues
  <2>5. ASSUME NEW d, d = jobs[j].doc, QueuedOnce(d) PROVE \A e \in Calls : ~Enqueues(e, d)'
    BY <1>1, <2>3, <2>5 DEF Enqueues
  <2>6. PICK d \in Docs : d = jobs[j].doc
    BY <1>1
  <2>7. RowAdded(d, Successor[jobs[j].stage]) /\ docs[d] # "gone" /\ processed[d] # 0
    BY <1>4, <2>2, <2>6
  <2> QED
    BY <1>1, <1>2, <2>5, <2>6, <2>7, BareAdded
<1> QED
  BY <1>3, <1>4, AfterEnqueueSuccessors

(* The invariant through every step.                                       *)
LEMMA BareStep ==
    ASSUME UInv, BareInv, WritesNoDeletion, [Next]_vars
    PROVE  BareInv'
<1>t. TypeOK /\ WInv /\ LiveUnique
  BY DEF UInv, WInv
<1>i. ASSUME SameExisting, SameGone, NoNewEnqueues, processed' = processed PROVE BareInv'
  BY <1>t, <1>i, BareKept
<1>1. ASSUME NEW c \in Calls, NEW d \in Docs, ProcessDelete(c, d) PROVE BareInv'
  BY <1>t, <1>1, BareQueued
<1>2. ASSUME NEW c \in Calls, ProcessEnqueue(c) PROVE BareInv'
  BY <1>t, <1>2, BareEnqueued
<1>3. ASSUME NEW c \in Calls, ProcessSetQueued(c) PROVE BareInv'
  BY <1>t, <1>i, <1>3, AfterProcessSetQueued, ExistingKept, GoneKept, EnqueuesKept
<1>4. ASSUME NEW d \in Docs, DocumentDelete(d) PROVE BareInv'
  BY <1>t, <1>4, BareDeleted
<1>w. ASSUME NEW d \in Docs, ProcessWithoutKey(d) PROVE BareInv'
  BY <1>t, <1>i, <1>w, AfterWithoutKey, ExistingKept, GoneKept, EnqueuesKept
<1>5. ASSUME NEW c \in Calls, StartDrain(c) \/ KickDrain(c) PROVE BareInv'
  BY <1>t, <1>i, <1>5, AfterRecover, ExistingKept, GoneKept, EnqueuesKept
<1>6. ASSUME NEW c \in Calls, Claim(c) PROVE BareInv'
  <2>1. CallIs(c, "idle", call[c].todo) \/ CallIs(c, "gather", call[c].todo)
    BY <1>t, <1>6, AfterClaim
  <2>2. RowsClaimed /\ docs' = docs /\ processed' = processed
    BY <1>t, <1>6, AfterClaim
  <2> QED
    BY <1>i, <2>1, <2>2, ExistingKept, GoneKept, EnqueuesKept
<1>7. ASSUME NEW c \in Calls, GatherReturns(c) PROVE BareInv'
  BY <1>t, <1>i, <1>7, AfterGather, ExistingKept, GoneKept, EnqueuesKept
<1>8. ASSUME NEW c \in Calls, DeriveRead(c) PROVE BareInv'
  BY <1>t, <1>i, <1>8, AfterDeriveRead, ExistingKept, GoneKept, EnqueuesKept
<1>9. ASSUME NEW c \in Calls, DeriveWrite(c) PROVE BareInv'
  <2>1. PICK w \in call[c].derived : /\ DocIs(w.doc, w.status)
                                     /\ CallIs(c, "derive", call[c].todo \ {w.doc})
    BY <1>t, <1>9, AfterDeriveWrite
  <2>2. w.status # "gone" /\ RowsKept /\ processed' = processed
    BY <1>t, <1>9, <2>1, AfterDeriveWrite DEF WritesNoDeletion
  <2> QED
    BY <1>i, <2>1, <2>2, ExistingKept, GoneKept, EnqueuesKept
<1>10. ASSUME NEW c \in Calls, BudgetSpent(c) \/ AbortedDrainEnds(c) PROVE BareInv'
  BY <1>t, <1>i, <1>10, AfterDrainEnd, ExistingKept, GoneKept, EnqueuesKept
<1>11. ASSUME NEW c \in Calls, NEW j, TaskStart(c, j) PROVE BareInv'
  <2>1. RowsKept /\ call' = call /\ processed' = processed
    BY <1>t, <1>11, AfterTaskStart
  <2>2. SameGone
    BY <1>t, <1>11, AfterTaskStart, GoneKept
  <2> QED
    BY <1>i, <2>1, <2>2, ExistingKept, EnqueuesKept
<1>12. ASSUME NEW c \in Calls, NEW j, TaskEnds(c, j) PROVE BareInv'
  BY <1>t, <1>i, <1>12, AfterTaskEnds, ExistingKept, GoneKept, EnqueuesKept
<1>13. ASSUME NEW c \in Calls, NEW j, EnqueueSuccessors(c, j) PROVE BareInv'
  BY <1>t, <1>13, BareSuccessor
<1>14. ASSUME NEW c \in Calls, NEW j, MarkDone(c, j) PROVE BareInv'
  BY <1>t, <1>i, <1>14, AfterMarkDone, ExistingKept, GoneKept, EnqueuesKept
<1>15. ASSUME NEW c \in Calls, NEW j, MarkFailed(c, j) PROVE BareInv'
  BY <1>t, <1>i, <1>15, AfterMarkFailed, ExistingKept, GoneKept, EnqueuesKept
<1>16. ASSUME NEW c \in Calls, NEW j, MarkFailedRaises(c, j) PROVE BareInv'
  BY <1>t, <1>16, NeverRaises
<1>17. ASSUME NEW j, (\E c \in Calls : Heartbeat(c, j)) \/ BackoffElapses(j) \/ LeaseLapses(j)
       PROVE  BareInv'
  BY <1>t, <1>i, <1>17, AfterTime, ExistingKept, GoneKept, EnqueuesKept
<1>18. ASSUME NEW p \in Procs, Crash(p) PROVE BareInv'
  <2>1. RowsKept /\ docs' = docs /\ processed' = processed
    BY <1>t, <1>18, AfterCrash
  <2>2. \A c \in Calls : call'[c] = call[c] \/ call'[c].pc = "idle"
    BY <1>t, <1>18, AfterCrash
  <2>3. NoNewEnqueues
    BY <2>2 DEF NoNewEnqueues, Enqueues
  <2> QED
    BY <1>i, <2>1, <2>3, ExistingKept, GoneKept
<1>19. CASE UNCHANGED vars
  BY <1>i, <1>19, RowsLeftAlone, ExistingKept, GoneKept, EnqueuesKept DEF vars
<1> QED
  BY <1>1, <1>2, <1>3, <1>4, <1>w, <1>5, <1>6, <1>7, <1>8, <1>9, <1>10, <1>11, <1>12, <1>13,
     <1>14, <1>15, <1>16, <1>17, <1>18, <1>19 DEF Next, CallStep, TaskStep

FInv == UInv /\ BareInv /\ WritesNoDeletion

(* The invariant so far is inductive.                                      *)
LEMMA FInvInductive ==
    ASSUME SlowStages = {}
    PROVE  (Init => FInv) /\ (FInv /\ [Next]_vars => FInv')
<1>1. Init => BareInv /\ WritesNoDeletion
  BY DEF Init, BareInv, NewIsBare, FirstIsBare, FirstRowsStay, GoneIsBare, WritesNoDeletion,
         NoRows, Enqueues, Ids, IdleCall
<1> QED
  BY <1>1, UInvInductive, BareStep, WritesNoDeletionStep DEF FInv

-----------------------------------------------------------------------------
(* The stages of a document that is queued once.  Without a crash there is *)
(* one job of each stage, and a job has another one after it only when it  *)
(* is done, or about to be marked so (a crash between the enqueue of the   *)
(* successor and the mark starts the stage again).                         *)

Before(j, k) == StageOrder[jobs[j].stage] < StageOrder[jobs[k].stage]

Marking(c, j) == Active(c, j) /\ task[c][j].pc = "mark_done"

Passed(j) == jobs[j].status = "done" \/ \E c \in Calls : Marking(c, j)

Chain ==
    \A j, k \in Ids :
        /\ QueuedOnce(jobs[j].doc) /\ Exists(j) /\ Exists(k)
        /\ SameDoc(j, k) /\ Before(j, k)
        => Passed(j)

OrderInv == crashes = 0 => StageIsQueuedOnce /\ Chain /\ BatchIsIndependent

(* The order of the stages is a number, and the successor's is the next.   *)
LEMMA StageNumbers ==
    /\ \A s \in Stages : StageOrder[s] \in Nat
    /\ \A s, t \in Stages : s = t \/ StageOrder[s] < StageOrder[t] \/ StageOrder[t] < StageOrder[s]
    /\ \A s \in Stages \ {"generate"} : /\ Successor[s] \in Stages
                                        /\ StageOrder[Successor[s]] = StageOrder[s] + 1
BY DEF Stages, StageOrder, Successor

(* A job that is worked on and not yet about to be marked done has no      *)
(* later job of its document.                                              *)
LEMMA NothingAfter ==
    ASSUME FInv, Chain, NEW c \in Calls, NEW j, Active(c, j), task[c][j].pc # "mark_done",
           Exists(j), QueuedOnce(jobs[j].doc), NEW k \in Ids, Exists(k), SameDoc(j, k)
    PROVE  ~Before(j, k)
<1>1. WInv /\ TypeOK
  BY DEF FInv, UInv, WInv
<1>2. j \in Ids /\ jobs[j].status = "claimed"
  BY <1>1, ActiveIds, WorkedIsLive
<1>3. \A e \in Calls : ~Marking(e, j)
  BY <1>1, <1>2 DEF WInv, OneWorkerPerJob, Marking
<1>4. ~Passed(j)
  BY <1>2, <1>3 DEF Passed
<1> QED
  BY <1>2, <1>4 DEF Chain

RowsLess == Ids' = Ids /\ SameKeys /\ \A j \in Ids : Exists(j)' => Exists(j)

DoneKept == \A j \in Ids : jobs[j].status = "done" /\ Exists(j)' => jobs'[j].status = "done"

MarkingKept == \A c \in Calls : \A j : Marking(c, j) => Marking(c, j)'

PassedKept == \A j \in Ids : Passed(j) /\ Exists(j)' => Passed(j)'

NoNewOnce == \A d \in Docs : QueuedOnce(d)' => QueuedOnce(d)

TasksLess == \A c \in Calls : DOMAIN task'[c] \subseteq DOMAIN task[c]

(* What is passed stays so while rows that are done and marks are kept.    *)
LEMMA PassedStays ==
    ASSUME DoneKept, MarkingKept
    PROVE  PassedKept
BY DEF DoneKept, MarkingKept, PassedKept, Passed

(* A step that adds no row keeps the order of the stages.                  *)
LEMMA ChainKept ==
    ASSUME TypeOK, StageIsQueuedOnce, Chain, RowsLess, NoNewOnce, PassedKept
    PROVE  StageIsQueuedOnce' /\ Chain'
<1>1. \A j \in Ids : /\ jobs[j].doc \in Docs /\ jobs'[j].doc = jobs[j].doc
                     /\ jobs'[j].stage = jobs[j].stage
  BY TableType DEF TypeOK, Row, RowsLess, SameKeys
<1>2. StageIsQueuedOnce'
  BY <1>1 DEF StageIsQueuedOnce, RowsLess, NoNewOnce
<1>3. Chain'
  <2> SUFFICES ASSUME NEW j \in Ids, NEW k \in Ids,
                      QueuedOnce(jobs[j].doc)', Exists(j)', Exists(k)',
                      SameDoc(j, k)', Before(j, k)'
               PROVE  Passed(j)'
    BY DEF Chain, RowsLess
  <2>1. SameDoc(j, k) /\ Before(j, k)
    BY <1>1 DEF SameDoc, Before
  <2>2. QueuedOnce(jobs[j].doc)
    <3>1. QueuedOnce(jobs[j].doc)' <=> processed'[jobs[j].doc] <= 1
      BY <1>1 DEF QueuedOnce
    <3> QED
      BY <1>1, <3>1 DEF QueuedOnce, NoNewOnce
  <2>3. Exists(j) /\ Exists(k)
    BY DEF RowsLess
  <2>4. Passed(j)
    BY <2>1, <2>2, <2>3 DEF Chain
  <2> QED
    BY <2>4 DEF PassedKept
<1> QED
  BY <1>2, <1>3

(* A step that starts no task keeps the rounds independent.                *)
LEMMA BatchKept ==
    ASSUME TypeOK, BatchIsIndependent, SameKeys, NoNewOnce, TasksLess
    PROVE  BatchIsIndependent'
<1> SUFFICES ASSUME NEW c \in Calls, NEW j \in DOMAIN task'[c], NEW k \in DOMAIN task'[c],
                    QueuedOnce(jobs[j].doc)', jobs'[j].doc = jobs'[k].doc
             PROVE  j = k
  BY DEF BatchIsIndependent
<1>1. j \in DOMAIN task[c] /\ k \in DOMAIN task[c]
  BY DEF TasksLess
<1>2. j \in Ids /\ k \in Ids
  BY <1>1 DEF TypeOK
<1>3. jobs'[j].doc = jobs[j].doc /\ jobs'[k].doc = jobs[k].doc /\ jobs[j].doc \in Docs
  BY <1>2, TableType DEF SameKeys, TypeOK, Row
<1>4. QueuedOnce(jobs[j].doc)
  BY <1>3 DEF QueuedOnce, NoNewOnce
<1> QED
  BY <1>1, <1>3, <1>4 DEF BatchIsIndependent

(* Both together.                                                          *)
LEMMA OrderKept ==
    ASSUME TypeOK, OrderInv, crashes' = crashes, RowsLess, NoNewOnce, PassedKept, TasksLess
    PROVE  OrderInv'
<1> SUFFICES ASSUME crashes = 0 PROVE StageIsQueuedOnce' /\ Chain' /\ BatchIsIndependent'
  BY DEF OrderInv
<1>1. StageIsQueuedOnce /\ Chain /\ BatchIsIndependent /\ SameKeys
  BY DEF OrderInv, RowsLess
<1> QED
  BY <1>1, ChainKept, BatchKept

(* The writes of the table that keep the rows that are done.               *)
LEMMA DoneRowsKept ==
    /\ RowsKept => RowsLess /\ DoneKept
    /\ \A d : RowsCleared(d) => RowsLess /\ DoneKept
    /\ RowsRecovered => RowsLess /\ DoneKept
    /\ RowsClaimed => RowsLess /\ DoneKept
    /\ \A j, s : (Exists(j) => jobs[j].status # "done") /\ RowPut(j, s) => RowsLess /\ DoneKept
<1>1. RowsKept => RowsLess /\ DoneKept
  BY DEF RowsKept, RowsLess, DoneKept, Exists
<1>2. \A d : RowsCleared(d) => RowsLess /\ DoneKept
  BY DEF RowsCleared, RowsLess, DoneKept, Exists
<1>3. RowsRecovered => RowsLess /\ DoneKept
  BY DEF RowsRecovered, RowsLess, DoneKept, Exists
<1>4. RowsClaimed => RowsLess /\ DoneKept
  BY DEF RowsClaimed, RowsLess, DoneKept, Exists
<1>5. \A j, s : (Exists(j) => jobs[j].status # "done") /\ RowPut(j, s) => RowsLess /\ DoneKept
  BY DEF RowPut, RowsLess, DoneKept, Exists
<1> QED
  BY <1>1, <1>2, <1>3, <1>4, <1>5

(* The steps of a task that is not about to be marked done.                *)
LEMMA MarksKept ==
    /\ task' = task => MarkingKept /\ TasksLess
    /\ \A c \in Calls : \A j, pc :
          task[c][j].pc # "mark_done" /\ TaskAt(c, j, pc) => MarkingKept /\ TasksLess
    /\ \A c \in Calls : AllFinished(c) /\ TasksEmptied(c) => MarkingKept /\ TasksLess
<1>1. task' = task => MarkingKept /\ TasksLess
  BY DEF MarkingKept, TasksLess, Marking, Active
<1>2. ASSUME NEW c \in Calls, NEW j, NEW pc, task[c][j].pc # "mark_done", TaskAt(c, j, pc)
      PROVE  MarkingKept /\ TasksLess
  BY <1>2 DEF MarkingKept, TasksLess, Marking, Active, TaskAt
<1>3. ASSUME NEW c \in Calls, AllFinished(c), TasksEmptied(c)
      PROVE  MarkingKept /\ TasksLess
  BY <1>3 DEF MarkingKept, TasksLess, Marking, Active, AllFinished, TasksEmptied
<1> QED
  BY <1>1, <1>2, <1>3

(* Queuing a document again is no step towards queuing it once.            *)
LEMMA OnceKept ==
    /\ processed' = processed => NoNewOnce
    /\ \A c \in Calls, d \in Docs : TypeOK /\ ProcessDelete(c, d) => NoNewOnce
<1>1. processed' = processed => NoNewOnce
  BY DEF NoNewOnce, QueuedOnce
<1>2. ASSUME NEW c \in Calls, NEW d \in Docs, TypeOK, ProcessDelete(c, d) PROVE NoNewOnce
  <2>1. /\ processed'[d] = processed[d] + 1 /\ processed[d] \in Nat
        /\ \A e \in Docs \ {d} : processed'[e] = processed[e]
    BY <1>2, AfterProcessDelete DEF TypeOK
  <2>2. QueuedOnce(d)' => QueuedOnce(d)
    BY <2>1 DEF QueuedOnce
  <2> QED
    BY <2>1, <2>2 DEF NoNewOnce, QueuedOnce
<1> QED
  BY <1>1, <1>2

(* A round claims no two jobs of a document: the earlier one would be      *)
(* done, or claimed by its worker.                                         *)
LEMMA OrderClaimed ==
    ASSUME FInv, OrderInv, NEW c \in Calls, Claim(c)
    PROVE  OrderInv'
<1> SUFFICES ASSUME crashes = 0 PROVE StageIsQueuedOnce' /\ Chain' /\ BatchIsIndependent'
  BY AfterClaim DEF OrderInv, FInv, UInv, WInv
<1>t. /\ TypeOK /\ WInv
      /\ StageIsQueuedOnce /\ Chain /\ BatchIsIndependent
  BY DEF OrderInv, FInv, UInv, WInv
<1>1. /\ call[c].pc \in {"claim", "derive"} /\ RowsClaimed /\ processed' = processed
      /\ DOMAIN task'[c] = Claimable
      /\ \A e \in Calls \ {c} : task'[e] = task[e]
  BY <1>t, AfterClaim
<1>2. RowsLess /\ DoneKept /\ NoNewOnce
  BY <1>1, DoneRowsKept, OnceKept
<1>3. MarkingKept
  <2>1. \A j : ~Active(c, j)
    BY <1>t, <1>1, ActiveIds DEF WInv, RestInv, Waits
  <2> QED
    BY <1>1, <2>1 DEF MarkingKept, Marking, Active
<1>4. StageIsQueuedOnce' /\ Chain'
  BY <1>t, <1>2, <1>3, PassedStays, ChainKept
<1>5. ASSUME NEW j \in Claimable, NEW k \in Claimable, QueuedOnce(jobs[j].doc), SameDoc(j, k)
      PROVE  j = k
  <2>1. /\ j \in Ids /\ k \in Ids /\ jobs[j] \in Row /\ jobs[k] \in Row
        /\ jobs[j].status = "pending" /\ jobs[k].status = "pending"
    BY <1>t, <1>1, TableType DEF RowsClaimed, TypeOK
  <2>2. Exists(j) /\ Exists(k)
    BY <2>1 DEF Exists
  <2>3. ~Passed(j) /\ ~Passed(k)
    BY <1>t, <2>1, <2>2, WorkedIsLive DEF Passed, Marking
  <2>4. ~Before(j, k) /\ ~Before(k, j)
    BY <1>t, <1>5, <2>1, <2>2, <2>3 DEF Chain, SameDoc, QueuedOnce
  <2>5. jobs[j].stage = jobs[k].stage
    BY <2>1, <2>4, StageNumbers DEF Before, Row
  <2> QED
    BY <1>t, <1>5, <2>1, <2>2, <2>5 DEF StageIsQueuedOnce, SameDoc
<1>6. BatchIsIndependent'
  <2> SUFFICES ASSUME NEW e \in Calls, NEW j \in DOMAIN task'[e], NEW k \in DOMAIN task'[e],
                      QueuedOnce(jobs[j].doc)', jobs'[j].doc = jobs'[k].doc
               PROVE  j = k
    BY DEF BatchIsIndependent
  <2>1. j \in Ids /\ k \in Ids
    <3>1. DOMAIN task[e] \subseteq Ids /\ Claimable \subseteq Ids
      BY <1>t, ClaimableIds DEF TypeOK
    <3> QED
      BY <1>1, <3>1
  <2>2. jobs'[j].doc = jobs[j].doc /\ jobs'[k].doc = jobs[k].doc /\ jobs[j].doc \in Docs
    BY <1>t, <1>2, <2>1, TableType DEF RowsLess, SameKeys, TypeOK, Row
  <2>3. QueuedOnce(jobs[j].doc) /\ SameDoc(j, k)
    BY <1>2, <2>2 DEF QueuedOnce, NoNewOnce, SameDoc
  <2>4. CASE e = c
    BY <1>1, <1>5, <2>3, <2>4
  <2>5. CASE e # c
    BY <1>t, <1>1, <2>3, <2>5 DEF BatchIsIndependent, SameDoc
  <2> QED
    BY <2>4, <2>5
<1> QED
  BY <1>4, <1>6

(* What a row added to the table must satisfy to keep the order.           *)
LEMMA ChainAdded ==
    ASSUME TypeOK, StageIsQueuedOnce, Chain, NEW d \in Docs, NEW s, RowAdded(d, s), NoNewOnce,
           PassedKept, s \in Stages,
           \A k \in Ids : QueuedOnce(d) /\ Exists(k) /\ jobs[k].doc = d =>
               /\ StageOrder[jobs[k].stage] < StageOrder[s]
               /\ Passed(k)'
               /\ StageOrder[jobs[k].stage] \in Nat /\ StageOrder[s] \in Nat
    PROVE  StageIsQueuedOnce' /\ Chain'
<1>1. \A j \in Ids : /\ jobs[j].doc \in Docs /\ jobs'[j].doc = jobs[j].doc
                     /\ jobs'[j].stage = jobs[j].stage /\ (Exists(j)' <=> Exists(j))
  BY TableType DEF TypeOK, Row, RowAdded, SameKeys, Exists
<1>2. CASE Ids' = Ids
  <2>1. RowsLess
    BY <1>1, <1>2 DEF RowsLess, SameKeys
  <2> QED
    BY <2>1, ChainKept
<1>3. CASE Ids' # Ids
  <2>1. PICK n : /\ n \notin Ids /\ Ids' = Ids \cup {n}
                 /\ jobs'[n].doc = d /\ jobs'[n].stage = s
    BY <1>3 DEF RowAdded
  <2>2. \A e \in Docs : QueuedOnce(e)' => QueuedOnce(e)
    BY DEF NoNewOnce
  <2>3. ASSUME NEW j \in Ids', NEW k \in Ids', QueuedOnce(jobs[j].doc)', Exists(j)', Exists(k)',
               jobs'[j].doc = jobs'[k].doc
        PROVE  /\ jobs'[j].stage = jobs'[k].stage => j = k
               /\ StageOrder[jobs'[j].stage] < StageOrder[jobs'[k].stage] => Passed(j)'
    <3>0. processed'[jobs'[j].doc] <= 1 /\ jobs'[j].doc \in Docs
      BY <1>1, <2>1, <2>3 DEF QueuedOnce
    <3>1. QueuedOnce(jobs'[j].doc)
      <4>1. PICK e \in Docs : e = jobs'[j].doc
        BY <3>0
      <4>2. QueuedOnce(e)'
        BY <3>0, <4>1 DEF QueuedOnce
      <4> QED
        BY <2>2, <4>1, <4>2
    <3>2. CASE j \in Ids /\ k \in Ids
      <4>1. QueuedOnce(jobs[j].doc) /\ Exists(j) /\ Exists(k) /\ SameDoc(j, k)
        BY <1>1, <2>3, <3>1, <3>2 DEF SameDoc
      <4>2. jobs[j].stage = jobs[k].stage => j = k
        BY <3>2, <4>1 DEF StageIsQueuedOnce, SameDoc
      <4>3. Before(j, k) => Passed(j)'
        BY <2>3, <3>2, <4>1 DEF Chain, PassedKept
      <4> QED
        BY <1>1, <3>2, <4>2, <4>3 DEF Before
    <3>3. CASE j \in Ids /\ k = n
      <4>1. jobs[j].doc = d /\ Exists(j) /\ QueuedOnce(d)
        BY <1>1, <2>1, <2>3, <3>1, <3>3
      <4>2. StageOrder[jobs[j].stage] < StageOrder[s] /\ Passed(j)'
            /\ StageOrder[jobs[j].stage] \in Nat /\ StageOrder[s] \in Nat
        BY <3>3, <4>1
      <4>3. jobs'[j].stage # s
        BY <1>1, <3>3, <4>2
      <4> QED
        BY <2>1, <3>3, <4>2, <4>3
    <3>4. CASE j = n /\ k \in Ids
      <4>1. jobs[k].doc = d /\ Exists(k) /\ QueuedOnce(d)
        BY <1>1, <2>1, <2>3, <3>1, <3>4
      <4>2. StageOrder[jobs[k].stage] < StageOrder[s]
            /\ StageOrder[jobs[k].stage] \in Nat /\ StageOrder[s] \in Nat
        BY <3>4, <4>1
      <4>3. jobs'[j].stage = s /\ jobs'[k].stage = jobs[k].stage
        BY <1>1, <2>1, <3>4
      <4> QED
        BY <4>2, <4>3
    <3>5. CASE j = n /\ k = n
      <4>1. ~(StageOrder[s] < StageOrder[s])
        BY StageNumbers
      <4>2. jobs'[j].stage = s /\ jobs'[k].stage = s
        BY <2>1, <3>5
      <4> QED
        BY <3>5, <4>1, <4>2
    <3> QED
      BY <2>1, <3>2, <3>3, <3>4, <3>5
  <2>4. StageIsQueuedOnce'
    BY <2>3 DEF StageIsQueuedOnce
  <2>5. Chain'
    BY <2>3 DEF Chain, SameDoc, Before
  <2> QED
    BY <2>4, <2>5
<1> QED
  BY <1>2, <1>3

(* The ingest stage of a document that is queued once is its first row.    *)
LEMMA OrderEnqueued ==
    ASSUME FInv, OrderInv, NEW c \in Calls, ProcessEnqueue(c)
    PROVE  OrderInv'
<1>t. TypeOK /\ WInv
  BY DEF FInv, UInv, WInv
<1>1. PICK d \in Docs :
        /\ d \in call[c].todo
        /\ \/ docs[d] = "gone" /\ RowsKept /\ CallIs(c, "idle", {})
           \/ /\ docs[d] # "gone" /\ RowAdded(d, "ingest")
              /\ CallIs(c, "set_queued", call[c].todo)
  BY <1>t, AfterProcessEnqueue
<1>2. Enqueues(c, d) /\ UNCHANGED <<docs, task, processed, crashes>>
  BY <1>t, <1>1, AfterProcessEnqueue DEF Enqueues
<1>3. NoNewOnce /\ MarkingKept /\ TasksLess
  BY <1>2, OnceKept, MarksKept
<1>4. CASE RowsKept
  BY <1>t, <1>2, <1>3, <1>4, DoneRowsKept, PassedStays, OrderKept
<1>5. CASE RowAdded(d, "ingest")
  <2> SUFFICES ASSUME crashes = 0 PROVE StageIsQueuedOnce' /\ Chain' /\ BatchIsIndependent'
    BY <1>2 DEF OrderInv
  <2>1. StageIsQueuedOnce /\ Chain /\ BatchIsIndependent
    BY DEF OrderInv
  <2>2. DoneKept /\ SameKeys
    BY <1>5 DEF RowAdded, DoneKept
  <2>3. (QueuedOnce(d) => NoRows(d)) /\ "ingest" \in Stages
    BY <1>2 DEF Stages, FInv, BareInv, FirstIsBare
  <2>4. StageIsQueuedOnce' /\ Chain'
    BY <1>t, <1>3, <1>5, <2>1, <2>2, <2>3, PassedStays, ChainAdded DEF NoRows
  <2> QED
    BY <1>t, <1>3, <2>1, <2>2, <2>4, BatchKept
<1> QED
  BY <1>1, <1>4, <1>5

(* The successor of a stage is the last one of its document, and all       *)
(* others are done or about to be marked so.                               *)
LEMMA OrderSuccessor ==
    ASSUME FInv, OrderInv, NEW c \in Calls, NEW j, EnqueueSuccessors(c, j)
    PROVE  OrderInv'
<1>t. TypeOK /\ WInv
  BY DEF FInv, UInv, WInv
<1>1. /\ Active(c, j) /\ task[c][j].pc = "enqueue"
      /\ j \in Ids /\ j \in DOMAIN task[c] /\ jobs[j].doc \in Docs /\ jobs[j] \in Row
      /\ UNCHANGED <<docs, call, processed, crashes>>
  BY <1>t, AfterEnqueueSuccessors, ActiveParts
<1>2. /\ \E pc : TaskAt(c, j, pc)
      /\ \/ RowsKept
         \/ /\ jobs[j].stage # "generate" /\ docs[jobs[j].doc] # "gone"
            /\ RowAdded(jobs[j].doc, Successor[jobs[j].stage])
            /\ TaskAt(c, j, "mark_done")
  BY <1>t, AfterEnqueueSuccessors
<1>3. NoNewOnce /\ MarkingKept /\ TasksLess
  BY <1>1, <1>2, OnceKept, MarksKept
<1>4. CASE RowsKept
  BY <1>t, <1>1, <1>3, <1>4, DoneRowsKept, PassedStays, OrderKept
<1>5. CASE /\ jobs[j].stage # "generate" /\ docs[jobs[j].doc] # "gone"
           /\ RowAdded(jobs[j].doc, Successor[jobs[j].stage])
           /\ TaskAt(c, j, "mark_done")
  <2> SUFFICES ASSUME crashes = 0 PROVE StageIsQueuedOnce' /\ Chain' /\ BatchIsIndependent'
    BY <1>1 DEF OrderInv
  <2>1. StageIsQueuedOnce /\ Chain /\ BatchIsIndependent
    BY DEF OrderInv
  <2>2. DoneKept /\ SameKeys
    BY <1>5 DEF RowAdded, DoneKept
  <2>3. PassedKept
    BY <1>3, <2>2, PassedStays
  <2> DEFINE d == jobs[j].doc
             s == Successor[jobs[j].stage]
  <2>4. Marking(c, j)'
    BY <1>1, <1>5 DEF TaskAt, Marking, Active
  <2>5. jobs[j].stage \in Stages /\ s \in Stages /\ StageOrder[s] = StageOrder[jobs[j].stage] + 1
    BY <1>1, <1>5, StageNumbers DEF Row
  <2>6. ASSUME NEW k \in Ids, QueuedOnce(d), Exists(k), jobs[k].doc = d
        PROVE  /\ StageOrder[jobs[k].stage] < StageOrder[s]
               /\ Passed(k)'
               /\ StageOrder[jobs[k].stage] \in Nat /\ StageOrder[s] \in Nat
    <3>1. jobs[k].stage \in Stages
      BY <1>t, TableType DEF Row, TypeOK
    <3>2. Exists(j)
      BY <1>1, <1>5, <2>6 DEF FInv, BareInv, FirstRowsStay
    <3>3. ~Before(j, k)
      BY <1>1, <2>1, <2>6, <3>2, NothingAfter DEF SameDoc
    <3>4. CASE k = j
      <4>1. Passed(k)'
        BY <2>4, <3>4 DEF Passed
      <4> QED
        BY <2>5, <3>4, <4>1, StageNumbers
    <3>5. CASE k # j
      <4>1. jobs[k].stage # jobs[j].stage
        BY <1>1, <2>1, <2>6, <3>2, <3>5 DEF StageIsQueuedOnce
      <4>2. Before(k, j)
        BY <2>5, <3>1, <3>3, <4>1, StageNumbers DEF Before
      <4>3. Passed(k)
        BY <1>1, <2>1, <2>6, <3>2, <4>2 DEF Chain, SameDoc
      <4>4. Exists(k)'
        BY <1>5, <2>6 DEF RowAdded, Exists
      <4>5. Passed(k)'
        BY <2>3, <4>3, <4>4 DEF PassedKept
      <4> QED
        BY <2>5, <3>1, <4>2, <4>5, StageNumbers DEF Before
    <3> QED
      BY <3>4, <3>5
  <2>7. RowAdded(d, s) /\ d \in Docs /\ s \in Stages
    BY <1>1, <1>5, <2>5
  <2> HIDE DEF d, s
  <2>8. StageIsQueuedOnce' /\ Chain'
    BY <1>t, <1>3, <2>1, <2>3, <2>6, <2>7, ChainAdded
  <2> QED
    BY <1>t, <1>3, <2>1, <2>2, <2>8, BatchKept
<1> QED
  BY <1>2, <1>4, <1>5

(* A job that is marked done passes, its document's other jobs as before.  *)
LEMMA OrderMarked ==
    ASSUME FInv, OrderInv, NEW c \in Calls, NEW j, MarkDone(c, j)
    PROVE  OrderInv'
<1>t. TypeOK /\ WInv
  BY DEF FInv, UInv, WInv
<1>1. /\ Active(c, j) /\ RowPut(j, "done") /\ TaskAt(c, j, "finished")
      /\ j \in Ids
      /\ UNCHANGED <<docs, call, processed, crashes>>
  BY <1>t, AfterMarkDone, ActiveIds
<1>2. RowsLess /\ DoneKept
  BY <1>t, <1>1, WorkedIsLive, DoneRowsKept
<1>3. NoNewOnce /\ TasksLess
  BY <1>1, OnceKept DEF TaskAt, TasksLess
<1>4. PassedKept
  <2> SUFFICES ASSUME NEW k \in Ids, Passed(k), Exists(k)' PROVE Passed(k)'
    BY DEF PassedKept
  <2>1. CASE k = j
    BY <1>1, <2>1 DEF RowPut, Passed, Exists
  <2>2. CASE k # j
    <3>1. \A e \in Calls : Marking(e, k) => Marking(e, k)'
      BY <1>1, <2>2 DEF TaskAt, Marking, Active
    <3> QED
      BY <1>2, <3>1 DEF Passed, DoneKept
  <2> QED
    BY <2>1, <2>2
<1> QED
  BY <1>t, <1>1, <1>2, <1>3, <1>4, OrderKept

(* A job that fails had not passed.                                        *)
LEMMA OrderFailed ==
    ASSUME FInv, OrderInv, NEW c \in Calls, NEW j, MarkFailed(c, j)
    PROVE  OrderInv'
<1>t. TypeOK /\ WInv
  BY DEF FInv, UInv, WInv
<1>1. /\ Active(c, j) /\ task[c][j].pc = "mark_failed" /\ TaskAt(c, j, "finished")
      /\ UNCHANGED <<docs, call, processed, crashes>>
  BY <1>t, AfterMarkFailed
<1>2. PICK s : RowPut(j, s)
  BY <1>t, AfterMarkFailed
<1>3. RowsLess /\ DoneKept
  BY <1>t, <1>1, <1>2, WorkedIsLive, DoneRowsKept
<1>4. NoNewOnce /\ MarkingKept /\ TasksLess
  BY <1>1, OnceKept, MarksKept
<1> QED
  BY <1>t, <1>1, <1>3, <1>4, PassedStays, OrderKept

(* The order of the stages through every step.                             *)
LEMMA OrderStep ==
    ASSUME FInv, OrderInv, [Next]_vars
    PROVE  OrderInv'
<1>t. TypeOK /\ WInv /\ LiveUnique
  BY DEF FInv, UInv, WInv
<1>i. ASSUME RowsLess, DoneKept, MarkingKept, TasksLess, NoNewOnce, crashes' = crashes
      PROVE  OrderInv'
  BY <1>t, <1>i, PassedStays, OrderKept
<1>1. ASSUME NEW c \in Calls, NEW d \in Docs, ProcessDelete(c, d) PROVE OrderInv'
  BY <1>t, <1>i, <1>1, AfterProcessDelete, DoneRowsKept, MarksKept, OnceKept
<1>2. ASSUME NEW c \in Calls, ProcessEnqueue(c) PROVE OrderInv'
  BY <1>2, OrderEnqueued
<1>3. ASSUME NEW c \in Calls, ProcessSetQueued(c) PROVE OrderInv'
  BY <1>t, <1>i, <1>3, AfterProcessSetQueued, DoneRowsKept, MarksKept, OnceKept
<1>4. ASSUME NEW d \in Docs, DocumentDelete(d) PROVE OrderInv'
  BY <1>t, <1>i, <1>4, AfterDocumentDelete, DoneRowsKept, MarksKept, OnceKept
<1>w. ASSUME NEW d \in Docs, ProcessWithoutKey(d) PROVE OrderInv'
  BY <1>t, <1>i, <1>w, AfterWithoutKey, DoneRowsKept, MarksKept, OnceKept
<1>5. ASSUME NEW c \in Calls, StartDrain(c) \/ KickDrain(c) PROVE OrderInv'
  BY <1>t, <1>i, <1>5, AfterRecover, DoneRowsKept, MarksKept, OnceKept
<1>6. ASSUME NEW c \in Calls, Claim(c) PROVE OrderInv'
  BY <1>6, OrderClaimed
<1>7. ASSUME NEW c \in Calls, GatherReturns(c) PROVE OrderInv'
  BY <1>t, <1>i, <1>7, AfterGather, DoneRowsKept, MarksKept, OnceKept
<1>8. ASSUME NEW c \in Calls, DeriveRead(c) PROVE OrderInv'
  BY <1>t, <1>i, <1>8, AfterDeriveRead, DoneRowsKept, MarksKept, OnceKept
<1>9. ASSUME NEW c \in Calls, DeriveWrite(c) PROVE OrderInv'
  BY <1>t, <1>i, <1>9, AfterDeriveWrite, DoneRowsKept, MarksKept, OnceKept
<1>10. ASSUME NEW c \in Calls, BudgetSpent(c) \/ AbortedDrainEnds(c) PROVE OrderInv'
  BY <1>t, <1>i, <1>10, AfterDrainEnd, DoneRowsKept, MarksKept, OnceKept
<1>11. ASSUME NEW c \in Calls, NEW j, TaskStart(c, j) PROVE OrderInv'
  <2>1. PICK pc : TaskAt(c, j, pc)
    BY <1>t, <1>11, AfterTaskStart
  <2>2. RowsKept /\ processed' = processed /\ crashes' = crashes /\ task[c][j].pc = "start"
    BY <1>t, <1>11, AfterTaskStart
  <2> QED
    BY <1>i, <2>1, <2>2, DoneRowsKept, MarksKept, OnceKept
<1>12. ASSUME NEW c \in Calls, NEW j, TaskEnds(c, j) PROVE OrderInv'
  <2>1. PICK pc : TaskAt(c, j, pc)
    BY <1>t, <1>12, AfterTaskEnds
  <2>2. RowsKept /\ processed' = processed /\ crashes' = crashes /\ task[c][j].pc = "running"
    BY <1>t, <1>12, AfterTaskEnds
  <2> QED
    BY <1>i, <2>1, <2>2, DoneRowsKept, MarksKept, OnceKept
<1>13. ASSUME NEW c \in Calls, NEW j, EnqueueSuccessors(c, j) PROVE OrderInv'
  BY <1>13, OrderSuccessor
<1>14. ASSUME NEW c \in Calls, NEW j, MarkDone(c, j) PROVE OrderInv'
  BY <1>14, OrderMarked
<1>15. ASSUME NEW c \in Calls, NEW j, MarkFailed(c, j) PROVE OrderInv'
  BY <1>15, OrderFailed
<1>16. ASSUME NEW c \in Calls, NEW j, MarkFailedRaises(c, j) PROVE OrderInv'
  BY <1>t, <1>16, NeverRaises
<1>17. ASSUME NEW j, (\E c \in Calls : Heartbeat(c, j)) \/ BackoffElapses(j) \/ LeaseLapses(j)
       PROVE  OrderInv'
  BY <1>t, <1>i, <1>17, AfterTime, DoneRowsKept, MarksKept, OnceKept
<1>18. ASSUME NEW p \in Procs, Crash(p) PROVE OrderInv'
  <2>1. crashes' = crashes + 1 /\ crashes \in Nat
    BY <1>t, <1>18, AfterCrash DEF TypeOK
  <2>2. crashes' # 0
    BY <2>1
  <2> QED
    BY <2>2 DEF OrderInv
<1>19. CASE UNCHANGED vars
  BY <1>i, <1>19, RowsLeftAlone, DoneRowsKept, MarksKept, OnceKept DEF vars
<1> QED
  BY <1>1, <1>2, <1>3, <1>4, <1>w, <1>5, <1>6, <1>7, <1>8, <1>9, <1>10, <1>11, <1>12, <1>13,
     <1>14, <1>15, <1>16, <1>17, <1>18, <1>19 DEF Next, CallStep, TaskStep

OInv == FInv /\ OrderInv

(* The invariant so far is inductive.                                      *)
LEMMA OInvInductive ==
    ASSUME SlowStages = {}
    PROVE  (Init => OInv) /\ (OInv /\ [Next]_vars => OInv')
<1>1. Init => OrderInv
  BY NoTaskType DEF Init, OrderInv, StageIsQueuedOnce, Chain, BatchIsIndependent, Ids
<1> QED
  BY <1>1, FInvInductive, OrderStep DEF OInv

(* enqueue_successors() is idempotent: as long as no process dies, every   *)
(* stage of a document queued once has one job, with any number of         *)
(* processes and drains.                                                   *)
THEOREM StageIsQueuedOnceCorrect ==
    ASSUME SlowStages = {}
    PROVE  Spec => [](crashes = 0 => StageIsQueuedOnce)
<1>1. OInv => (crashes = 0 => StageIsQueuedOnce)
  BY DEF OInv, OrderInv
<1>2. (Init => OInv) /\ (OInv /\ [Next]_vars => OInv')
  BY OInvInductive
<1> QED
  BY <1>1, <1>2, PTL DEF Spec

(* As long as no process dies, the jobs of a round are of different        *)
(* documents, with any number of processes and drains.                     *)
THEOREM BatchIsIndependentCorrect ==
    ASSUME SlowStages = {}
    PROVE  Spec => [](crashes = 0 => BatchIsIndependent)
<1>1. OInv => (crashes = 0 => BatchIsIndependent)
  BY DEF OInv, OrderInv
<1>2. (Init => OInv) /\ (OInv /\ [Next]_vars => OInv')
  BY OInvInductive
<1> QED
  BY <1>1, <1>2, PTL DEF Spec

-----------------------------------------------------------------------------
(* One process.  Its event loop lets one coroutine at a time go on between *)
(* two awaits, so nothing comes between the enqueue of a successor and the *)
(* mark, or between the read of a status and its write.                    *)

OneProcess == \A p, q \in Procs : p = q

NothingHot ==
    \A c \in Calls : ~HotCall(c) /\ \A j \in DOMAIN task[c] : ~HotTask(c, j)

OneHot ==
    /\ \A c, e \in Calls : HotCall(c) /\ HotCall(e) => c = e
    /\ \A c, e \in Calls : HotCall(c) => \A j \in DOMAIN task[e] : ~HotTask(e, j)
    /\ \A c, e \in Calls : \A j \in DOMAIN task[c], k \in DOMAIN task[e] :
          HotTask(c, j) /\ HotTask(e, k) => c = e /\ j = k

HotLess ==
    /\ \A c \in Calls : HotCall(c)' => HotCall(c)
    /\ \A c \in Calls : \A j \in DOMAIN task'[c] :
          HotTask(c, j)' => j \in DOMAIN task[c] /\ HotTask(c, j)

(* When the loop of the process is free, no coroutine is hot.              *)
LEMMA FreeIsQuiet ==
    ASSUME OneProcess, NEW p \in Procs, LoopFree(p)
    PROVE  NothingHot
<1>1. \A c \in Calls : Home[c] = p
  BY ConstantsAssumption DEF OneProcess
<1> QED
  BY <1>1 DEF LoopFree, NothingHot

(* The same, for the process of a call.                                    *)
LEMMA FreeAtHome ==
    ASSUME OneProcess, NEW c \in Calls, LoopFree(Home[c])
    PROVE  NothingHot
<1>1. Home[c] \in Procs
  BY ConstantsAssumption
<1> QED
  BY <1>1, FreeIsQuiet

(* A step that makes nothing hot.                                          *)
LEMMA HotKept ==
    ASSUME OneHot, HotLess
    PROVE  OneHot'
<1>1. \A c, e \in Calls : HotCall(c)' /\ HotCall(e)' => c = e
  BY DEF OneHot, HotLess
<1>2. \A c, e \in Calls : HotCall(c)' => \A j \in DOMAIN task'[e] : ~HotTask(e, j)'
  BY DEF OneHot, HotLess
<1>3. \A c, e \in Calls : \A j \in DOMAIN task'[c], k \in DOMAIN task'[e] :
         HotTask(c, j)' /\ HotTask(e, k)' => c = e /\ j = k
  BY DEF OneHot, HotLess
<1> QED
  BY <1>1, <1>2, <1>3 DEF OneHot

(* A call that goes on from an await, the tasks staying where they are.    *)
LEMMA HotCallStarts ==
    ASSUME NothingHot, NEW c \in Calls, NEW pc, NEW todo, CallIs(c, pc, todo),
           task' = task \/ TasksEmptied(c)
    PROVE  OneHot'
<1>1. \A e \in Calls \ {c} : ~HotCall(e)'
  BY DEF NothingHot, HotCall, CallIs
<1>2. \A e \in Calls : \A j \in DOMAIN task'[e] : ~HotTask(e, j)'
  BY DEF NothingHot, HotTask, TasksEmptied
<1> QED
  BY <1>1, <1>2 DEF OneHot

(* A task that goes on from an await.                                      *)
LEMMA HotTaskStarts ==
    ASSUME NothingHot, NEW c \in Calls, NEW j, NEW pc, TaskAt(c, j, pc), call' = call
    PROVE  OneHot'
<1>1. \A e \in Calls : ~HotCall(e)'
  BY DEF NothingHot, HotCall
<1>2. \A e \in Calls : \A k \in DOMAIN task'[e] : HotTask(e, k)' => e = c /\ k = j
  BY DEF NothingHot, HotTask, TaskAt
<1> QED
  BY <1>1, <1>2 DEF OneHot

(* A hot call that goes on, to its next transaction or to an await.        *)
LEMMA HotCallGoes ==
    ASSUME OneHot, NEW c \in Calls, HotCall(c), NEW pc, NEW todo, CallIs(c, pc, todo),
           task' = task
    PROVE  OneHot'
<1>1. HotLess
  BY DEF HotLess, HotCall, HotTask, CallIs
<1> QED
  BY <1>1, HotKept

(* A hot task that goes on.                                                *)
LEMMA HotTaskGoes ==
    ASSUME OneHot, NEW c \in Calls, NEW j \in DOMAIN task[c], HotTask(c, j), NEW pc,
           TaskAt(c, j, pc), call' = call
    PROVE  OneHot'
<1>1. \A e \in Calls : HotCall(e)' => HotCall(e)
  BY DEF HotCall
<1>2. \A e \in Calls : \A k \in DOMAIN task'[e] :
         HotTask(e, k)' => k \in DOMAIN task[e] /\ HotTask(e, k)
  BY DEF HotTask, TaskAt
<1> QED
  BY <1>1, <1>2, HotKept DEF HotLess

(* At most one coroutine of the process is hot, through every step.        *)
LEMMA HotStep ==
    ASSUME OneProcess, UInv, OneHot, [Next]_vars
    PROVE  OneHot'
<1>t. TypeOK /\ WInv /\ LiveUnique
  BY DEF UInv, WInv
<1>k. ASSUME call' = call, task' = task PROVE OneHot'
  BY <1>k, HotKept DEF HotLess, HotCall, HotTask
<1>1. ASSUME NEW c \in Calls, NEW d \in Docs, ProcessDelete(c, d) PROVE OneHot'
  BY <1>t, <1>1, AfterProcessDelete, FreeAtHome, HotCallStarts
<1>2. ASSUME NEW c \in Calls, ProcessEnqueue(c) PROVE OneHot'
  <2>1. HotCall(c) /\ task' = task
    BY <1>t, <1>2, AfterProcessEnqueue DEF HotCall
  <2>2. \E pc, todo : CallIs(c, pc, todo)
    BY <1>t, <1>2, AfterProcessEnqueue
  <2> QED
    BY <2>1, <2>2, HotCallGoes
<1>3. ASSUME NEW c \in Calls, ProcessSetQueued(c) PROVE OneHot'
  <2>1. HotCall(c) /\ task' = task /\ CallIs(c, "kicked", {})
    BY <1>t, <1>3, AfterProcessSetQueued DEF HotCall
  <2> QED
    BY <2>1, HotCallGoes
<1>4. ASSUME NEW d \in Docs, DocumentDelete(d) PROVE OneHot'
  BY <1>t, <1>k, <1>4, AfterDocumentDelete
<1>w. ASSUME NEW d \in Docs, ProcessWithoutKey(d) PROVE OneHot'
  BY <1>t, <1>k, <1>w, AfterWithoutKey
<1>5. ASSUME NEW c \in Calls, StartDrain(c) \/ KickDrain(c) PROVE OneHot'
  BY <1>t, <1>5, AfterRecover, FreeAtHome, HotCallStarts
<1>6. ASSUME NEW c \in Calls, Claim(c) PROVE OneHot'
  <2>1. /\ HotCall(c)
        /\ \E pc : CallIs(c, pc, call[c].todo)
        /\ \A j \in DOMAIN task'[c] : task'[c][j].pc = "start"
        /\ \A e \in Calls \ {c} : task'[e] = task[e]
    BY <1>t, <1>6, AfterClaim DEF HotCall
  <2>2. \A e \in Calls : HotCall(e)' => HotCall(e)
    BY <2>1 DEF HotCall, CallIs
  <2>3. \A j \in DOMAIN task'[c] : ~HotTask(c, j)'
    BY <2>1 DEF HotTask
  <2>4. HotLess
    BY <2>1, <2>2, <2>3 DEF HotLess, HotTask
  <2> QED
    BY <2>4, HotKept
<1>7. ASSUME NEW c \in Calls, GatherReturns(c) PROVE OneHot'
  BY <1>t, <1>7, AfterGather, FreeAtHome, HotCallStarts
<1>8. ASSUME NEW c \in Calls, DeriveRead(c) PROVE OneHot'
  <2>1. HotCall(c) /\ task' = task
    BY <1>t, <1>8, AfterDeriveRead DEF HotCall
  <2>2. \E pc, todo : CallIs(c, pc, todo)
    BY <1>t, <1>8, AfterDeriveRead
  <2> QED
    BY <2>1, <2>2, HotCallGoes
<1>9. ASSUME NEW c \in Calls, DeriveWrite(c) PROVE OneHot'
  <2>1. HotCall(c) /\ task' = task
    BY <1>t, <1>9, AfterDeriveWrite DEF HotCall
  <2>2. \E pc, todo : CallIs(c, pc, todo)
    BY <1>t, <1>9, AfterDeriveWrite
  <2> QED
    BY <2>1, <2>2, HotCallGoes
<1>10. ASSUME NEW c \in Calls, BudgetSpent(c) \/ AbortedDrainEnds(c) PROVE OneHot'
  <2>1. /\ CallIs(c, "idle", call[c].todo)
        /\ \/ HotCall(c) /\ task' = task
           \/ NothingHot /\ TasksEmptied(c)
    BY <1>t, <1>10, AfterDrainEnd, FreeAtHome DEF HotCall
  <2> QED
    BY <2>1, HotCallGoes, HotCallStarts
<1>11. ASSUME NEW c \in Calls, NEW j, TaskStart(c, j) PROVE OneHot'
  BY <1>t, <1>11, AfterTaskStart, FreeAtHome, HotTaskStarts
<1>12. ASSUME NEW c \in Calls, NEW j, TaskEnds(c, j) PROVE OneHot'
  BY <1>t, <1>12, AfterTaskEnds, FreeAtHome, HotTaskStarts
<1>13. ASSUME NEW c \in Calls, NEW j,
              EnqueueSuccessors(c, j) \/ MarkDone(c, j) \/ MarkFailed(c, j)
       PROVE  OneHot'
  <2>1. /\ Active(c, j) /\ HotTask(c, j) /\ call' = call
        /\ \E pc : TaskAt(c, j, pc)
    BY <1>t, <1>13, AfterEnqueueSuccessors, AfterMarkDone, AfterMarkFailed DEF HotTask
  <2> QED
    BY <2>1, HotTaskGoes DEF Active
<1>16. ASSUME NEW c \in Calls, NEW j, MarkFailedRaises(c, j) PROVE OneHot'
  BY <1>t, <1>16, NeverRaises
<1>17. ASSUME NEW j, (\E c \in Calls : Heartbeat(c, j)) \/ BackoffElapses(j) \/ LeaseLapses(j)
       PROVE  OneHot'
  BY <1>t, <1>k, <1>17, AfterTime
<1>18. ASSUME NEW p \in Procs, Crash(p) PROVE OneHot'
  <2>1. \A c \in Calls : \/ call'[c] = call[c] /\ task'[c] = task[c]
                         \/ call'[c].pc = "idle" /\ DOMAIN task'[c] = {}
    BY <1>t, <1>18, AfterCrash
  <2>2. HotLess
    BY <2>1 DEF HotLess, HotCall, HotTask
  <2> QED
    BY <2>2, HotKept
<1>19. CASE UNCHANGED vars
  BY <1>k, <1>19 DEF vars
<1> QED
  BY <1>1, <1>2, <1>3, <1>4, <1>w, <1>5, <1>6, <1>7, <1>8, <1>9, <1>10, <1>11, <1>12, <1>13,
     <1>16, <1>17, <1>18, <1>19 DEF Next, CallStep, TaskStep

(* While a job waits to be marked done, its successor is not yet claimed.  *)
AloneInv ==
    crashes = 0 =>
        \A c \in Calls, j, k \in Ids :
            /\ QueuedOnce(jobs[j].doc) /\ Exists(j) /\ Exists(k)
            /\ SameDoc(j, k) /\ Before(j, k) /\ Marking(c, j)
            => ~Worked(k)

SameOrLess == SameKeys /\ \A j \in Ids : Exists(j)' => Exists(j)

MarksLess == \A c \in Calls : \A j : Marking(c, j)' => Marking(c, j)

WorkLess == \A j : Worked(j)' => Worked(j)

(* A step that claims nothing and is about to mark nothing.                *)
LEMMA AloneKept ==
    ASSUME TypeOK, AloneInv, crashes' = crashes, SameOrLess, NoNewOnce, MarksLess, WorkLess
    PROVE  AloneInv'
<1> SUFFICES ASSUME crashes = 0, NEW c \in Calls, NEW j \in Ids', NEW k \in Ids',
                    QueuedOnce(jobs[j].doc)', Exists(j)', Exists(k)',
                    SameDoc(j, k)', Before(j, k)', Marking(c, j)', Worked(k)'
             PROVE  FALSE
  BY DEF AloneInv
<1>1. Marking(c, j) /\ Worked(k)
  BY DEF MarksLess, WorkLess
<1>2. j \in Ids /\ k \in Ids
  BY <1>1, ActiveIds DEF Marking, Worked
<1>3. /\ jobs'[j].doc = jobs[j].doc /\ jobs'[k].doc = jobs[k].doc
      /\ jobs'[j].stage = jobs[j].stage /\ jobs'[k].stage = jobs[k].stage
      /\ jobs[j].doc \in Docs
  BY <1>2, TableType DEF SameOrLess, SameKeys, TypeOK, Row
<1>4. QueuedOnce(jobs[j].doc)
  BY <1>3 DEF QueuedOnce, NoNewOnce
<1>5. Exists(j) /\ Exists(k) /\ SameDoc(j, k) /\ Before(j, k)
  BY <1>2, <1>3 DEF SameOrLess, SameDoc, Before
<1> QED
  BY <1>1, <1>2, <1>4, <1>5 DEF AloneInv

(* The writes of the table, and what becomes of the tasks.                 *)
LEMMA RowsSameOrLess ==
    /\ RowsKept => SameOrLess
    /\ \A d : RowsCleared(d) => SameOrLess
    /\ RowsRecovered => SameOrLess
    /\ \A j, s : RowPut(j, s) => SameOrLess
    /\ \A d, s : RowAdded(d, s) => SameOrLess
<1>1. RowsKept => SameOrLess
  BY DEF RowsKept, SameOrLess, Exists
<1>2. \A d : RowsCleared(d) => SameOrLess
  BY DEF RowsCleared, SameOrLess, Exists
<1>3. RowsRecovered => SameOrLess
  BY DEF RowsRecovered, SameOrLess, Exists
<1>4. \A j, s : RowPut(j, s) => SameOrLess
  BY DEF RowPut, SameOrLess, Exists
<1>5. \A d, s : RowAdded(d, s) => SameOrLess
  BY DEF RowAdded, SameOrLess, Exists
<1> QED
  BY <1>1, <1>2, <1>3, <1>4, <1>5

(* A task that goes on is at work, and goes on to the mark or elsewhere.   *)
LEMMA WorkIsLess ==
    /\ task' = task => MarksLess /\ WorkLess
    /\ \A c \in Calls : \A j, pc : Active(c, j) /\ TaskAt(c, j, pc) =>
          WorkLess /\ (pc # "mark_done" => MarksLess)
    /\ \A c \in Calls : TasksEmptied(c) => MarksLess /\ WorkLess
<1>1. task' = task => MarksLess /\ WorkLess
  BY DEF MarksLess, WorkLess, Marking, Worked, Active
<1>2. ASSUME NEW c \in Calls, NEW j, NEW pc, Active(c, j), TaskAt(c, j, pc)
      PROVE  WorkLess /\ (pc # "mark_done" => MarksLess)
  <2>1. \A e \in Calls : \A k : Active(e, k)' => Active(e, k)
    BY <1>2 DEF Active, TaskAt
  <2>2. WorkLess
    BY <2>1 DEF WorkLess, Worked
  <2>3. pc # "mark_done" => MarksLess
    BY <1>2, <2>1 DEF MarksLess, Marking, Active, TaskAt
  <2> QED
    BY <2>2, <2>3
<1>3. ASSUME NEW c \in Calls, TasksEmptied(c) PROVE MarksLess /\ WorkLess
  <2>1. \A e \in Calls : \A k : Active(e, k)' => e # c /\ Active(e, k) /\ task'[e] = task[e]
    BY <1>3 DEF Active, TasksEmptied
  <2> QED
    BY <2>1 DEF MarksLess, WorkLess, Marking, Worked
<1> QED
  BY <1>1, <1>2, <1>3

(* A claim is made by a hot call: no job waits to be marked.               *)
LEMMA AloneClaimed ==
    ASSUME TypeOK, OneHot, NEW c \in Calls, Claim(c)
    PROVE  AloneInv'
<1>1. /\ HotCall(c) /\ DOMAIN task'[c] = Claimable
      /\ \A j \in Claimable : task'[c][j].pc = "start"
      /\ \A e \in Calls \ {c} : task'[e] = task[e]
  BY AfterClaim DEF HotCall
<1>2. \A e \in Calls : \A j \in DOMAIN task[e] : task[e][j].pc # "mark_done"
  BY <1>1 DEF OneHot, HotTask
<1>3. \A e \in Calls : \A j : ~Marking(e, j)'
  BY <1>1, <1>2 DEF Marking, Active
<1> QED
  BY <1>3 DEF AloneInv

(* The successor is enqueued by the only job about to be marked, and no    *)
(* later job of the document was there before.                             *)
LEMMA AloneSuccessor ==
    ASSUME OInv, OneHot, AloneInv, NEW c \in Calls, NEW j, EnqueueSuccessors(c, j)
    PROVE  AloneInv'
<1>t. TypeOK /\ WInv /\ FInv
  BY DEF OInv, FInv, UInv, WInv
<1>1. /\ Active(c, j) /\ task[c][j].pc = "enqueue" /\ j \in Ids /\ j \in DOMAIN task[c]
      /\ processed' = processed /\ crashes' = crashes
  BY <1>t, AfterEnqueueSuccessors, ActiveParts
<1>2. PICK pc : TaskAt(c, j, pc)
  BY <1>t, AfterEnqueueSuccessors
<1>3. SameOrLess
  BY <1>t, AfterEnqueueSuccessors, RowsSameOrLess
<1>4. WorkLess
  BY <1>1, <1>2, WorkIsLess
<1>5. \A e \in Calls : \A i : Marking(e, i)' => e = c /\ i = j
  <2>1. \A e \in Calls : \A i : ~Marking(e, i)
    BY <1>1 DEF OneHot, HotTask, Marking, Active
  <2> QED
    BY <1>2, <2>1 DEF TaskAt, Marking, Active
<1> SUFFICES ASSUME crashes = 0, NEW k \in Ids', QueuedOnce(jobs[j].doc)', Exists(j)', Exists(k)',
                    SameDoc(j, k)', Before(j, k)', Worked(k)'
             PROVE  FALSE
  BY <1>1, <1>5 DEF AloneInv
<1>6. k \in Ids
  BY <1>t, <1>4, ActiveIds DEF WorkLess, Worked
<1>7. /\ jobs'[j].doc = jobs[j].doc /\ jobs'[k].doc = jobs[k].doc
      /\ jobs'[j].stage = jobs[j].stage /\ jobs'[k].stage = jobs[k].stage
  BY <1>1, <1>3, <1>6 DEF SameOrLess, SameKeys
<1>8. /\ QueuedOnce(jobs[j].doc) /\ Exists(j) /\ Exists(k) /\ SameDoc(j, k) /\ Before(j, k)
  BY <1>1, <1>3, <1>6, <1>7 DEF QueuedOnce, SameOrLess, SameDoc, Before
<1>9. Chain
  BY DEF OInv, OrderInv
<1> QED
  BY <1>t, <1>1, <1>6, <1>8, <1>9, NothingAfter

(* The successor waits for the mark, through every step.                   *)
LEMMA AloneStep ==
    ASSUME OneProcess, OInv, OneHot, AloneInv, [Next]_vars
    PROVE  AloneInv'
<1>t. TypeOK /\ WInv /\ LiveUnique
  BY DEF OInv, FInv, UInv, WInv
<1>i. ASSUME SameOrLess, MarksLess, WorkLess, NoNewOnce, crashes' = crashes
      PROVE  AloneInv'
  BY <1>t, <1>i, AloneKept
<1>k. ASSUME RowsKept, MarksLess, WorkLess, processed' = processed, crashes' = crashes
      PROVE  AloneInv'
  BY <1>i, <1>k, RowsSameOrLess, OnceKept
<1>1. ASSUME NEW c \in Calls, NEW d \in Docs, ProcessDelete(c, d) PROVE AloneInv'
  BY <1>t, <1>i, <1>1, AfterProcessDelete, RowsSameOrLess, WorkIsLess, OnceKept
<1>2. ASSUME NEW c \in Calls, ProcessEnqueue(c) PROVE AloneInv'
  <2>1. SameOrLess /\ UNCHANGED <<task, processed, crashes>>
    BY <1>t, <1>2, AfterProcessEnqueue, RowsSameOrLess
  <2> QED
    BY <1>i, <2>1, WorkIsLess, OnceKept
<1>3. ASSUME NEW c \in Calls, ProcessSetQueued(c) PROVE AloneInv'
  BY <1>t, <1>k, <1>3, AfterProcessSetQueued, WorkIsLess
<1>4. ASSUME NEW d \in Docs, DocumentDelete(d) PROVE AloneInv'
  BY <1>t, <1>i, <1>4, AfterDocumentDelete, RowsSameOrLess, WorkIsLess, OnceKept
<1>w. ASSUME NEW d \in Docs, ProcessWithoutKey(d) PROVE AloneInv'
  BY <1>t, <1>k, <1>w, AfterWithoutKey, WorkIsLess
<1>5. ASSUME NEW c \in Calls, StartDrain(c) \/ KickDrain(c) PROVE AloneInv'
  BY <1>t, <1>i, <1>5, AfterRecover, RowsSameOrLess, WorkIsLess, OnceKept
<1>6. ASSUME NEW c \in Calls, Claim(c) PROVE AloneInv'
  BY <1>t, <1>6, AloneClaimed
<1>7. ASSUME NEW c \in Calls, GatherReturns(c) PROVE AloneInv'
  BY <1>t, <1>k, <1>7, AfterGather, WorkIsLess
<1>8. ASSUME NEW c \in Calls, DeriveRead(c) PROVE AloneInv'
  BY <1>t, <1>k, <1>8, AfterDeriveRead, WorkIsLess
<1>9. ASSUME NEW c \in Calls, DeriveWrite(c) PROVE AloneInv'
  BY <1>t, <1>k, <1>9, AfterDeriveWrite, WorkIsLess
<1>10. ASSUME NEW c \in Calls, BudgetSpent(c) \/ AbortedDrainEnds(c) PROVE AloneInv'
  BY <1>t, <1>k, <1>10, AfterDrainEnd, WorkIsLess
<1>11. ASSUME NEW c \in Calls, NEW j, TaskStart(c, j) PROVE AloneInv'
  <2>1. PICK pc \in {"running", "enqueue", "mark_failed"} : TaskAt(c, j, pc)
    BY <1>t, <1>11, AfterTaskStart
  <2>2. Active(c, j) /\ RowsKept /\ UNCHANGED <<processed, crashes>>
    BY <1>t, <1>11, AfterTaskStart
  <2> QED
    BY <1>k, <2>1, <2>2, WorkIsLess
<1>12. ASSUME NEW c \in Calls, NEW j, TaskEnds(c, j) PROVE AloneInv'
  <2>1. PICK pc \in {"enqueue", "mark_failed"} : TaskAt(c, j, pc)
    BY <1>t, <1>12, AfterTaskEnds
  <2>2. Active(c, j) /\ RowsKept /\ UNCHANGED <<processed, crashes>>
    BY <1>t, <1>12, AfterTaskEnds
  <2> QED
    BY <1>k, <2>1, <2>2, WorkIsLess
<1>13. ASSUME NEW c \in Calls, NEW j, EnqueueSuccessors(c, j) PROVE AloneInv'
  BY <1>13, AloneSuccessor
<1>14. ASSUME NEW c \in Calls, NEW j, MarkDone(c, j) \/ MarkFailed(c, j) PROVE AloneInv'
  <2>1. Active(c, j) /\ TaskAt(c, j, "finished") /\ UNCHANGED <<processed, crashes>>
    BY <1>t, <1>14, AfterMarkDone, AfterMarkFailed
  <2>2. SameOrLess
    BY <1>t, <1>14, AfterMarkDone, AfterMarkFailed, RowsSameOrLess
  <2> QED
    BY <1>i, <2>1, <2>2, WorkIsLess, OnceKept
<1>16. ASSUME NEW c \in Calls, NEW j, MarkFailedRaises(c, j) PROVE AloneInv'
  BY <1>t, <1>16, NeverRaises
<1>17. ASSUME NEW j, (\E c \in Calls : Heartbeat(c, j)) \/ BackoffElapses(j) \/ LeaseLapses(j)
       PROVE  AloneInv'
  BY <1>t, <1>k, <1>17, AfterTime, WorkIsLess
<1>18. ASSUME NEW p \in Procs, Crash(p) PROVE AloneInv'
  <2>1. crashes' = crashes + 1 /\ crashes \in Nat
    BY <1>t, <1>18, AfterCrash DEF TypeOK
  <2>2. crashes' # 0
    BY <2>1
  <2> QED
    BY <2>2 DEF AloneInv
<1>19. CASE UNCHANGED vars
  BY <1>k, <1>19, RowsLeftAlone, WorkIsLess DEF vars
<1> QED
  BY <1>1, <1>2, <1>3, <1>4, <1>w, <1>5, <1>6, <1>7, <1>8, <1>9, <1>10, <1>11, <1>12, <1>13,
     <1>14, <1>16, <1>17, <1>18, <1>19 DEF Next, CallStep, TaskStep

HInv == OInv /\ OneHot /\ AloneInv

(* With one process, the invariant so far is inductive.                    *)
LEMMA HInvInductive ==
    ASSUME SlowStages = {}, OneProcess
    PROVE  (Init => HInv) /\ (HInv /\ [Next]_vars => HInv')
<1>1. Init => OneHot /\ AloneInv
  BY NoTaskType DEF Init, OneHot, AloneInv, HotCall, IdleCall, Ids
<1>2. OInv => UInv
  BY DEF OInv, FInv
<1> QED
  BY <1>1, <1>2, OInvInductive, HotStep, AloneStep DEF HInv

(* While a stage runs, every other job of its document has passed: it is   *)
(* an earlier stage, and its mark is made.                                 *)
LEMMA OthersAreDone ==
    ASSUME HInv, crashes = 0
    PROVE  StagesInOrder
<1>t. TypeOK /\ WInv /\ FInv /\ Chain /\ StageIsQueuedOnce
  BY DEF HInv, OInv, OrderInv, FInv, UInv, WInv
<1> SUFFICES ASSUME NEW c \in Calls, NEW j \in Ids, QueuedOnce(jobs[j].doc), Active(c, j),
                    task[c][j].pc \in {"start", "running"},
                    NEW k \in RowsOf(jobs[j].doc) \ {j}
             PROVE  jobs[k].status = "done" /\ StageOrder[jobs[k].stage] < StageOrder[jobs[j].stage]
  BY DEF StagesInOrder
<1>1. k \in Ids /\ SameDoc(j, k) /\ Exists(k) /\ k # j
  BY DEF RowsOf, SameDoc
<1>2. docs[jobs[j].doc] # "gone"
  BY <1>t, <1>1 DEF FInv, BareInv, GoneIsBare, SameDoc
<1>3. Exists(j) /\ QueuedOnce(jobs[k].doc)
  BY <1>t, <1>1, <1>2 DEF FInv, BareInv, FirstRowsStay, SameDoc
<1>4. ~Before(j, k)
  BY <1>t, <1>1, <1>3, NothingAfter
<1>5. jobs[j].stage \in Stages /\ jobs[k].stage \in Stages /\ jobs[j].stage # jobs[k].stage
  BY <1>t, <1>1, <1>3, TableType DEF TypeOK, Row, StageIsQueuedOnce, SameDoc
<1>6. Before(k, j)
  BY <1>4, <1>5, StageNumbers DEF Before
<1>7. Passed(k)
  BY <1>t, <1>1, <1>3, <1>6 DEF Chain, SameDoc
<1>8. \A e \in Calls : ~Marking(e, k)
  BY <1>1, <1>3, <1>6 DEF HInv, AloneInv, SameDoc, Worked
<1> QED
  BY <1>6, <1>7, <1>8 DEF Passed, Before

(* A document has one job at work at a time and its stages run in order,   *)
(* when one process serves the queue and does not die.  (A second process  *)
(* may claim the successor before the mark.)                               *)
THEOREM StagesInOrderCorrect ==
    ASSUME SlowStages = {}, OneProcess
    PROVE  Spec => [](crashes = 0 => StagesInOrder)
<1>1. HInv => (crashes = 0 => StagesInOrder)
  BY OthersAreDone
<1>2. (Init => HInv) /\ (HInv /\ [Next]_vars => HInv')
  BY HInvInductive
<1> QED
  BY <1>1, <1>2, PTL DEF Spec

-----------------------------------------------------------------------------
(* The status of a document, in one process.  A handler that is about to   *)
(* set 'queued' has just queued a job, a drain that is about to write a    *)
(* status has just read it, and the status of a document with no live job  *)
(* is the one of its rows, unless a drain still has to derive it.          *)

Touches(c, d) ==
    \/ call[c].pc = "gather" /\ \E j \in DOMAIN task[c] : jobs[j].doc = d
    \/ call[c].pc \in {"derive", "derive_write"} /\ d \in call[c].todo

Settled(d) == RowsOf(d) # {} /\ \A j \in RowsOf(d) : ~Live(j)

HandlerInv ==
    \A c \in Calls :
        /\ call[c].pc \in {"enqueue_ingest", "set_queued"} =>
              \A d, e \in call[c].todo : d = e
        /\ call[c].pc = "set_queued" =>
              \A d \in call[c].todo : \E j \in RowsOf(d) : Live(j)

WriterInv ==
    \A c \in Calls : call[c].pc = "derive_write" =>
        \A w \in call[c].derived : w.status \in DerivedStatuses(w.doc)

StatusInv ==
    crashes = 0 =>
        \A d \in Docs : docs[d] \notin {"gone", "uploaded"} /\ Settled(d) =>
            docs[d] \in DerivedStatuses(d) \/ \E c \in Calls : Touches(c, d)

RowsOfKept(d) ==
    /\ RowsOf(d)' = RowsOf(d)
    /\ \A j \in RowsOf(d) : jobs'[j].stage = jobs[j].stage /\ jobs'[j].status = jobs[j].status

TouchesKept(d) ==
    (\E c \in Calls : Touches(c, d)) => (\E c \in Calls : Touches(c, d))'

(* The status that is derived depends on the document's rows only.         *)
LEMMA DerivedKept ==
    ASSUME NEW d, RowsOfKept(d)
    PROVE  DerivedStatuses(d)' = DerivedStatuses(d) /\ (Settled(d)' <=> Settled(d))
<1> DEFINE rows == RowsOf(d)
           active == {jobs[j].stage : j \in {k \in rows : Live(k)}}
           blocking == {j \in rows : jobs[j].status = "dead" /\ jobs[j].stage # "generate"}
           gen == {j \in rows : jobs[j].stage = "generate"}
           dead == {StageDeadStatus[jobs[j].stage] : j \in blocking}
           first == {t \in active : \A u \in active : StageOrder[t] <= StageOrder[u]}
           running == {StageRunningStatus[s] : s \in first}
           undone == \A j \in gen : jobs[j].status # "done"
<1>1. /\ rows' = rows
      /\ \A j \in rows : /\ jobs'[j].stage = jobs[j].stage /\ jobs'[j].status = jobs[j].status
                         /\ Live(j)' <=> Live(j)
  BY DEF RowsOfKept, Live
<1>2. DerivedStatuses(d) =
        IF rows = {} THEN {}
        ELSE IF blocking # {} THEN dead
        ELSE IF active # {} THEN running
        ELSE IF gen # {} /\ undone THEN {StageDeadStatus["generate"]}
        ELSE {"completed"}
  BY DEF DerivedStatuses
<1>3. DerivedStatuses(d)' =
        IF rows' = {} THEN {}
        ELSE IF blocking' # {} THEN dead'
        ELSE IF active' # {} THEN running'
        ELSE IF gen' # {} /\ undone' THEN {StageDeadStatus["generate"]}
        ELSE {"completed"}
  BY DEF DerivedStatuses
<1>s. Settled(d)' <=> Settled(d)
  BY <1>1 DEF Settled
<1> HIDE DEF rows
<1>4. blocking' = blocking /\ gen' = gen /\ active' = active
  BY <1>1
<1>5. dead' = dead
  BY <1>1, <1>4
<1>6. undone' = undone
  BY <1>1, <1>4
<1> HIDE DEF active
<1>7. running' = running
  BY <1>4
<1> HIDE DEF blocking, gen, dead, first, running, undone
<1>8. DerivedStatuses(d)' = DerivedStatuses(d)
  BY <1>1, <1>2, <1>3, <1>4, <1>5, <1>6, <1>7
<1> QED
  BY <1>8, <1>s

(* A document with rows and no live one has a status to derive.            *)
LEMMA SettledHasStatus ==
    ASSUME NEW d, Settled(d)
    PROVE  DerivedStatuses(d) # {}
<1> DEFINE blocking == {j \in RowsOf(d) : jobs[j].status = "dead" /\ jobs[j].stage # "generate"}
           dead == {StageDeadStatus[jobs[j].stage] : j \in blocking}
           active == {jobs[j].stage : j \in {k \in RowsOf(d) : Live(k)}}
<1>1. RowsOf(d) # {} /\ active = {}
  BY DEF Settled
<1>2. blocking # {} => dead # {}
  OBVIOUS
<1>3. CASE blocking # {}
  <2>1. DerivedStatuses(d) = dead
    BY <1>1, <1>3 DEF DerivedStatuses
  <2> QED
    BY <1>2, <1>3, <2>1
<1>4. CASE blocking = {}
  <2>1. DerivedStatuses(d) = {StageDeadStatus["generate"]} \/ DerivedStatuses(d) = {"completed"}
    BY <1>1, <1>4 DEF DerivedStatuses
  <2> QED
    BY <2>1
<1> QED
  BY <1>3, <1>4

(* The writes of the table, as a document that they do not concern, or     *)
(* leave with no live row, sees them.                                      *)
LEMMA RowsOfOthersKept ==
    ASSUME NEW d
    PROVE  /\ RowsKept => RowsOfKept(d)
           /\ \A e : RowsCleared(e) /\ e # d => RowsOfKept(d)
           /\ RowsRecovered /\ Settled(d)' => RowsOfKept(d)
           /\ RowsClaimed /\ Settled(d)' => RowsOfKept(d)
           /\ \A j \in Ids : \A s : RowPut(j, s) /\ jobs[j].doc # d => RowsOfKept(d)
           /\ \A e, s : RowAdded(e, s) /\ e # d => RowsOfKept(d)
<1>1. RowsKept => RowsOfKept(d)
  BY DEF RowsKept, RowsOfKept, RowsOf, Exists, SameKeys
<1>2. \A e : RowsCleared(e) /\ e # d => RowsOfKept(d)
  BY DEF RowsCleared, RowsOfKept, RowsOf, Exists, SameKeys
<1>3. ASSUME RowsRecovered, Settled(d)' PROVE RowsOfKept(d)
  <2>1. \A j \in Ids : jobs[j].doc = d /\ Exists(j)' => ~Live(j)'
    BY <1>3 DEF RowsRecovered, SameKeys, Settled, RowsOf
  <2>2. \A j \in Ids : jobs[j].doc = d => jobs'[j].status = jobs[j].status
    BY <1>3, <2>1 DEF RowsRecovered, Exists, Live
  <2> QED
    BY <1>3, <2>2 DEF RowsRecovered, RowsOfKept, RowsOf, Exists, SameKeys
<1>4. ASSUME RowsClaimed, Settled(d)' PROVE RowsOfKept(d)
  <2>1. \A j \in Ids : jobs[j].doc = d /\ Exists(j)' => ~Live(j)'
    BY <1>4 DEF RowsClaimed, SameKeys, Settled, RowsOf
  <2>2. \A j \in Ids : jobs[j].doc = d => jobs'[j].status = jobs[j].status
    BY <1>4, <2>1 DEF RowsClaimed, Exists, Live
  <2> QED
    BY <1>4, <2>2 DEF RowsClaimed, RowsOfKept, RowsOf, Exists, SameKeys
<1>5. \A j \in Ids : \A s : RowPut(j, s) /\ jobs[j].doc # d => RowsOfKept(d)
  BY DEF RowPut, RowsOfKept, RowsOf, Exists, SameKeys
<1>6. ASSUME NEW e, NEW s, RowAdded(e, s), e # d PROVE RowsOfKept(d)
  <2>1. \A j \in Ids' \ Ids : jobs'[j].doc = e
    BY <1>6 DEF RowAdded
  <2> QED
    BY <1>6, <2>1 DEF RowAdded, RowsOfKept, RowsOf, Exists, SameKeys
<1> QED
  BY <1>1, <1>2, <1>3, <1>4, <1>5, <1>6

(* A document whose rows are cleared, or that has a row added, is not      *)
(* settled.                                                                *)
LEMMA UnsettledByWrite ==
    ASSUME NEW d
    PROVE  /\ RowsCleared(d) => ~Settled(d)'
           /\ \A s : RowAdded(d, s) => (\E j \in RowsOf(d) : Live(j))' /\ ~Settled(d)'
<1>1. RowsCleared(d) => ~Settled(d)'
  BY DEF RowsCleared, Settled, RowsOf, Exists, SameKeys
<1>2. ASSUME NEW s, RowAdded(d, s) PROVE (\E j \in RowsOf(d) : Live(j))'
  <2>1. CASE LiveRow(d, s)
    <3>1. PICK k \in Ids : jobs[k].doc = d /\ Live(k)
      BY <2>1 DEF LiveRow, Indexed, Live
    <3>2. k \in Ids' /\ jobs'[k].doc = d /\ jobs'[k].status = jobs[k].status
      BY <1>2, <3>1 DEF RowAdded, SameKeys
    <3> QED
      BY <3>1, <3>2 DEF RowsOf, Exists, Live
  <2>2. CASE ~LiveRow(d, s)
    BY <1>2, <2>2 DEF RowAdded, RowsOf, Exists, Live
  <2> QED
    BY <2>1, <2>2
<1> QED
  BY <1>1, <1>2 DEF Settled

(* The tasks and the drains that still have to derive a status go on.      *)
LEMMA TouchesGoOn ==
    ASSUME TypeOK, SameKeys, NEW d
    PROVE  /\ call' = call /\ (\A e \in Calls : DOMAIN task'[e] = DOMAIN task[e]) =>
                \A e \in Calls : Touches(e, d) => Touches(e, d)'
           /\ \A c \in Calls : \A pc, todo :
                /\ CallIs(c, pc, todo)
                /\ \A e \in Calls \ {c} : DOMAIN task'[e] = DOMAIN task[e]
                /\ Touches(c, d) => Touches(c, d)'
                => TouchesKept(d)
<1>1. \A e \in Calls : \A j \in DOMAIN task[e] : jobs'[j].doc = jobs[j].doc
  BY DEF TypeOK, SameKeys
<1>2. ASSUME NEW e \in Calls, call'[e] = call[e], DOMAIN task'[e] = DOMAIN task[e], Touches(e, d)
      PROVE  Touches(e, d)'
  BY <1>1, <1>2 DEF Touches
<1>3. ASSUME NEW c \in Calls, NEW pc, NEW todo, CallIs(c, pc, todo),
             \A e \in Calls \ {c} : DOMAIN task'[e] = DOMAIN task[e],
             Touches(c, d) => Touches(c, d)'
      PROVE  TouchesKept(d)
  <2>1. \A e \in Calls \ {c} : Touches(e, d) => Touches(e, d)'
    BY <1>2, <1>3 DEF CallIs
  <2> QED
    BY <1>3, <2>1 DEF TouchesKept
<1> QED
  BY <1>2, <1>3

(* While a call is between two transactions, only time passes in its       *)
(* process; and these are the steps that bring it there.                   *)
LEMMA HotCallSteps ==
    ASSUME OneProcess, UInv, OneHot, [Next]_vars,
           NEW e \in Calls, call'[e].pc \in {"enqueue_ingest", "set_queued", "derive_write"}
    PROVE  \/ call'[e] = call[e] /\ RowsKept /\ docs' = docs
           \/ \E d \in Docs : ProcessDelete(e, d)
           \/ ProcessEnqueue(e)
           \/ DeriveRead(e)
<1>t. TypeOK /\ WInv /\ LiveUnique
  BY DEF UInv, WInv
<1> DEFINE Goal == \/ call'[e] = call[e] /\ RowsKept /\ docs' = docs
                   \/ \E d \in Docs : ProcessDelete(e, d)
                   \/ ProcessEnqueue(e)
                   \/ DeriveRead(e)
<1>h. call'[e] = call[e] => HotCall(e) /\ ~NothingHot
  BY DEF HotCall, NothingHot
<1>i. ASSUME NEW c \in Calls, NEW pc, NEW todo, CallIs(c, pc, todo), HotCall(c) \/ NothingHot,
             pc \notin {"enqueue_ingest", "set_queued", "derive_write"} \/ c # e
      PROVE  Goal
  <2>1. c # e
    BY <1>i DEF CallIs
  <2>2. call'[e] = call[e]
    BY <1>i, <2>1 DEF CallIs
  <2> QED
    BY <1>h, <1>i, <2>1, <2>2 DEF OneHot
<1>n. ASSUME NothingHot, call' = call PROVE Goal
  BY <1>h, <1>n
<1>j. ASSUME NEW c \in Calls, NEW j, Active(c, j), HotTask(c, j), call' = call PROVE Goal
  BY <1>h, <1>j DEF OneHot, Active
<1>u. ASSUME call' = call, RowsKept, docs' = docs PROVE Goal
  BY <1>u
<1>d. ASSUME NEW d \in Docs, ProcessDelete(e, d) PROVE Goal
  BY <1>d
<1>q. ASSUME ProcessEnqueue(e) PROVE Goal
  BY <1>q
<1>r. ASSUME DeriveRead(e) PROVE Goal
  BY <1>r
<1>c. ASSUME call'[e] = call[e], RowsKept, docs' = docs PROVE Goal
  BY <1>c
<1> HIDE DEF Goal
<1>1. ASSUME NEW c \in Calls, NEW d \in Docs, ProcessDelete(c, d) PROVE Goal
  <2>1. CallIs(c, "enqueue_ingest", {d}) /\ NothingHot
    BY <1>t, <1>1, AfterProcessDelete, FreeAtHome
  <2> QED
    BY <1>1, <1>d, <1>i, <2>1
<1>2. ASSUME NEW c \in Calls, ProcessEnqueue(c) PROVE Goal
  <2>1. HotCall(c) /\ \E pc, todo : CallIs(c, pc, todo)
    BY <1>t, <1>2, AfterProcessEnqueue DEF HotCall
  <2> QED
    BY <1>2, <1>q, <1>i, <2>1
<1>3. ASSUME NEW c \in Calls, ProcessSetQueued(c) PROVE Goal
  <2>1. HotCall(c) /\ CallIs(c, "kicked", {})
    BY <1>t, <1>3, AfterProcessSetQueued DEF HotCall
  <2> QED
    BY <1>i, <2>1
<1>4. ASSUME NEW d \in Docs, DocumentDelete(d) PROVE Goal
  <2>1. NothingHot /\ call' = call
    BY <1>t, <1>4, AfterDocumentDelete, FreeIsQuiet
  <2> QED
    BY <1>n, <2>1
<1>w. ASSUME NEW d \in Docs, ProcessWithoutKey(d) PROVE Goal
  <2>1. NothingHot /\ call' = call
    BY <1>t, <1>w, AfterWithoutKey, FreeIsQuiet
  <2> QED
    BY <1>n, <2>1
<1>5. ASSUME NEW c \in Calls, StartDrain(c) \/ KickDrain(c) PROVE Goal
  <2>1. CallIs(c, "claim", call[c].todo) /\ NothingHot
    BY <1>t, <1>5, AfterRecover, FreeAtHome
  <2> QED
    BY <1>i, <2>1
<1>6. ASSUME NEW c \in Calls, Claim(c) PROVE Goal
  <2>1. /\ HotCall(c)
        /\ CallIs(c, "idle", call[c].todo) \/ CallIs(c, "gather", call[c].todo)
    BY <1>t, <1>6, AfterClaim DEF HotCall
  <2> QED
    BY <1>i, <2>1
<1>7. ASSUME NEW c \in Calls, GatherReturns(c) PROVE Goal
  <2>1. NothingHot /\ \E todo : CallIs(c, "derive", todo)
    BY <1>t, <1>7, AfterGather, FreeAtHome
  <2> QED
    BY <1>i, <2>1
<1>8. ASSUME NEW c \in Calls, DeriveRead(c) PROVE Goal
  <2>1. HotCall(c) /\ \E pc, todo : CallIs(c, pc, todo)
    BY <1>t, <1>8, AfterDeriveRead DEF HotCall
  <2> QED
    BY <1>8, <1>r, <1>i, <2>1
<1>9. ASSUME NEW c \in Calls, DeriveWrite(c) PROVE Goal
  <2>1. HotCall(c) /\ \E todo : CallIs(c, "derive", todo)
    BY <1>t, <1>9, AfterDeriveWrite DEF HotCall
  <2> QED
    BY <1>i, <2>1
<1>10. ASSUME NEW c \in Calls, BudgetSpent(c) \/ AbortedDrainEnds(c) PROVE Goal
  <2>1. CallIs(c, "idle", call[c].todo) /\ (HotCall(c) \/ NothingHot)
    BY <1>t, <1>10, AfterDrainEnd, FreeAtHome DEF HotCall
  <2> QED
    BY <1>i, <2>1
<1>11. ASSUME NEW c \in Calls, NEW j, TaskStart(c, j) PROVE Goal
  BY <1>t, <1>n, <1>11, AfterTaskStart, FreeAtHome
<1>12. ASSUME NEW c \in Calls, NEW j, TaskEnds(c, j) PROVE Goal
  BY <1>t, <1>n, <1>12, AfterTaskEnds, FreeAtHome
<1>13. ASSUME NEW c \in Calls, NEW j,
              EnqueueSuccessors(c, j) \/ MarkDone(c, j) \/ MarkFailed(c, j)
       PROVE  Goal
  <2>1. Active(c, j) /\ HotTask(c, j) /\ call' = call
    BY <1>t, <1>13, AfterEnqueueSuccessors, AfterMarkDone, AfterMarkFailed DEF HotTask
  <2> QED
    BY <1>j, <2>1
<1>16. ASSUME NEW c \in Calls, NEW j, MarkFailedRaises(c, j) PROVE Goal
  BY <1>t, <1>16, NeverRaises
<1>17. ASSUME NEW j, (\E c \in Calls : Heartbeat(c, j)) \/ BackoffElapses(j) \/ LeaseLapses(j)
       PROVE  Goal
  BY <1>t, <1>u, <1>17, AfterTime
<1>18. ASSUME NEW p \in Procs, Crash(p) PROVE Goal
  <2>1. RowsKept /\ docs' = docs /\ (call'[e] = call[e] \/ call'[e].pc = "idle")
    BY <1>t, <1>18, AfterCrash
  <2> QED
    BY <1>c, <2>1
<1>19. ASSUME UNCHANGED vars PROVE Goal
  BY <1>u, <1>19, RowsLeftAlone DEF vars
<1>20. Goal
  BY <1>1, <1>2, <1>3, <1>4, <1>w, <1>5, <1>6, <1>7, <1>8, <1>9, <1>10, <1>11, <1>12, <1>13,
     <1>16, <1>17, <1>18, <1>19 DEF Next, CallStep, TaskStep
<1> QED
  BY <1>20 DEF Goal

(* A handler that is about to set 'queued' has just queued a job.          *)
LEMMA HandlerStep ==
    ASSUME OneProcess, UInv, OneHot, HandlerInv, [Next]_vars
    PROVE  HandlerInv'
<1>t. TypeOK
  BY DEF UInv, WInv
<1> SUFFICES ASSUME NEW e \in Calls, call'[e].pc \in {"enqueue_ingest", "set_queued"}
             PROVE  /\ \A d, f \in call'[e].todo : d = f
                    /\ call'[e].pc = "set_queued" =>
                          \A d \in call'[e].todo : (\E j \in RowsOf(d) : Live(j))'
  BY DEF HandlerInv
<1>1. CASE call'[e] = call[e] /\ RowsKept
  <2>1. ASSUME NEW d, \E j \in RowsOf(d) : Live(j) PROVE (\E j \in RowsOf(d) : Live(j))'
    BY <1>1, <2>1 DEF RowsKept, SameKeys, RowsOf, Exists, Live
  <2> QED
    BY <1>1, <2>1 DEF HandlerInv
<1>2. ASSUME NEW d \in Docs, ProcessDelete(e, d)
      PROVE  call'[e].pc = "enqueue_ingest" /\ call'[e].todo = {d}
  BY <1>t, <1>2, AfterProcessDelete DEF CallIs
<1>3. CASE ProcessEnqueue(e)
  <2>1. PICK d \in Docs :
          /\ d \in call[e].todo
          /\ \/ call'[e].pc = "idle"
             \/ RowAdded(d, "ingest") /\ call'[e].todo = call[e].todo
    BY <1>t, <1>3, AfterProcessEnqueue DEF CallIs
  <2>2. (\E j \in RowsOf(d) : Live(j))'
    BY <2>1, UnsettledByWrite
  <2>3. \A f \in call[e].todo : f = d
    BY <1>t, <1>3, <2>1, AfterProcessEnqueue DEF HandlerInv
  <2> QED
    BY <2>1, <2>2, <2>3
<1>4. CASE DeriveRead(e)
  <2>1. call'[e].pc \in {"derive", "derive_write"}
    BY <1>t, <1>4, AfterDeriveRead DEF CallIs
  <2> QED
    BY <2>1
<1> QED
  BY <1>1, <1>2, <1>3, <1>4, HotCallSteps

(* A drain that is about to write a status has just read it.               *)
LEMMA WriterStep ==
    ASSUME OneProcess, UInv, OneHot, WriterInv, [Next]_vars
    PROVE  WriterInv'
<1>t. TypeOK
  BY DEF UInv, WInv
<1> SUFFICES ASSUME NEW e \in Calls, call'[e].pc = "derive_write", NEW w \in call'[e].derived
             PROVE  w.status \in DerivedStatuses(w.doc)'
  BY DEF WriterInv
<1>1. CASE call'[e] = call[e] /\ RowsKept
  <2>1. w.status \in DerivedStatuses(w.doc)
    BY <1>1 DEF WriterInv
  <2>2. DerivedStatuses(w.doc)' = DerivedStatuses(w.doc)
    <3>1. PICK d : d = w.doc
      OBVIOUS
    <3>2. w' = w
      OBVIOUS
    <3>3. DerivedStatuses(d)' = DerivedStatuses(d)
      BY <1>1, RowsOfOthersKept, DerivedKept
    <3> QED
      BY <3>1, <3>2, <3>3
  <2> QED
    BY <2>1, <2>2
<1>2. CASE DeriveRead(e)
  <2>0. PICK d \in Docs : \E s \in DerivedStatuses(d) :
          call'[e].derived = {[doc |-> d, status |-> s]}
    BY <1>t, <1>2, AfterDeriveRead DEF CallIs
  <2>1. PICK s \in DerivedStatuses(d) : call'[e].derived = {[doc |-> d, status |-> s]}
    BY <2>0
  <2>2. DerivedStatuses(d)' = DerivedStatuses(d)
    BY <1>t, <1>2, AfterDeriveRead, RowsOfOthersKept, DerivedKept
  <2>3. w.doc = d /\ w.status = s
    BY <2>1
  <2> QED
    BY <2>1, <2>2, <2>3
<1>3. ASSUME NEW d \in Docs, ProcessDelete(e, d) PROVE FALSE
  BY <1>t, <1>3, AfterProcessDelete DEF CallIs
<1>4. ASSUME ProcessEnqueue(e) PROVE FALSE
  BY <1>t, <1>4, AfterProcessEnqueue DEF CallIs
<1> QED
  BY <1>1, <1>2, <1>3, <1>4, HotCallSteps

\* No status is asked of the document, it has the status of its rows, or a
\* drain still derives it.
Excused(d) ==
    \/ docs'[d] \in {"gone", "uploaded"} \/ ~Settled(d)'
    \/ docs'[d] \in DerivedStatuses(d)'
    \/ (\E c \in Calls : Touches(c, d))'

Unconcerned(d) == docs'[d] = docs[d] /\ RowsOfKept(d) /\ TouchesKept(d)

(* Each document is excused, or not concerned by the step.                 *)
LEMMA StatusKept ==
    ASSUME StatusInv, crashes' = crashes, \A d \in Docs : Excused(d) \/ Unconcerned(d)
    PROVE  StatusInv'
<1> SUFFICES ASSUME crashes = 0, NEW d \in Docs, docs'[d] \notin {"gone", "uploaded"}, Settled(d)'
             PROVE  docs'[d] \in DerivedStatuses(d)' \/ (\E c \in Calls : Touches(c, d))'
  BY DEF StatusInv
<1>1. CASE Excused(d)
  BY <1>1 DEF Excused
<1>2. CASE Unconcerned(d)
  <2>1. /\ docs'[d] = docs[d] /\ DerivedStatuses(d)' = DerivedStatuses(d) /\ Settled(d)
        /\ TouchesKept(d)
    BY <1>2, DerivedKept DEF Unconcerned
  <2>2. docs[d] \in DerivedStatuses(d) \/ \E c \in Calls : Touches(c, d)
    BY <2>1 DEF StatusInv
  <2> QED
    BY <2>1, <2>2 DEF TouchesKept
<1> QED
  BY <1>1, <1>2

(* The task of a job at work belongs to a drain that will derive the       *)
(* status of its document.                                                 *)
LEMMA ActiveTouches ==
    ASSUME UInv, NEW c \in Calls, NEW j, Active(c, j)
    PROVE  Touches(c, jobs[j].doc)
BY ActiveParts DEF UInv, WInv, RestInv, Waits, NoDrainAborts, Touches

(* A step of a task that changes no row, or only rows of its document.     *)
LEMMA StatusAtWork ==
    ASSUME UInv, StatusInv, crashes' = crashes, NEW c \in Calls, NEW j, Active(c, j),
           SameKeys, call' = call, \A e \in Calls : DOMAIN task'[e] = DOMAIN task[e],
           \A d \in Docs : d # jobs[j].doc => docs'[d] = docs[d] /\ RowsOfKept(d)
    PROVE  StatusInv'
<1>t. TypeOK
  BY DEF UInv, WInv
<1>1. \A d : \A e \in Calls : Touches(e, d) => Touches(e, d)'
  BY <1>t, TouchesGoOn
<1> DEFINE f == jobs[j].doc
<1>2. (\E e \in Calls : Touches(e, f))
  BY ActiveTouches
<1> HIDE DEF f
<1>3. ASSUME NEW d \in Docs PROVE Excused(d) \/ Unconcerned(d)
  <2>1. \A e \in Calls : Touches(e, d) => Touches(e, d)'
    BY <1>1
  <2>2. CASE d = f
    BY <1>2, <2>1, <2>2 DEF Excused
  <2>3. CASE d # f
    BY <2>1, <2>3 DEF Unconcerned, TouchesKept, f
  <2> QED
    BY <2>2, <2>3
<1> QED
  BY <1>3, StatusKept

(* A step of a call that leaves the documents alone: it loses the touch of *)
(* no document, or of one that is not settled.                             *)
LEMMA StatusOfCall ==
    ASSUME UInv, StatusInv, crashes' = crashes, docs' = docs, SameKeys,
           NEW c \in Calls, NEW pc, NEW todo, CallIs(c, pc, todo),
           \A e \in Calls \ {c} : DOMAIN task'[e] = DOMAIN task[e],
           \A d \in Docs : RowsOfKept(d) \/ ~Settled(d)',
           \A d \in Docs : Touches(c, d) => Touches(c, d)' \/ ~Settled(d)
    PROVE  StatusInv'
<1>t. TypeOK
  BY DEF UInv, WInv
<1>1. ASSUME NEW d \in Docs PROVE Excused(d) \/ Unconcerned(d)
  <2>1. CASE ~Settled(d)'
    BY <2>1 DEF Excused
  <2>2. CASE Settled(d)'
    <3>1. RowsOfKept(d) /\ Settled(d)
      BY <2>2, DerivedKept
    <3>2. TouchesKept(d)
      BY <1>t, <3>1, TouchesGoOn
    <3> QED
      BY <3>1, <3>2 DEF Unconcerned
  <2> QED
    BY <2>1, <2>2
<1> QED
  BY <1>1, StatusKept

(* A call that waits for no task and derives nothing touches nothing.      *)
LEMMA TouchesNothing ==
    ASSUME NEW c \in Calls, NEW d,
           call[c].pc \notin {"gather", "derive", "derive_write"}
           \/ (call[c].pc = "derive" /\ call[c].todo = {})
    PROVE  ~Touches(c, d)
BY DEF Touches

(* gather() returned: what the tasks touched is to be derived.             *)
LEMMA StatusGathered ==
    ASSUME UInv, StatusInv, NEW c \in Calls, GatherReturns(c)
    PROVE  StatusInv'
<1>t. TypeOK
  BY DEF UInv, WInv
<1> DEFINE todo == {jobs[j].doc : j \in DOMAIN task[c]}
<1>1. /\ call[c].pc = "gather" /\ RowsKept /\ CallIs(c, "derive", todo)
      /\ \A e \in Calls \ {c} : task'[e] = task[e]
      /\ UNCHANGED <<docs, crashes>>
  BY <1>t, AfterGather DEF TasksEmptied
<1>2. ASSUME NEW d \in Docs, Touches(c, d) PROVE Touches(c, d)'
  <2>1. d \in todo
    BY <1>1, <1>2 DEF Touches
  <2> HIDE DEF todo
  <2> QED
    BY <1>1, <2>1 DEF Touches, CallIs
<1> HIDE DEF todo
<1>3. \A d \in Docs : RowsOfKept(d)
  BY <1>1, RowsOfOthersKept
<1>4. SameKeys
  BY <1>1 DEF RowsKept
<1> QED
  BY <1>1, <1>2, <1>3, <1>4, StatusOfCall

(* A status is read; a document without rows is passed over.               *)
LEMMA StatusRead ==
    ASSUME UInv, StatusInv, NEW c \in Calls, DeriveRead(c)
    PROVE  StatusInv'
<1>t. TypeOK
  BY DEF UInv, WInv
<1>1. call[c].pc = "derive" /\ RowsKept /\ UNCHANGED <<docs, task, crashes>>
  BY <1>t, AfterDeriveRead
<1>2. PICK f \in Docs : \/ /\ DerivedStatuses(f) = {}
                           /\ CallIs(c, "derive", call[c].todo \ {f})
                        \/ CallIs(c, "derive_write", call[c].todo)
  BY <1>t, AfterDeriveRead
<1>3. ASSUME NEW d \in Docs, Touches(c, d) PROVE Touches(c, d)' \/ ~Settled(d)
  <2>1. d \in call[c].todo
    BY <1>1, <1>3 DEF Touches
  <2>2. d = f /\ DerivedStatuses(f) = {} => ~Settled(d)
    BY SettledHasStatus
  <2> QED
    BY <1>2, <2>1, <2>2 DEF Touches, CallIs
<1>4. \A d \in Docs : RowsOfKept(d)
  BY <1>1, RowsOfOthersKept
<1>5. SameKeys
  BY <1>1 DEF RowsKept
<1>6. \E pc, todo : CallIs(c, pc, todo)
  BY <1>2
<1> QED
  BY <1>1, <1>3, <1>4, <1>5, <1>6, StatusOfCall

(* A status is written: the one of the rows.                               *)
LEMMA StatusWritten ==
    ASSUME UInv, StatusInv, WriterInv, NEW c \in Calls, DeriveWrite(c)
    PROVE  StatusInv'
<1>t. TypeOK
  BY DEF UInv, WInv
<1>1. call[c].pc = "derive_write" /\ RowsKept /\ UNCHANGED <<task, crashes>>
  BY <1>t, AfterDeriveWrite
<1>2. PICK w \in call[c].derived : /\ w.doc \in Docs /\ DocIs(w.doc, w.status)
                                   /\ CallIs(c, "derive", call[c].todo \ {w.doc})
  BY <1>t, AfterDeriveWrite
<1> DEFINE f == w.doc
           todo == call[c].todo \ {f}
<1>3. w.status \in DerivedStatuses(f)
  BY <1>1 DEF WriterInv
<1>4. f \in Docs /\ DocIs(f, w.status) /\ CallIs(c, "derive", todo)
  BY <1>2
<1>5. \A d \in Docs : Touches(c, d) /\ d # f => d \in todo
  BY <1>1 DEF Touches
<1> HIDE DEF f
<1>6. ASSUME NEW d \in Docs PROVE Excused(d) \/ Unconcerned(d)
  <2>1. RowsOfKept(d) /\ DerivedStatuses(d)' = DerivedStatuses(d)
    BY <1>1, RowsOfOthersKept, DerivedKept
  <2>2. CASE d = f
    <3>1. docs'[d] = "gone" \/ docs'[d] = w.status
      BY <1>4, <2>2 DEF DocIs
    <3>2. w.status \in DerivedStatuses(d)'
      BY <1>3, <2>1, <2>2
    <3> QED
      BY <3>1, <3>2 DEF Excused
  <2>3. CASE d # f
    <3>1. docs'[d] = docs[d]
      BY <1>4, <2>3 DEF DocIs
    <3>2. Touches(c, d) => d \in todo
      BY <1>5, <2>3
    <3> HIDE DEF todo
    <3>3. Touches(c, d) => Touches(c, d)'
      BY <1>4, <3>2 DEF Touches, CallIs
    <3>4. SameKeys
      BY <1>1 DEF RowsKept
    <3>5. TouchesKept(d)
      BY <1>t, <1>1, <1>4, <3>3, <3>4, TouchesGoOn
    <3> QED
      BY <2>1, <3>1, <3>5 DEF Unconcerned
  <2> QED
    BY <2>2, <2>3
<1> QED
  BY <1>1, <1>6, StatusKept

(* 'queued' is set where a job is live.                                    *)
LEMMA StatusQueued ==
    ASSUME UInv, StatusInv, HandlerInv, NEW c \in Calls, ProcessSetQueued(c)
    PROVE  StatusInv'
<1>t. TypeOK
  BY DEF UInv, WInv
<1>1. /\ call[c].pc = "set_queued" /\ RowsKept /\ CallIs(c, "kicked", {})
      /\ UNCHANGED <<task, crashes>>
  BY <1>t, AfterProcessSetQueued
<1>2. PICK f \in Docs : f \in call[c].todo /\ DocIs(f, "queued")
  BY <1>t, AfterProcessSetQueued
<1>3. ASSUME NEW d \in Docs PROVE Excused(d) \/ Unconcerned(d)
  <2>1. RowsOfKept(d) /\ (Settled(d)' <=> Settled(d)) /\ SameKeys
    BY <1>1, RowsOfOthersKept, DerivedKept DEF RowsKept
  <2>2. CASE d = f
    <3>1. ~Settled(d)
      BY <1>1, <1>2, <2>2 DEF HandlerInv, Settled
    <3> QED
      BY <2>1, <3>1 DEF Excused
  <2>3. CASE d # f
    <3>1. docs'[d] = docs[d]
      BY <1>2, <2>3 DEF DocIs
    <3>2. ~Touches(c, d)
      BY <1>1, TouchesNothing
    <3>3. TouchesKept(d)
      BY <1>t, <1>1, <2>1, <3>2, TouchesGoOn
    <3> QED
      BY <2>1, <3>1, <3>3 DEF Unconcerned
  <2> QED
    BY <2>2, <2>3
<1> QED
  BY <1>1, <1>3, StatusKept

(* A document is deleted, with its rows.                                   *)
LEMMA StatusDeleted ==
    ASSUME UInv, StatusInv, NEW f \in Docs, DocumentDelete(f)
    PROVE  StatusInv'
<1>t. TypeOK
  BY DEF UInv, WInv
<1>1. /\ RowsCleared(f) /\ docs'[f] = "gone" /\ \A e \in Docs \ {f} : docs'[e] = docs[e]
      /\ UNCHANGED <<call, task, crashes>>
  BY <1>t, AfterDocumentDelete
<1>2. SameKeys
  BY <1>1 DEF RowsCleared
<1>3. ASSUME NEW d \in Docs PROVE Excused(d) \/ Unconcerned(d)
  <2>1. CASE d = f
    BY <1>1, <2>1 DEF Excused
  <2>2. CASE d # f
    <3>1. docs'[d] = docs[d] /\ RowsOfKept(d)
      BY <1>1, <2>2, RowsOfOthersKept
    <3>2. TouchesKept(d)
      BY <1>t, <1>1, <1>2, TouchesGoOn DEF TouchesKept
    <3> QED
      BY <3>1, <3>2 DEF Unconcerned
  <2> QED
    BY <2>1, <2>2
<1> QED
  BY <1>1, <1>3, StatusKept

(* A document is set aside without an LLM key: no status is derived of it. *)
LEMMA StatusUploaded ==
    ASSUME UInv, StatusInv, NEW f \in Docs, ProcessWithoutKey(f)
    PROVE  StatusInv'
<1>t. TypeOK
  BY DEF UInv, WInv
<1>1. RowsKept /\ docs[f] # "gone" /\ DocIs(f, "uploaded") /\ UNCHANGED <<call, task, crashes>>
  BY <1>t, AfterWithoutKey
<1>2. SameKeys
  BY <1>1 DEF RowsKept
<1>3. ASSUME NEW d \in Docs PROVE Excused(d) \/ Unconcerned(d)
  <2>1. CASE d = f
    BY <1>1, <2>1 DEF Excused, DocIs
  <2>2. CASE d # f
    <3>1. docs'[d] = docs[d] /\ RowsOfKept(d)
      BY <1>1, <2>2, RowsOfOthersKept DEF DocIs
    <3>2. TouchesKept(d)
      BY <1>t, <1>1, <1>2, TouchesGoOn DEF TouchesKept
    <3> QED
      BY <3>1, <3>2 DEF Unconcerned
  <2> QED
    BY <2>1, <2>2
<1> QED
  BY <1>1, <1>3, StatusKept

(* A claim makes live rows of live ones.                                   *)
LEMMA StatusClaimed ==
    ASSUME UInv, StatusInv, NEW c \in Calls, Claim(c)
    PROVE  StatusInv'
<1>t. TypeOK
  BY DEF UInv, WInv
<1>1. /\ RowsClaimed
      /\ CallIs(c, IF Claimable = {} THEN "idle" ELSE "gather", call[c].todo)
      /\ \A e \in Calls \ {c} : task'[e] = task[e]
      /\ UNCHANGED <<docs, crashes>>
  BY <1>t, AfterClaim
<1>2. \A d : ~Touches(c, d)
  BY <1>t, AfterClaim, TouchesNothing
<1>3. SameKeys
  BY <1>1 DEF RowsClaimed
<1>4. \A d \in Docs : RowsOfKept(d) \/ ~Settled(d)'
  BY <1>1, RowsOfOthersKept
<1> QED
  BY <1>1, <1>2, <1>3, <1>4, StatusOfCall

(* The status of a document with no live job, through every step.          *)
LEMMA StatusStep ==
    ASSUME OneProcess, UInv, OneHot, HandlerInv, WriterInv, StatusInv, [Next]_vars
    PROVE  StatusInv'
<1>t. TypeOK /\ WInv /\ LiveUnique
  BY DEF UInv, WInv
<1>u. ASSUME UNCHANGED <<docs, call, task, crashes>>, RowsKept PROVE StatusInv'
  <2>1. \A d \in Docs : RowsOfKept(d) /\ SameKeys
    BY <1>u, RowsOfOthersKept DEF RowsKept
  <2>2. \A d \in Docs : TouchesKept(d)
    BY <1>t, <1>u, <2>1, TouchesGoOn DEF TouchesKept
  <2> QED
    BY <1>u, <2>1, <2>2, StatusKept DEF Unconcerned
<1>1. ASSUME NEW c \in Calls, NEW d \in Docs, ProcessDelete(c, d) PROVE StatusInv'
  <2>1. /\ call[c].pc = "idle" /\ RowsCleared(d) /\ CallIs(c, "enqueue_ingest", {d})
        /\ UNCHANGED <<docs, task, crashes>>
    BY <1>t, <1>1, AfterProcessDelete
  <2>2. \A f : ~Touches(c, f)
    BY <2>1, TouchesNothing
  <2>3. SameKeys /\ \A f \in Docs : RowsOfKept(f) \/ ~Settled(f)'
    BY <2>1, RowsOfOthersKept, UnsettledByWrite DEF RowsCleared
  <2> QED
    BY <2>1, <2>2, <2>3, StatusOfCall
<1>2. ASSUME NEW c \in Calls, ProcessEnqueue(c) PROVE StatusInv'
  <2>1. /\ call[c].pc = "enqueue_ingest" /\ UNCHANGED <<docs, task, crashes>>
        /\ RowsKept \/ \E d \in Docs : RowAdded(d, "ingest")
        /\ \E pc, todo : CallIs(c, pc, todo)
    BY <1>t, <1>2, AfterProcessEnqueue
  <2>2. \A f : ~Touches(c, f)
    BY <2>1, TouchesNothing
  <2>3. SameKeys /\ \A f \in Docs : RowsOfKept(f) \/ ~Settled(f)'
    BY <2>1, RowsOfOthersKept, UnsettledByWrite DEF RowsKept, RowAdded
  <2> QED
    BY <2>1, <2>2, <2>3, StatusOfCall
<1>3. ASSUME NEW c \in Calls, ProcessSetQueued(c) PROVE StatusInv'
  BY <1>3, StatusQueued
<1>4. ASSUME NEW d \in Docs, DocumentDelete(d) PROVE StatusInv'
  BY <1>4, StatusDeleted
<1>w. ASSUME NEW d \in Docs, ProcessWithoutKey(d) PROVE StatusInv'
  BY <1>w, StatusUploaded
<1>5. ASSUME NEW c \in Calls, StartDrain(c) \/ KickDrain(c) PROVE StatusInv'
  <2>1. /\ call[c].pc \in {"idle", "kicked"} /\ RowsRecovered
        /\ CallIs(c, "claim", call[c].todo) /\ UNCHANGED <<docs, task, crashes>>
    BY <1>t, <1>5, AfterRecover
  <2>2. \A f : ~Touches(c, f)
    BY <2>1, TouchesNothing
  <2>3. SameKeys /\ \A f \in Docs : RowsOfKept(f) \/ ~Settled(f)'
    BY <2>1, RowsOfOthersKept DEF RowsRecovered
  <2> QED
    BY <2>1, <2>2, <2>3, StatusOfCall
<1>6. ASSUME NEW c \in Calls, Claim(c) PROVE StatusInv'
  BY <1>6, StatusClaimed
<1>7. ASSUME NEW c \in Calls, GatherReturns(c) PROVE StatusInv'
  BY <1>7, StatusGathered
<1>8. ASSUME NEW c \in Calls, DeriveRead(c) PROVE StatusInv'
  BY <1>8, StatusRead
<1>9. ASSUME NEW c \in Calls, DeriveWrite(c) PROVE StatusInv'
  BY <1>9, StatusWritten
<1>10. ASSUME NEW c \in Calls, BudgetSpent(c) \/ AbortedDrainEnds(c) PROVE StatusInv'
  <2>1. call[c].pc # "aborted"
    BY DEF UInv, NoDrainAborts
  <2>2. /\ RowsKept /\ CallIs(c, "idle", call[c].todo) /\ UNCHANGED <<docs, task, crashes>>
        /\ call[c].pc = "derive" /\ call[c].todo = {}
    BY <1>t, <1>10, <2>1, AfterDrainEnd
  <2>3. \A f : ~Touches(c, f)
    BY <2>2, TouchesNothing
  <2>4. SameKeys /\ \A f \in Docs : RowsOfKept(f)
    BY <2>2, RowsOfOthersKept DEF RowsKept
  <2> QED
    BY <2>2, <2>3, <2>4, StatusOfCall
<1>11. ASSUME NEW c \in Calls, NEW j, TaskStart(c, j) PROVE StatusInv'
  <2>1. /\ Active(c, j) /\ RowsKept /\ UNCHANGED <<call, crashes>>
        /\ \A e \in Calls : DOMAIN task'[e] = DOMAIN task[e]
    BY <1>t, <1>11, AfterTaskStart DEF TaskAt
  <2>2. docs' = docs \/ \E s : DocIs(jobs[j].doc, s)
    BY <1>t, <1>11, AfterTaskStart
  <2>3. \A d \in Docs : d # jobs[j].doc => docs'[d] = docs[d]
    BY <2>2 DEF DocIs
  <2>4. SameKeys /\ \A d \in Docs : RowsOfKept(d)
    BY <2>1, RowsOfOthersKept DEF RowsKept
  <2> QED
    BY <2>1, <2>3, <2>4, StatusAtWork
<1>12. ASSUME NEW c \in Calls, NEW j, TaskEnds(c, j) PROVE StatusInv'
  <2>1. /\ Active(c, j) /\ RowsKept /\ UNCHANGED <<docs, call, crashes>>
        /\ \A e \in Calls : DOMAIN task'[e] = DOMAIN task[e]
    BY <1>t, <1>12, AfterTaskEnds DEF TaskAt
  <2>2. SameKeys /\ \A d \in Docs : RowsOfKept(d)
    BY <2>1, RowsOfOthersKept DEF RowsKept
  <2> QED
    BY <2>1, <2>2, StatusAtWork
<1>13. ASSUME NEW c \in Calls, NEW j, EnqueueSuccessors(c, j) PROVE StatusInv'
  <2>1. /\ Active(c, j) /\ UNCHANGED <<docs, call, crashes>>
        /\ \A e \in Calls : DOMAIN task'[e] = DOMAIN task[e]
        /\ RowsKept \/ \E s : RowAdded(jobs[j].doc, s)
    BY <1>t, <1>13, AfterEnqueueSuccessors DEF TaskAt
  <2>2. SameKeys /\ \A d \in Docs : d # jobs[j].doc => RowsOfKept(d)
    BY <2>1, RowsOfOthersKept DEF RowsKept, RowAdded
  <2> QED
    BY <2>1, <2>2, StatusAtWork
<1>14. ASSUME NEW c \in Calls, NEW j, MarkDone(c, j) \/ MarkFailed(c, j) PROVE StatusInv'
  <2>1. /\ Active(c, j) /\ j \in Ids /\ UNCHANGED <<docs, call, crashes>>
        /\ \A e \in Calls : DOMAIN task'[e] = DOMAIN task[e]
        /\ \E s : RowPut(j, s)
    BY <1>t, <1>14, AfterMarkDone, AfterMarkFailed, ActiveIds DEF TaskAt
  <2>2. SameKeys /\ \A d \in Docs : d # jobs[j].doc => RowsOfKept(d)
    BY <2>1, RowsOfOthersKept DEF RowPut
  <2> QED
    BY <2>1, <2>2, StatusAtWork
<1>16. ASSUME NEW c \in Calls, NEW j, MarkFailedRaises(c, j) PROVE StatusInv'
  BY <1>t, <1>16, NeverRaises
<1>17. ASSUME NEW j, (\E c \in Calls : Heartbeat(c, j)) \/ BackoffElapses(j) \/ LeaseLapses(j)
       PROVE  StatusInv'
  BY <1>t, <1>u, <1>17, AfterTime
<1>18. ASSUME NEW p \in Procs, Crash(p) PROVE StatusInv'
  <2>1. crashes' = crashes + 1 /\ crashes \in Nat
    BY <1>t, <1>18, AfterCrash DEF TypeOK
  <2>2. crashes' # 0
    BY <2>1
  <2> QED
    BY <2>2 DEF StatusInv
<1>19. CASE UNCHANGED vars
  BY <1>u, <1>19, RowsLeftAlone DEF vars
<1> QED
  BY <1>1, <1>2, <1>3, <1>4, <1>w, <1>5, <1>6, <1>7, <1>8, <1>9, <1>10, <1>11, <1>12, <1>13,
     <1>14, <1>16, <1>17, <1>18, <1>19 DEF Next, CallStep, TaskStep

SInv == HInv /\ HandlerInv /\ WriterInv /\ StatusInv

(* With one process, the invariant so far is inductive.                    *)
LEMMA SInvInductive ==
    ASSUME SlowStages = {}, OneProcess
    PROVE  (Init => SInv) /\ (SInv /\ [Next]_vars => SInv')
<1>1. Init => HandlerInv /\ WriterInv /\ StatusInv
  BY DEF Init, HandlerInv, WriterInv, StatusInv, Settled, RowsOf, Ids, IdleCall
<1>2. HInv => UInv /\ OneHot
  BY DEF HInv, OInv, FInv
<1> QED
  BY <1>1, <1>2, HInvInductive, HandlerStep, WriterStep, StatusStep DEF SInv

(* When no call is at work and nothing is queued for a document, its       *)
(* status is the one its rows say, when one process serves the queue and   *)
(* does not die.  (A second process may write a status read before.)       *)
THEOREM RestingStatusIsDerivedCorrect ==
    ASSUME SlowStages = {}, OneProcess
    PROVE  Spec => [](crashes = 0 => RestingStatusIsDerived)
<1>1. SInv => (crashes = 0 => RestingStatusIsDerived)
  <2> SUFFICES ASSUME SInv, crashes = 0, NEW d \in Docs,
                      docs[d] \notin {"gone", "uploaded"}, RowsOf(d) # {}, Quiet(d)
               PROVE  docs[d] \in DerivedStatuses(d)
    BY DEF RestingStatusIsDerived
  <2>1. Settled(d)
    BY DEF Settled, Quiet
  <2>2. \A c \in Calls : ~Touches(c, d)
    BY DEF Touches, Quiet
  <2> QED
    BY <2>1, <2>2 DEF SInv, StatusInv
<1>2. (Init => SInv) /\ (SInv /\ [Next]_vars => SInv')
  BY SInvInductive
<1> QED
  BY <1>1, <1>2, PTL DEF Spec

-----------------------------------------------------------------------------
(* A document that is completed. *)

\* Its rows say so.
Whole(d) == DerivedStatuses(d) = {"completed"}

CompletedInv == \A d \in Docs : QueuedOnce(d) /\ docs[d] = "completed" => Whole(d)

(* 'completed' is derived from a document with rows of which none is live, *)
(* and then it is all that can be derived.                                 *)
LEMMA CompletedIsSettled ==
    ASSUME TypeOK, NEW d, "completed" \in DerivedStatuses(d)
    PROVE  Whole(d) /\ Settled(d)
<1> DEFINE rows == RowsOf(d)
           active == {jobs[j].stage : j \in {k \in rows : Live(k)}}
           blocking == {j \in rows : jobs[j].status = "dead" /\ jobs[j].stage # "generate"}
           gen == {j \in rows : jobs[j].stage = "generate"}
           dead == {StageDeadStatus[jobs[j].stage] : j \in blocking}
           first == {t \in active : \A u \in active : StageOrder[t] <= StageOrder[u]}
           running == {StageRunningStatus[s] : s \in first}
           undone == \A j \in gen : jobs[j].status # "done"
<1>1. \A j \in rows : jobs[j].stage \in Stages
  BY TableType DEF TypeOK, Row, RowsOf
<1>2. \A s \in Stages : StageDeadStatus[s] # "completed" /\ StageRunningStatus[s] # "completed"
  BY DEF Stages, StageDeadStatus, StageRunningStatus
<1>3. "completed" \notin dead /\ "completed" \notin running
  BY <1>1, <1>2
<1>4. DerivedStatuses(d) =
        IF rows = {} THEN {}
        ELSE IF blocking # {} THEN dead
        ELSE IF active # {} THEN running
        ELSE IF gen # {} /\ undone THEN {StageDeadStatus["generate"]}
        ELSE {"completed"}
  BY DEF DerivedStatuses
<1>5. StageDeadStatus["generate"] # "completed"
  BY DEF StageDeadStatus
<1>6. active = {} => \A k \in rows : ~Live(k)
  OBVIOUS
<1> HIDE DEF active, blocking, gen, dead, first, running, undone
<1>7. rows # {} /\ active = {} /\ DerivedStatuses(d) = {"completed"}
  BY <1>3, <1>4, <1>5
<1> QED
  BY <1>6, <1>7 DEF Whole, Settled

(* Recovery and claims only write live rows.                               *)
LEMMA SettledRowsKept ==
    ASSUME NEW d, Settled(d)
    PROVE  (RowsRecovered => RowsOfKept(d)) /\ (RowsClaimed => RowsOfKept(d))
<1>1. \A j \in Ids : jobs[j].doc = d /\ Exists(j) => ~Live(j)
  BY DEF Settled, RowsOf
<1>2. ASSUME RowsRecovered PROVE RowsOfKept(d)
  <2>1. \A j \in Ids : jobs[j].doc = d => jobs'[j].status = jobs[j].status
    BY <1>1, <1>2 DEF RowsRecovered, Exists, Live
  <2> QED
    BY <1>2, <2>1 DEF RowsRecovered, RowsOfKept, RowsOf, Exists, SameKeys
<1>3. ASSUME RowsClaimed PROVE RowsOfKept(d)
  <2>1. \A j \in Ids : jobs[j].doc = d => jobs'[j].status = jobs[j].status
    BY <1>1, <1>3 DEF RowsClaimed, Exists, Live
  <2> QED
    BY <1>3, <2>1 DEF RowsClaimed, RowsOfKept, RowsOf, Exists, SameKeys
<1> QED
  BY <1>2, <1>3

(* Nobody works on a completed document: no task of an old round, no       *)
(* handler that queues it.                                                 *)
LEMMA NobodyWorksOnIt ==
    ASSUME FInv, NEW d \in Docs, QueuedOnce(d), docs[d] = "completed", Whole(d)
    PROVE  /\ Settled(d)
           /\ processed[d] # 0
           /\ \A c \in Calls : ~Enqueues(c, d)
           /\ \A c \in Calls : \A j : Active(c, j) => jobs[j].doc # d
<1>t. TypeOK /\ WInv
  BY DEF FInv, UInv, WInv
<1>1. Settled(d)
  BY <1>t, CompletedIsSettled DEF Whole
<1>2. ~NoRows(d)
  BY <1>1 DEF Settled, RowsOf, NoRows
<1>3. processed[d] # 0 /\ \A c \in Calls : ~Enqueues(c, d)
  BY <1>2 DEF FInv, BareInv, NewIsBare, FirstIsBare
<1>4. ASSUME NEW c \in Calls, NEW j, Active(c, j), jobs[j].doc = d PROVE FALSE
  <2>1. j \in Ids
    BY <1>t, <1>4, ActiveIds
  <2>2. Exists(j)
    BY <1>4, <2>1 DEF FInv, BareInv, FirstRowsStay
  <2>3. Live(j)
    BY <1>t, <1>4, <2>2, WorkedIsLive
  <2> QED
    BY <1>1, <1>4, <2>1, <2>2, <2>3 DEF Settled, RowsOf
<1> QED
  BY <1>1, <1>3, <1>4

CompletedStays(d) ==
    /\ QueuedOnce(d)' /\ docs'[d] = "completed" => Whole(d)'
    /\ QueuedOnce(d) /\ docs[d] = "completed" =>
          docs'[d] \in {"completed", "queued", "uploaded", "gone"}

(* A completed document, through every step.                               *)
LEMMA CompletedStep ==
    ASSUME FInv, WriterInv, CompletedInv, [Next]_vars, NEW d \in Docs
    PROVE  CompletedStays(d)
<1>t. TypeOK /\ WInv /\ LiveUnique
  BY DEF FInv, UInv, WInv
<1>s. ASSUME QueuedOnce(d), docs[d] = "completed"
      PROVE  /\ Settled(d) /\ processed[d] # 0 /\ Whole(d)
             /\ \A c \in Calls : ~Enqueues(c, d)
             /\ \A c \in Calls : \A j : Active(c, j) => jobs[j].doc # d
  BY <1>s, NobodyWorksOnIt DEF CompletedInv
<1>k. ASSUME docs'[d] = docs[d], QueuedOnce(d)' => QueuedOnce(d),
             QueuedOnce(d)' /\ docs[d] = "completed" => RowsOfKept(d)
      PROVE  CompletedStays(d)
  <2>1. RowsOfKept(d) /\ Whole(d) => Whole(d)'
    BY DerivedKept DEF Whole
  <2> QED
    BY <1>k, <1>s, <2>1 DEF CompletedStays
<1>p. processed' = processed => (QueuedOnce(d)' <=> QueuedOnce(d))
  BY DEF QueuedOnce
<1>u. ASSUME docs' = docs, processed' = processed, RowsKept PROVE CompletedStays(d)
  BY <1>k, <1>p, <1>u, RowsOfOthersKept
<1>1. ASSUME NEW c \in Calls, NEW e \in Docs, ProcessDelete(c, e) PROVE CompletedStays(d)
  <2>1. /\ RowsCleared(e) /\ docs' = docs /\ processed'[e] = processed[e] + 1
        /\ \A f \in Docs \ {e} : processed'[f] = processed[f]
        /\ processed[d] \in Nat
    BY <1>t, <1>1, AfterProcessDelete DEF TypeOK
  <2>2. CASE d = e
    <3>1. QueuedOnce(d)' => processed[d] = 0
      BY <2>1, <2>2 DEF QueuedOnce
    <3>2. QueuedOnce(d)' => QueuedOnce(d)
      BY <3>1 DEF QueuedOnce
    <3> QED
      BY <1>k, <1>s, <2>1, <3>1, <3>2
  <2>3. CASE d # e
    <3>1. QueuedOnce(d)' => QueuedOnce(d)
      BY <2>1, <2>3 DEF QueuedOnce
    <3> QED
      BY <1>k, <2>1, <2>3, <3>1, RowsOfOthersKept
  <2> QED
    BY <2>2, <2>3
<1>2. ASSUME NEW c \in Calls, ProcessEnqueue(c) PROVE CompletedStays(d)
  <2>1. /\ docs' = docs /\ processed' = processed
        /\ RowsKept \/ \E e \in Docs : Enqueues(c, e) /\ RowAdded(e, "ingest")
    BY <1>t, <1>2, AfterProcessEnqueue DEF Enqueues
  <2>2. QueuedOnce(d) /\ docs[d] = "completed" => RowsOfKept(d)
    BY <1>s, <2>1, RowsOfOthersKept
  <2> QED
    BY <1>k, <1>p, <2>1, <2>2
<1>3. ASSUME NEW c \in Calls, ProcessSetQueued(c) PROVE CompletedStays(d)
  <2>1. RowsKept /\ processed' = processed /\ \E e \in Docs : DocIs(e, "queued")
    BY <1>t, <1>3, AfterProcessSetQueued
  <2>2. docs'[d] = docs[d] \/ docs'[d] = "queued"
    BY <2>1 DEF DocIs
  <2>3. CASE docs'[d] = "queued"
    BY <2>3 DEF CompletedStays
  <2> QED
    BY <1>k, <1>p, <2>1, <2>2, <2>3, RowsOfOthersKept
<1>4. ASSUME NEW e \in Docs, DocumentDelete(e) PROVE CompletedStays(d)
  <2>1. /\ RowsCleared(e) /\ docs'[e] = "gone" /\ \A f \in Docs \ {e} : docs'[f] = docs[f]
        /\ processed' = processed
    BY <1>t, <1>4, AfterDocumentDelete
  <2>2. CASE d = e
    BY <2>1, <2>2 DEF CompletedStays
  <2>3. CASE d # e
    BY <1>k, <1>p, <2>1, <2>3, RowsOfOthersKept
  <2> QED
    BY <2>2, <2>3
<1>w. ASSUME NEW e \in Docs, ProcessWithoutKey(e) PROVE CompletedStays(d)
  <2>1. RowsKept /\ processed' = processed /\ DocIs(e, "uploaded")
    BY <1>t, <1>w, AfterWithoutKey
  <2>2. docs'[d] = docs[d] \/ docs'[d] = "uploaded"
    BY <2>1 DEF DocIs
  <2>3. CASE docs'[d] = "uploaded"
    BY <2>3 DEF CompletedStays
  <2> QED
    BY <1>k, <1>p, <2>1, <2>2, <2>3, RowsOfOthersKept
<1>5. ASSUME NEW c \in Calls, StartDrain(c) \/ KickDrain(c) PROVE CompletedStays(d)
  <2>1. RowsRecovered /\ docs' = docs /\ processed' = processed
    BY <1>t, <1>5, AfterRecover
  <2> QED
    BY <1>k, <1>p, <1>s, <2>1, SettledRowsKept
<1>6. ASSUME NEW c \in Calls, Claim(c) PROVE CompletedStays(d)
  <2>1. RowsClaimed /\ docs' = docs /\ processed' = processed
    BY <1>t, <1>6, AfterClaim
  <2> QED
    BY <1>k, <1>p, <1>s, <2>1, SettledRowsKept
<1>7. ASSUME NEW c \in Calls, GatherReturns(c) PROVE CompletedStays(d)
  BY <1>t, <1>u, <1>7, AfterGather
<1>8. ASSUME NEW c \in Calls, DeriveRead(c) PROVE CompletedStays(d)
  BY <1>t, <1>u, <1>8, AfterDeriveRead
<1>9. ASSUME NEW c \in Calls, DeriveWrite(c) PROVE CompletedStays(d)
  <2>1. call[c].pc = "derive_write" /\ RowsKept /\ processed' = processed
    BY <1>t, <1>9, AfterDeriveWrite
  <2>2. PICK w \in call[c].derived : w.doc \in Docs /\ DocIs(w.doc, w.status)
    BY <1>t, <1>9, AfterDeriveWrite
  <2>3. RowsOfKept(d) /\ DerivedStatuses(d)' = DerivedStatuses(d)
    BY <2>1, RowsOfOthersKept, DerivedKept
  <2>4. CASE docs'[d] = docs[d]
    BY <1>k, <1>p, <2>1, <2>3, <2>4
  <2>5. CASE docs'[d] # docs[d]
    <3>1. w.doc = d /\ docs'[d] = w.status
      BY <2>2, <2>5 DEF DocIs
    <3>2. w.status \in DerivedStatuses(d)
      BY <2>1, <3>1 DEF WriterInv
    <3>3. docs'[d] = "completed" => Whole(d)'
      BY <1>t, <2>3, <3>1, <3>2, CompletedIsSettled DEF Whole
    <3>4. Whole(d) => docs'[d] = "completed"
      BY <3>1, <3>2 DEF Whole
    <3> QED
      BY <1>s, <3>3, <3>4 DEF CompletedStays
  <2> QED
    BY <2>4, <2>5
<1>10. ASSUME NEW c \in Calls, BudgetSpent(c) \/ AbortedDrainEnds(c) PROVE CompletedStays(d)
  BY <1>t, <1>u, <1>10, AfterDrainEnd
<1>11. ASSUME NEW c \in Calls, NEW j, TaskStart(c, j) PROVE CompletedStays(d)
  <2>1. Active(c, j) /\ RowsKept /\ processed' = processed
    BY <1>t, <1>11, AfterTaskStart
  <2>2. \/ docs' = docs
        \/ \E s \in {"extracting", "chunked", "analyzing", "structured"} : DocIs(jobs[j].doc, s)
    BY <1>t, <1>11, AfterTaskStart
  <2>3. CASE docs'[d] = docs[d]
    BY <1>k, <1>p, <2>1, <2>3, RowsOfOthersKept
  <2>4. CASE docs'[d] # docs[d]
    <3>1. jobs[j].doc = d /\ docs'[d] # "completed"
      BY <2>2, <2>4 DEF DocIs
    <3> QED
      BY <1>s, <2>1, <3>1 DEF CompletedStays
  <2> QED
    BY <2>3, <2>4
<1>12. ASSUME NEW c \in Calls, NEW j, TaskEnds(c, j) PROVE CompletedStays(d)
  BY <1>t, <1>u, <1>12, AfterTaskEnds
<1>13. ASSUME NEW c \in Calls, NEW j, EnqueueSuccessors(c, j) PROVE CompletedStays(d)
  <2>1. /\ Active(c, j) /\ docs' = docs /\ processed' = processed
        /\ RowsKept \/ \E s : RowAdded(jobs[j].doc, s)
    BY <1>t, <1>13, AfterEnqueueSuccessors
  <2> QED
    BY <1>k, <1>p, <1>s, <2>1, RowsOfOthersKept
<1>14. ASSUME NEW c \in Calls, NEW j, MarkDone(c, j) \/ MarkFailed(c, j) PROVE CompletedStays(d)
  <2>1. /\ Active(c, j) /\ j \in Ids /\ docs' = docs /\ processed' = processed
        /\ \E s : RowPut(j, s)
    BY <1>t, <1>14, AfterMarkDone, AfterMarkFailed, ActiveIds
  <2> QED
    BY <1>k, <1>p, <1>s, <2>1, RowsOfOthersKept
<1>16. ASSUME NEW c \in Calls, NEW j, MarkFailedRaises(c, j) PROVE CompletedStays(d)
  BY <1>t, <1>16, NeverRaises
<1>17. ASSUME NEW j, (\E c \in Calls : Heartbeat(c, j)) \/ BackoffElapses(j) \/ LeaseLapses(j)
       PROVE  CompletedStays(d)
  BY <1>t, <1>u, <1>17, AfterTime
<1>18. ASSUME NEW p \in Procs, Crash(p) PROVE CompletedStays(d)
  BY <1>t, <1>u, <1>18, AfterCrash
<1>19. CASE UNCHANGED vars
  BY <1>u, <1>19, RowsLeftAlone DEF vars
<1> QED
  BY <1>1, <1>2, <1>3, <1>4, <1>w, <1>5, <1>6, <1>7, <1>8, <1>9, <1>10, <1>11, <1>12, <1>13,
     <1>14, <1>16, <1>17, <1>18, <1>19 DEF Next, CallStep, TaskStep

CInv == SInv /\ CompletedInv

(* With one process, the whole invariant is inductive, and every step      *)
(* leaves a completed document completed.                                  *)
LEMMA CInvInductive ==
    ASSUME SlowStages = {}, OneProcess
    PROVE  /\ Init => CInv
           /\ CInv /\ [Next]_vars => CInv' /\ \A d \in Docs : CompletedStays(d)
<1>1. Init => CompletedInv
  BY DEF Init, CompletedInv
<1>2. SInv => FInv /\ WriterInv
  BY DEF SInv, HInv, OInv
<1>3. ASSUME CInv, [Next]_vars PROVE \A d \in Docs : CompletedStays(d)
  BY <1>2, <1>3, CompletedStep DEF CInv
<1>4. (\A d \in Docs : CompletedStays(d)) => CompletedInv'
  BY DEF CompletedStays, CompletedInv
<1> QED
  BY <1>1, <1>3, <1>4, SInvInductive DEF CInv

(* A completed document stays completed until it is queued again, set      *)
(* aside without an LLM key or deleted, whatever crashes come in between,  *)
(* when one process serves the queue.  (A second process may write a       *)
(* status read before.)                                                    *)
THEOREM CompletedIsStableCorrect ==
    ASSUME SlowStages = {}, OneProcess
    PROVE  Spec => CompletedIsStable
<1>1. CInv /\ [Next]_vars =>
        [\A d \in Docs : QueuedOnce(d) /\ docs[d] = "completed" =>
            docs'[d] \in {"completed", "queued", "uploaded", "gone"}]_vars
  BY CInvInductive DEF CompletedStays
<1>2. (Init => CInv) /\ (CInv /\ [Next]_vars => CInv')
  BY CInvInductive
<1> QED
  BY <1>1, <1>2, PTL DEF Spec, CompletedIsStable


-----------------------------------------------------------------------------
(* The statuses nothing follows, whatever dies and however many processes  *)
(* derive them: what a read has found stays true until it is written,      *)
(* since a row that is done or dead stays so.                              *)

DeadStatuses == {StageDeadStatus[s] : s \in Stages}

Deserved(d, s) ==
    /\ s = "completed" =>
          \A t \in Stages : \E j \in Ids :
             jobs[j].doc = d /\ jobs[j].stage = t /\ jobs[j].status = "done"
    /\ s \in DeadStatuses =>
          \E j \in Ids : /\ jobs[j].doc = d /\ jobs[j].status = "dead"
                         /\ StageDeadStatus[jobs[j].stage] = s

EndedRowsStay(d) ==
    \A j \in Ids : jobs[j].doc = d /\ jobs[j].status \in {"done", "dead"} =>
        /\ j \in Ids' /\ jobs'[j].doc = d
        /\ jobs'[j].stage = jobs[j].stage /\ jobs'[j].status = jobs[j].status

\* The first row of a document is its ingest, and tombstones are rows too.
IngestFirst == \A j \in Ids : \E k \in Ids : SameDoc(j, k) /\ jobs[k].stage = "ingest"

StatusDeserved == \A d \in Docs : QueuedOnce(d) => Deserved(d, docs[d])

WriteDeserved ==
    \A c \in Calls : call[c].pc = "derive_write" =>
        \A w \in call[c].derived :
            QueuedOnce(w.doc) /\ docs[w.doc] # "gone" => Deserved(w.doc, w.status)

(* What a document deserves it keeps with its rows.                        *)
LEMMA DeservedKept ==
    ASSUME NEW d, EndedRowsStay(d)
    PROVE  \A s : Deserved(d, s) => Deserved(d, s)'
<1> SUFFICES ASSUME NEW s, Deserved(d, s) PROVE Deserved(d, s)'
  OBVIOUS
<1>1. ASSUME s = "completed", NEW t \in Stages
      PROVE  \E j \in Ids' : jobs'[j].doc = d /\ jobs'[j].stage = t /\ jobs'[j].status = "done"
  BY <1>1 DEF Deserved, EndedRowsStay
<1>2. ASSUME s \in DeadStatuses
      PROVE  \E j \in Ids' : /\ jobs'[j].doc = d /\ jobs'[j].status = "dead"
                             /\ StageDeadStatus[jobs'[j].stage] = s
  BY <1>2 DEF Deserved, EndedRowsStay
<1> QED
  BY <1>1, <1>2 DEF Deserved

(* A status from which work goes on needs no rows to deserve it.           *)
LEMMA RunningDeserved ==
    ASSUME NEW d, NEW s, s # "completed", s \notin DeadStatuses
    PROVE  Deserved(d, s)
BY DEF Deserved

(* The statuses of a stage at work, and the others that are no end.        *)
LEMMA NoEnd ==
    /\ \A s \in Stages : StageRunningStatus[s] # "completed" /\ StageRunningStatus[s] \notin DeadStatuses
    /\ \A s \in {"gone", "queued", "uploaded", "extracting", "chunked", "analyzing", "structured"} :
          s # "completed" /\ s \notin DeadStatuses
    /\ "completed" \notin DeadStatuses
    /\ \A s \in Stages : StageDeadStatus[s] # "completed"
BY DEF DeadStatuses, Stages, StageRunningStatus, StageDeadStatus

(* 'completed' is read when every stage is done.  The ingest is there; it  *)
(* is neither live nor dead; and as it has no gap, each stage has the next *)
(* one.                                                                    *)
LEMMA CompletedIsDeserved ==
    ASSUME FInv, NoGap, IngestFirst, NEW d \in Docs, QueuedOnce(d), docs[d] # "gone",
           "completed" \in DerivedStatuses(d)
    PROVE  Deserved(d, "completed")
<1>t. TypeOK /\ FirstRowsStay
  BY DEF FInv, UInv, WInv, BareInv
<1> DEFINE Has(t) == \E j \in Ids : jobs[j].doc = d /\ jobs[j].stage = t /\ Exists(j)
           Done(t) == \E j \in Ids : jobs[j].doc = d /\ jobs[j].stage = t /\ jobs[j].status = "done"
           blocking == {j \in RowsOf(d) : jobs[j].status = "dead" /\ jobs[j].stage # "generate"}
           gen == {j \in RowsOf(d) : jobs[j].stage = "generate"}
<1>1. Settled(d) /\ DerivedStatuses(d) = {"completed"}
  BY <1>t, CompletedIsSettled DEF Whole
<1>2. blocking = {} /\ ~(gen # {} /\ \A j \in gen : jobs[j].status # "done")
  <2>1. {StageDeadStatus[jobs[j].stage] : j \in blocking} # {"completed"}
    <3>1. \A j \in blocking : jobs[j].stage \in Stages
      BY <1>t, TableType DEF TypeOK, Row, RowsOf
    <3> QED
      BY <3>1, NoEnd
  <2>2. StageDeadStatus["generate"] # "completed"
    BY DEF StageDeadStatus
  <2>3. \A j \in RowsOf(d) : ~Live(j)
    BY <1>1 DEF Settled
  <2>4. {jobs[j].stage : j \in {k \in RowsOf(d) : Live(k)}} = {}
    BY <2>3
  <2>5. RowsOf(d) # {}
    BY <1>1 DEF Settled
  <2> QED
    BY <1>1, <2>1, <2>2, <2>4, <2>5 DEF DerivedStatuses
<1>3. \A j \in Ids : jobs[j].doc = d /\ Exists(j) => jobs[j].status \in {"done", "dead"}
  BY <1>t, <1>1, TableType DEF TypeOK, Row, RowStatus, Settled, RowsOf, Exists, Live
<1>4. \A t : t # "generate" /\ Has(t) => Done(t)
  BY <1>2, <1>3 DEF RowsOf
<1>5. Has("generate") => Done("generate")
  <2>1. ASSUME Has("generate") PROVE gen # {}
    BY <2>1 DEF RowsOf
  <2> QED
    BY <1>2, <2>1 DEF RowsOf
<1>6. \A t : t # "generate" /\ Done(t) => Has(Successor[t])
  BY DEF NoGap
<1>7. Has("ingest")
  <2>1. PICK j \in Ids : jobs[j].doc = d
    BY <1>1 DEF Settled, RowsOf
  <2>2. PICK k \in Ids : jobs[k].doc = d /\ jobs[k].stage = "ingest"
    BY <2>1 DEF IngestFirst, SameDoc
  <2> QED
    BY <1>t, <2>2 DEF FirstRowsStay
<1>8. /\ Successor["ingest"] = "extract" /\ Successor["extract"] = "structure"
      /\ Successor["structure"] = "generate"
  BY DEF Successor
<1> HIDE DEF Has, Done
<1>9. Done("ingest") /\ Done("extract") /\ Done("structure") /\ Done("generate")
  BY <1>4, <1>5, <1>6, <1>7, <1>8
<1>10. \A t \in Stages : Done(t)
  BY <1>9 DEF Stages
<1> QED
  BY <1>10, NoEnd DEF Deserved, Done

(* A failure is read from a row that is dead.                              *)
LEMMA FailureIsDeserved ==
    ASSUME TypeOK, NEW d, NEW s \in DeadStatuses, s \in DerivedStatuses(d)
    PROVE  Deserved(d, s)
<1> DEFINE active == {jobs[j].stage : j \in {k \in RowsOf(d) : Live(k)}}
           blocking == {j \in RowsOf(d) : jobs[j].status = "dead" /\ jobs[j].stage # "generate"}
           gen == {j \in RowsOf(d) : jobs[j].stage = "generate"}
           dead == {StageDeadStatus[jobs[j].stage] : j \in blocking}
           first == {t \in active : \A u \in active : StageOrder[t] <= StageOrder[u]}
           running == {StageRunningStatus[t] : t \in first}
           undone == \A j \in gen : jobs[j].status # "done"
<1>1. \A j \in Ids : jobs[j].stage \in Stages /\ jobs[j].status \in RowStatus
  BY TableType DEF TypeOK, Row
<1>2. s \notin running
  BY <1>1, NoEnd DEF RowsOf
<1>3. DerivedStatuses(d) =
        IF RowsOf(d) = {} THEN {}
        ELSE IF blocking # {} THEN dead
        ELSE IF active # {} THEN running
        ELSE IF gen # {} /\ undone THEN {StageDeadStatus["generate"]}
        ELSE {"completed"}
  BY DEF DerivedStatuses
<1>4. s # "completed"
  BY NoEnd
<1>5. \E j \in Ids : /\ jobs[j].doc = d /\ jobs[j].status = "dead"
                     /\ StageDeadStatus[jobs[j].stage] = s
  <2>1. CASE s \in dead
    BY <2>1 DEF RowsOf
  <2>2. CASE s \notin dead
    <3>1. active = {} /\ gen # {} /\ undone /\ s = StageDeadStatus["generate"]
      <4> HIDE DEF active, blocking, gen, dead, running, undone
      <4> QED
        BY <1>2, <1>3, <1>4, <2>2
    <3>2. PICK j \in gen : jobs[j].status # "done"
      BY <3>1
    <3>3. ~Live(j)
      BY <3>1, <3>2
    <3>4. j \in Ids /\ jobs[j].doc = d /\ Exists(j) /\ jobs[j].stage = "generate"
      BY <3>2 DEF RowsOf
    <3>5. jobs[j].status = "dead"
      BY <1>1, <3>2, <3>3, <3>4 DEF Live, Exists, RowStatus
    <3> QED
      BY <3>1, <3>4, <3>5
  <2> QED
    BY <2>1, <2>2
<1> QED
  BY <1>4, <1>5 DEF Deserved

(* So whatever is read is deserved.                                        *)
LEMMA ReadIsDeserved ==
    ASSUME FInv, NoGap, IngestFirst, NEW d \in Docs, QueuedOnce(d), docs[d] # "gone",
           NEW s \in DerivedStatuses(d)
    PROVE  Deserved(d, s)
<1>1. CASE s = "completed"
  BY <1>1, CompletedIsDeserved
<1>2. CASE s \in DeadStatuses
  BY <1>2, FailureIsDeserved DEF FInv, UInv, WInv
<1>3. CASE s # "completed" /\ s \notin DeadStatuses
  BY <1>3, RunningDeserved
<1> QED
  BY <1>1, <1>2, <1>3

(* What each step makes of a document that is queued once: its rows that   *)
(* are done or dead stay, and a new status is no end or the one a drain    *)
(* was about to write.                                                     *)
EndedStays(d) ==
    QueuedOnce(d)' /\ docs'[d] # "gone" =>
        QueuedOnce(d) /\ docs[d] # "gone" /\ EndedRowsStay(d)

WritesOf(d) ==
    \/ docs'[d] = docs[d]
    \/ docs'[d] # "completed" /\ docs'[d] \notin DeadStatuses
    \/ \E c \in Calls : /\ call[c].pc = "derive_write"
                        /\ \E w \in call[c].derived : w.doc = d /\ docs'[d] = w.status

(* The rows, whichever way the table is written.                           *)
LEMMA EndedKept ==
    ASSUME NEW d
    PROVE  /\ RowsKept => EndedRowsStay(d)
           /\ \A e : RowsCleared(e) /\ e # d => EndedRowsStay(d)
           /\ RowsRecovered => EndedRowsStay(d)
           /\ RowsClaimed => EndedRowsStay(d)
           /\ \A e, s : RowAdded(e, s) => EndedRowsStay(d)
           /\ NoRows(d) => EndedRowsStay(d)
<1>1. RowsKept => EndedRowsStay(d)
  BY DEF RowsKept, SameKeys, EndedRowsStay
<1>2. \A e : RowsCleared(e) /\ e # d => EndedRowsStay(d)
  BY DEF RowsCleared, SameKeys, EndedRowsStay
<1>3. RowsRecovered => EndedRowsStay(d)
  BY DEF RowsRecovered, SameKeys, EndedRowsStay
<1>4. RowsClaimed => EndedRowsStay(d)
  <2> SUFFICES ASSUME RowsClaimed, NEW j \in Ids, jobs[j].status \in {"done", "dead"}
               PROVE  j \in Ids' /\ jobs'[j].doc = jobs[j].doc /\ jobs'[j].stage = jobs[j].stage
                      /\ jobs'[j].status = jobs[j].status
    BY DEF EndedRowsStay
  <2>1. j \notin Claimable
    BY DEF RowsClaimed
  <2> QED
    BY <2>1 DEF RowsClaimed, SameKeys
<1>5. \A e, s : RowAdded(e, s) => EndedRowsStay(d)
  BY DEF RowAdded, SameKeys, EndedRowsStay
<1>6. NoRows(d) => EndedRowsStay(d)
  BY DEF NoRows, EndedRowsStay
<1> QED
  BY <1>1, <1>2, <1>3, <1>4, <1>5, <1>6

(* A worker writes to its own row, which is live.                          *)
LEMMA EndedByWorker ==
    ASSUME WInv, NEW d, NEW c \in Calls, NEW j, Active(c, j), NEW s, RowPut(j, s)
    PROVE  EndedRowsStay(d)
<1>1. Exists(j) => Live(j)
  BY WorkedIsLive
<1> QED
  BY <1>1 DEF RowPut, SameKeys, EndedRowsStay, Live

LEMMA EndedStep ==
    ASSUME FInv, [Next]_vars, NEW d \in Docs
    PROVE  EndedStays(d) /\ WritesOf(d)
<1>t. TypeOK /\ WInv /\ LiveUnique
  BY DEF FInv, UInv, WInv
<1>p. processed' = processed => (QueuedOnce(d)' <=> QueuedOnce(d))
  BY DEF QueuedOnce
<1>k. ASSUME docs' = docs, processed' = processed, EndedRowsStay(d)
      PROVE  EndedStays(d) /\ WritesOf(d)
  BY <1>k, <1>p DEF EndedStays, WritesOf
<1>d. ASSUME NEW e, NEW s, DocIs(e, s), processed' = processed, RowsKept,
             \/ s \in {"queued", "uploaded", "extracting", "chunked", "analyzing", "structured"}
             \/ \E c \in Calls : call[c].pc = "derive_write" /\
                   \E w \in call[c].derived : w.doc = e /\ w.status = s
      PROVE  EndedStays(d) /\ WritesOf(d)
  <2>1. docs'[d] = docs[d] \/ (e = d /\ docs[d] # "gone" /\ docs'[d] = s)
    BY <1>d DEF DocIs
  <2>2. EndedStays(d)
    BY <1>d, <1>p, <2>1, EndedKept DEF EndedStays
  <2>3. WritesOf(d)
    BY <1>d, <2>1, NoEnd DEF WritesOf
  <2> QED
    BY <2>2, <2>3
<1> DEFINE Goal == EndedStays(d) /\ WritesOf(d)
<1> HIDE DEF Goal
<1>1. ASSUME NEW c \in Calls, NEW e \in Docs, ProcessDelete(c, e) PROVE Goal
  <2>1. /\ RowsCleared(e) /\ docs' = docs /\ processed'[e] = processed[e] + 1
        /\ \A f \in Docs \ {e} : processed'[f] = processed[f]
        /\ processed[d] \in Nat
    BY <1>t, <1>1, AfterProcessDelete DEF TypeOK
  <2>2. CASE d = e
    <3>1. QueuedOnce(d)' => processed[d] = 0
      BY <2>1, <2>2 DEF QueuedOnce
    <3>2. QueuedOnce(d)' => QueuedOnce(d) /\ EndedRowsStay(d)
      BY <3>1, EndedKept DEF QueuedOnce, FInv, BareInv, NewIsBare
    <3> QED
      BY <2>1, <3>2 DEF Goal, EndedStays, WritesOf
  <2>3. CASE d # e
    <3>1. QueuedOnce(d)' => QueuedOnce(d)
      BY <2>1, <2>3 DEF QueuedOnce
    <3> QED
      BY <2>1, <2>3, <3>1, EndedKept DEF Goal, EndedStays, WritesOf
  <2> QED
    BY <2>2, <2>3
<1>2. ASSUME NEW c \in Calls, ProcessEnqueue(c) PROVE Goal
  BY <1>t, <1>k, <1>2, AfterProcessEnqueue, EndedKept DEF Goal
<1>3. ASSUME NEW c \in Calls, ProcessSetQueued(c) PROVE Goal
  BY <1>t, <1>d, <1>3, AfterProcessSetQueued DEF Goal
<1>4. ASSUME NEW e \in Docs, DocumentDelete(e) PROVE Goal
  <2>1. /\ RowsCleared(e) /\ docs'[e] = "gone" /\ \A f \in Docs \ {e} : docs'[f] = docs[f]
        /\ processed' = processed
    BY <1>t, <1>4, AfterDocumentDelete
  <2>2. CASE d = e
    BY <2>1, <2>2, NoEnd DEF Goal, EndedStays, WritesOf
  <2>3. CASE d # e
    BY <1>p, <2>1, <2>3, EndedKept DEF Goal, EndedStays, WritesOf
  <2> QED
    BY <2>2, <2>3
<1>5. ASSUME NEW e \in Docs, ProcessWithoutKey(e) PROVE Goal
  BY <1>t, <1>d, <1>5, AfterWithoutKey DEF Goal
<1>6. ASSUME NEW c \in Calls, StartDrain(c) \/ KickDrain(c) PROVE Goal
  BY <1>t, <1>k, <1>6, AfterRecover, EndedKept DEF Goal
<1>7. ASSUME NEW c \in Calls, Claim(c) PROVE Goal
  BY <1>t, <1>k, <1>7, AfterClaim, EndedKept DEF Goal
<1>8. ASSUME NEW c \in Calls, GatherReturns(c) PROVE Goal
  BY <1>t, <1>k, <1>8, AfterGather, EndedKept DEF Goal
<1>9. ASSUME NEW c \in Calls, DeriveRead(c) PROVE Goal
  BY <1>t, <1>k, <1>9, AfterDeriveRead, EndedKept DEF Goal
<1>10. ASSUME NEW c \in Calls, DeriveWrite(c) PROVE Goal
  <2>1. call[c].pc = "derive_write" /\ RowsKept /\ processed' = processed
    BY <1>t, <1>10, AfterDeriveWrite
  <2>2. PICK w \in call[c].derived : w.doc \in Docs /\ DocIs(w.doc, w.status)
    BY <1>t, <1>10, AfterDeriveWrite
  <2> QED
    BY <1>d, <2>1, <2>2 DEF Goal
<1>11. ASSUME NEW c \in Calls, BudgetSpent(c) \/ AbortedDrainEnds(c) PROVE Goal
  BY <1>t, <1>k, <1>11, AfterDrainEnd, EndedKept DEF Goal
<1>12. ASSUME NEW c \in Calls, NEW j, TaskStart(c, j) PROVE Goal
  <2>1. RowsKept /\ processed' = processed
    BY <1>t, <1>12, AfterTaskStart
  <2>2. \/ docs' = docs
        \/ \E s \in {"extracting", "chunked", "analyzing", "structured"} : DocIs(jobs[j].doc, s)
    BY <1>t, <1>12, AfterTaskStart
  <2>3. CASE docs' = docs
    BY <1>k, <2>1, <2>3, EndedKept DEF Goal
  <2>4. CASE docs' # docs
    BY <1>d, <2>1, <2>2, <2>4 DEF Goal
  <2> QED
    BY <2>3, <2>4
<1>13. ASSUME NEW c \in Calls, NEW j, TaskEnds(c, j) PROVE Goal
  BY <1>t, <1>k, <1>13, AfterTaskEnds, EndedKept DEF Goal
<1>14. ASSUME NEW c \in Calls, NEW j, EnqueueSuccessors(c, j) PROVE Goal
  <2>1. /\ docs' = docs /\ processed' = processed
        /\ RowsKept \/ \E e, s : RowAdded(e, s)
    BY <1>t, <1>14, AfterEnqueueSuccessors
  <2> QED
    BY <1>k, <2>1, EndedKept DEF Goal
<1>15. ASSUME NEW c \in Calls, NEW j, MarkDone(c, j) \/ MarkFailed(c, j) PROVE Goal
  <2>1. Active(c, j) /\ docs' = docs /\ processed' = processed /\ \E s : RowPut(j, s)
    BY <1>t, <1>15, AfterMarkDone, AfterMarkFailed
  <2> QED
    BY <1>t, <1>k, <2>1, EndedByWorker DEF Goal
<1>16. ASSUME NEW c \in Calls, NEW j, MarkFailedRaises(c, j) PROVE Goal
  BY <1>t, <1>16, NeverRaises
<1>17. ASSUME NEW j, (\E c \in Calls : Heartbeat(c, j)) \/ BackoffElapses(j) \/ LeaseLapses(j)
       PROVE  Goal
  BY <1>t, <1>k, <1>17, AfterTime, EndedKept DEF Goal
<1>18. ASSUME NEW p \in Procs, Crash(p) PROVE Goal
  BY <1>t, <1>k, <1>18, AfterCrash, EndedKept DEF Goal
<1>19. ASSUME UNCHANGED vars PROVE Goal
  BY <1>k, <1>19, RowsLeftAlone, EndedKept DEF vars, Goal
<1>20. Goal
  BY <1>1, <1>2, <1>3, <1>4, <1>5, <1>6, <1>7, <1>8, <1>9, <1>10, <1>11, <1>12, <1>13, <1>14,
     <1>15, <1>16, <1>17, <1>18, <1>19 DEF Next, CallStep, TaskStep
<1> QED
  BY <1>20 DEF Goal

(* Only ingest starts the rows of a document.                              *)
LEMMA IngestFirstStep ==
    ASSUME FInv, IngestFirst, [Next]_vars
    PROVE  IngestFirst'
<1>t. TypeOK /\ WInv /\ LiveUnique
  BY DEF FInv, UInv, WInv
<1>k. ASSUME SameKeys, Ids' = Ids PROVE IngestFirst'
  BY <1>k DEF IngestFirst, SameDoc, SameKeys
<1>a. ASSUME NEW d, NEW s, RowAdded(d, s),
             s = "ingest" \/ \E k \in Ids : jobs[k].doc = d /\ jobs[k].stage = "ingest"
      PROVE  IngestFirst'
  <2>1. CASE Ids' = Ids
    BY <1>a, <1>k, <2>1 DEF RowAdded
  <2>2. CASE Ids' # Ids
    <3>1. PICK n : /\ Ids' = Ids \cup {n}
                   /\ jobs'[n].doc = d /\ jobs'[n].stage = s
      BY <1>a, <2>2 DEF RowAdded
    <3>2. \A j \in Ids : \E k \in Ids' : jobs'[j].doc = jobs'[k].doc /\ jobs'[k].stage = "ingest"
      BY <1>a DEF RowAdded, SameKeys, IngestFirst, SameDoc
    <3>3. \E k \in Ids' : jobs'[n].doc = jobs'[k].doc /\ jobs'[k].stage = "ingest"
      BY <1>a, <3>1 DEF RowAdded, SameKeys
    <3> QED
      BY <3>1, <3>2, <3>3 DEF IngestFirst, SameDoc
  <2> QED
    BY <2>1, <2>2
<1>r. RowsKept => IngestFirst'
  BY <1>k DEF RowsKept
<1>1. ASSUME NEW c \in Calls, NEW d \in Docs, ProcessDelete(c, d) PROVE IngestFirst'
  BY <1>t, <1>k, <1>1, AfterProcessDelete DEF RowsCleared
<1>2. ASSUME NEW c \in Calls, ProcessEnqueue(c) PROVE IngestFirst'
  BY <1>t, <1>a, <1>r, <1>2, AfterProcessEnqueue
<1>3. ASSUME NEW d \in Docs, DocumentDelete(d) PROVE IngestFirst'
  BY <1>t, <1>k, <1>3, AfterDocumentDelete DEF RowsCleared
<1>4. ASSUME NEW c \in Calls, StartDrain(c) \/ KickDrain(c) PROVE IngestFirst'
  BY <1>t, <1>k, <1>4, AfterRecover DEF RowsRecovered
<1>5. ASSUME NEW c \in Calls, Claim(c) PROVE IngestFirst'
  BY <1>t, <1>k, <1>5, AfterClaim DEF RowsClaimed
<1>6. ASSUME NEW c \in Calls, \/ ProcessSetQueued(c) \/ GatherReturns(c) \/ DeriveRead(c)
                              \/ DeriveWrite(c) \/ BudgetSpent(c) \/ AbortedDrainEnds(c)
      PROVE  IngestFirst'
  BY <1>t, <1>r, <1>6, AfterProcessSetQueued, AfterGather, AfterDeriveRead, AfterDeriveWrite,
     AfterDrainEnd
<1>7. ASSUME NEW c \in Calls, NEW j, TaskStart(c, j) \/ TaskEnds(c, j) PROVE IngestFirst'
  BY <1>t, <1>r, <1>7, AfterTaskStart, AfterTaskEnds
<1>8. ASSUME NEW c \in Calls, NEW j, EnqueueSuccessors(c, j) PROVE IngestFirst'
  <2>1. /\ Active(c, j)
        /\ RowsKept \/ \E s : RowAdded(jobs[j].doc, s)
    BY <1>t, <1>8, AfterEnqueueSuccessors
  <2>2. j \in Ids
    BY <1>t, <2>1, ActiveIds
  <2>3. \E k \in Ids : jobs[k].doc = jobs[j].doc /\ jobs[k].stage = "ingest"
    BY <2>2 DEF IngestFirst, SameDoc
  <2> QED
    BY <1>a, <1>r, <2>1, <2>3
<1>9. ASSUME NEW c \in Calls, NEW j, MarkDone(c, j) \/ MarkFailed(c, j) PROVE IngestFirst'
  BY <1>t, <1>k, <1>9, AfterMarkDone, AfterMarkFailed DEF RowPut
<1>10. ASSUME NEW c \in Calls, NEW j, MarkFailedRaises(c, j) PROVE IngestFirst'
  BY <1>t, <1>10, NeverRaises
<1>11. ASSUME NEW j, (\E c \in Calls : Heartbeat(c, j)) \/ BackoffElapses(j) \/ LeaseLapses(j)
       PROVE  IngestFirst'
  BY <1>t, <1>r, <1>11, AfterTime
<1>12. ASSUME NEW p \in Procs, Crash(p) PROVE IngestFirst'
  BY <1>t, <1>r, <1>12, AfterCrash
<1>13. ASSUME NEW d \in Docs, ProcessWithoutKey(d) PROVE IngestFirst'
  BY <1>t, <1>r, <1>13, AfterWithoutKey
<1>14. CASE UNCHANGED vars
  BY <1>k, <1>14, RowsLeftAlone DEF vars
<1> QED
  BY <1>1, <1>2, <1>3, <1>4, <1>5, <1>6, <1>7, <1>8, <1>9, <1>10, <1>11, <1>12, <1>13, <1>14
     DEF Next, CallStep, TaskStep

EInv == FInv /\ IInv /\ IngestFirst /\ StatusDeserved /\ WriteDeserved

(* The invariant of the final statuses is inductive.                       *)
LEMMA EInvInductive ==
    ASSUME SlowStages = {}
    PROVE  (Init => EInv) /\ (EInv /\ [Next]_vars => EInv')
<1>1. Init => IngestFirst /\ StatusDeserved /\ WriteDeserved
  <2> SUFFICES ASSUME Init PROVE IngestFirst /\ StatusDeserved /\ WriteDeserved
    OBVIOUS
  <2>1. IngestFirst
    BY DEF Init, IngestFirst, Ids
  <2>2. \A d \in Docs : Deserved(d, docs[d])
    BY NoEnd, RunningDeserved DEF Init
  <2>3. WriteDeserved
    BY DEF Init, WriteDeserved, IdleCall
  <2> QED
    BY <2>1, <2>2, <2>3 DEF StatusDeserved
<1>2. ASSUME EInv, [Next]_vars PROVE IngestFirst' /\ StatusDeserved' /\ WriteDeserved'
  <2>1. FInv /\ IngestFirst /\ StatusDeserved /\ WriteDeserved /\ NoGap /\ TypeOK
    BY <1>2 DEF EInv, IInv
  <2>2. \A d \in Docs : EndedStays(d) /\ WritesOf(d)
    BY <1>2, <2>1, EndedStep
  <2>3. ASSUME NEW d \in Docs, QueuedOnce(d)', docs'[d] # "gone"
        PROVE  /\ QueuedOnce(d) /\ docs[d] # "gone"
               /\ \A s : Deserved(d, s) => Deserved(d, s)'
    BY <2>2, <2>3, DeservedKept DEF EndedStays
  <2>4. ASSUME NEW d \in Docs, QueuedOnce(d)' PROVE Deserved(d, docs[d])'
    <3>1. CASE docs'[d] # "completed" /\ docs'[d] \notin DeadStatuses
      BY <3>1 DEF Deserved
    <3>2. CASE docs'[d] = "completed" \/ docs'[d] \in DeadStatuses
      <4>1. docs'[d] # "gone"
        BY <3>2, NoEnd
      <4>2. QueuedOnce(d) /\ docs[d] # "gone" /\ \A s : Deserved(d, s) => Deserved(d, s)'
        BY <2>3, <2>4, <4>1
      <4>3. Deserved(d, docs[d])
        BY <2>1, <4>2 DEF StatusDeserved
      <4>4. PICK s : s = docs'[d]
        OBVIOUS
      <4>5. Deserved(d, s)
        <5>1. CASE docs'[d] = docs[d]
          BY <4>3, <4>4, <5>1
        <5>2. CASE docs'[d] # docs[d]
          <6>1. PICK c \in Calls : /\ call[c].pc = "derive_write"
                                   /\ \E w \in call[c].derived : w.doc = d /\ docs'[d] = w.status
            BY <2>2, <3>2, <5>2 DEF WritesOf
          <6> QED
            BY <2>1, <4>2, <4>4, <6>1 DEF WriteDeserved
        <5> QED
          BY <5>1, <5>2
      <4>6. Deserved(d, s)'
        BY <4>2, <4>5
      <4> QED
        BY <4>4, <4>6 DEF Deserved
    <3> QED
      BY <3>1, <3>2
  <2>5. ASSUME NEW c \in Calls, call'[c].pc = "derive_write", NEW w \in call'[c].derived,
               QueuedOnce(w.doc)', docs'[w.doc] # "gone"
        PROVE  Deserved(w.doc, w.status)'
    <3>1. \/ call'[c] = call[c] /\ w.doc \in Docs
          \/ DeriveRead(c)
      <4>1. call[c].derived \subseteq [doc : Docs, status : DocStatus]
        BY <2>1 DEF TypeOK
      <4> QED
        BY <1>2, <2>1, <2>5, <4>1, WritersKept DEF FInv
    <3>2. CASE call'[c] = call[c] /\ w.doc \in Docs
      <4>1. /\ QueuedOnce(w.doc) /\ docs[w.doc] # "gone"
            /\ \A s : Deserved(w.doc, s) => Deserved(w.doc, s)'
        BY <2>3, <2>5, <3>2
      <4>2. Deserved(w.doc, w.status)
        BY <2>1, <2>5, <3>2, <4>1 DEF WriteDeserved
      <4> QED
        BY <4>1, <4>2
    <3>3. CASE DeriveRead(c)
      <4>1. PICK d \in Docs : \E s \in DerivedStatuses(d) :
              call'[c].derived = {[doc |-> d, status |-> s]}
        BY <2>1, <2>5, <3>3, AfterDeriveRead DEF CallIs
      <4>2. PICK s \in DerivedStatuses(d) : w.doc = d /\ w.status = s
        BY <2>5, <4>1
      <4>3. QueuedOnce(d) /\ docs[d] # "gone" /\ (Deserved(d, s) => Deserved(d, s)')
        BY <2>3, <2>5, <4>2
      <4>4. Deserved(d, s)
        BY <2>1, <4>3, ReadIsDeserved
      <4> QED
        BY <4>2, <4>3, <4>4
    <3> QED
      BY <3>1, <3>2, <3>3
  <2> QED
    BY <1>2, <2>1, <2>4, <2>5, IngestFirstStep DEF StatusDeserved, WriteDeserved
<1> QED
  BY <1>1, <1>2, FInvInductive, IInvInductive DEF EInv

(* Whatever dies and however many processes derive it late, a document is  *)
(* "completed" only when every stage of it is done, and failed only when a *)
(* stage of it was buried (jobs.py:217-257).                               *)
THEOREM FinalStatusIsEarnedCorrect ==
    ASSUME SlowStages = {}
    PROVE  Spec => []FinalStatusIsEarned
<1>1. EInv => FinalStatusIsEarned
  <2> SUFFICES ASSUME EInv, NEW d \in Docs, QueuedOnce(d)
               PROVE  /\ docs[d] = "completed" =>
                            \A s \in Stages : \E j \in RowsOf(d) :
                               jobs[j].stage = s /\ jobs[j].status = "done"
                      /\ docs[d] \in DeadStatuses =>
                            \E j \in RowsOf(d) : /\ jobs[j].status = "dead"
                                                 /\ StageDeadStatus[jobs[j].stage] = docs[d]
    BY DEF FinalStatusIsEarned, DeadStatuses
  <2>1. Deserved(d, docs[d])
    BY DEF EInv, StatusDeserved
  <2>2. \A j \in Ids : jobs[j].doc = d /\ jobs[j].status \in {"done", "dead"} => j \in RowsOf(d)
    BY DEF RowsOf, Exists
  <2> QED
    BY <2>1, <2>2 DEF Deserved
<1>2. (Init => EInv) /\ (EInv /\ [Next]_vars => EInv')
  BY EInvInductive
<1> QED
  BY <1>1, <1>2, PTL DEF Spec

=============================================================================
