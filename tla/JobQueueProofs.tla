--------------------------- MODULE JobQueueProofs ---------------------------
(***************************************************************************)
(* Proofs about the job queue, for every number of documents, processes,   *)
(* calls, attempts and crashes, and every choice of slow stages.           *)
(***************************************************************************)
EXTENDS JobQueueProperties, TLAPS

TaskRecord == [pc : TaskPc, attempts : Nat]

CallRecord == [pc : CallPc, todo : SUBSET Docs,
               derived : SUBSET [doc : Docs, status : DocStatus]]

-----------------------------------------------------------------------------
(* Lemmas about the table of jobs: each operation that writes it returns a *)
(* table with the same rows, or with one more at the end.                  *)

(* A table is a function from 1..Len to rows.                              *)
LEMMA TableType ==
    ASSUME jobs \in Seq(Row)
    PROVE  /\ Len(jobs) \in Nat
           /\ Ids = 1..Len(jobs)
           /\ \A j \in Ids : jobs[j] \in Row
BY DEF Ids

(* A function on the ids whose values are rows is again a table.           *)
LEMMA TableOfFunction ==
    ASSUME jobs \in Seq(Row), NEW f, f \in [Ids -> Row]
    PROVE  f \in Seq(Row)
BY DEF Ids

(* UPDATE of one row.                                                      *)
LEMMA TableUpdate ==
    ASSUME jobs \in Seq(Row), NEW j \in Ids, NEW r \in Row
    PROVE  /\ [jobs EXCEPT ![j] = r] \in Seq(Row)
           /\ DOMAIN [jobs EXCEPT ![j] = r] = Ids
           /\ \A k \in Ids : [jobs EXCEPT ![j] = r][k] = IF k = j THEN r ELSE jobs[k]
BY DEF Ids

(* A statement that writes one row, or finds none, leaves a table.         *)
LEMMA RowWritten ==
    ASSUME jobs \in Seq(Row), NEW j \in Ids, NEW r \in Row,
           jobs' = jobs \/ jobs' = [jobs EXCEPT ![j] = r]
    PROVE  jobs' \in Seq(Row) /\ Ids' = Ids
<1>1. CASE jobs' = jobs
  BY <1>1 DEF Ids
<1>2. CASE jobs' = [jobs EXCEPT ![j] = r]
  BY <1>2, TableUpdate DEF Ids
<1> QED
  BY <1>1, <1>2

(* INSERT of one row.                                                      *)
LEMMA TableAppend ==
    ASSUME jobs \in Seq(Row), NEW r \in Row
    PROVE  /\ Append(jobs, r) \in Seq(Row)
           /\ DOMAIN Append(jobs, r) = Ids \cup {Len(jobs) + 1}
           /\ \A k \in Ids : Append(jobs, r)[k] = jobs[k]
           /\ Append(jobs, r)[Len(jobs) + 1] = r
BY DEF Ids

(* enqueue_job() leaves every row alone and adds at most a pending one.    *)
LEMMA InsertedTable ==
    ASSUME jobs \in Seq(Row), NEW d \in Docs, NEW s \in Stages
    PROVE  LET new == Inserted(d, s)
           IN  /\ new \in Seq(Row)
               /\ Ids \subseteq DOMAIN new
               /\ \A k \in Ids : new[k] = jobs[k]
               /\ \A k \in DOMAIN new \ Ids :
                     new[k] = [doc |-> d, stage |-> s, status |-> "pending",
                               attempts |-> 0, lease |-> "none", due |-> TRUE]
               /\ \E k \in DOMAIN new : /\ new[k].doc = d /\ new[k].stage = s
                                        /\ new[k].status \in {"pending", "claimed"}
<1> DEFINE row == [doc |-> d, stage |-> s, status |-> "pending",
                   attempts |-> 0, lease |-> "none", due |-> TRUE]
<1>1. row \in Row
  BY DEF Row, RowStatus
<1>2. CASE LiveRow(d, s)
  BY <1>2 DEF Inserted, LiveRow, Indexed, Ids
<1>3. CASE ~LiveRow(d, s)
  <2>1. Inserted(d, s) = Append(jobs, row)
    BY <1>3 DEF Inserted
  <2>2. row.doc = d /\ row.stage = s /\ row.status = "pending"
    OBVIOUS
  <2> HIDE DEF row
  <2>3. /\ Append(jobs, row) \in Seq(Row)
        /\ DOMAIN Append(jobs, row) = Ids \cup {Len(jobs) + 1}
        /\ \A k \in Ids : Append(jobs, row)[k] = jobs[k]
        /\ Append(jobs, row)[Len(jobs) + 1] = row
    BY <1>1, TableAppend
  <2>4. /\ Append(jobs, row) \in Seq(Row)
        /\ Ids \subseteq DOMAIN Append(jobs, row)
        /\ \A k \in Ids : Append(jobs, row)[k] = jobs[k]
        /\ \A k \in DOMAIN Append(jobs, row) \ Ids : Append(jobs, row)[k] = row
        /\ \E k \in DOMAIN Append(jobs, row) :
              /\ Append(jobs, row)[k].doc = d /\ Append(jobs, row)[k].stage = s
              /\ Append(jobs, row)[k].status \in {"pending", "claimed"}
    BY <2>2, <2>3, Zenon
  <2> QED
    BY <2>1, <2>4 DEF row
<1> QED
  BY <1>2, <1>3

(* Deleting a document's rows leaves a tombstone for each.                 *)
LEMMA RowsDeletedTable ==
    ASSUME jobs \in Seq(Row), NEW d \in Docs
    PROVE  LET new == RowsDeleted(d)
           IN  /\ new \in Seq(Row)
               /\ DOMAIN new = Ids
               /\ \A k \in Ids : /\ jobs[k].doc # d => new[k] = jobs[k]
                                 /\ jobs[k].doc = d => new[k].status = "deleted"
                                 /\ new[k].doc = jobs[k].doc /\ new[k].stage = jobs[k].stage
<1> DEFINE new == RowsDeleted(d)
<1>1. new \in [Ids -> Row]
  <2>1. \A r \in Row :
          [r EXCEPT !.status = "deleted", !.attempts = 0, !.lease = "none", !.due = TRUE] \in Row
    BY DEF Row, RowStatus
  <2>2. \A k \in Ids : jobs[k] \in Row
    BY TableType
  <2> QED
    BY <2>1, <2>2 DEF RowsDeleted
<1>2. \A k \in Ids : /\ jobs[k].doc # d => new[k] = jobs[k]
                     /\ jobs[k].doc = d => new[k].status = "deleted"
                     /\ new[k].doc = jobs[k].doc /\ new[k].stage = jobs[k].stage
  BY TableType DEF RowsDeleted, Row
<1> QED
  BY <1>1, <1>2, TableOfFunction

(* The rows a drain may claim are rows.                                    *)
LEMMA ClaimableIds == Claimable \subseteq Ids
BY DEF Claimable

-----------------------------------------------------------------------------
(* Lemmas about the calls and their tasks.                                 *)

TasksOK ==
    /\ DOMAIN task = Calls
    /\ \A c \in Calls : /\ DOMAIN task[c] \subseteq Ids
                        /\ task[c] \in [DOMAIN task[c] -> TaskRecord]

(* A step of one task changes the control point of that task only.         *)
LEMMA TaskGotoEffect ==
    ASSUME TasksOK, NEW c \in Calls, NEW j \in DOMAIN task[c], NEW pc \in TaskPc,
           TaskGoto(c, j, pc)
    PROVE  /\ DOMAIN task' = Calls
           /\ \A e \in Calls : /\ DOMAIN task'[e] = DOMAIN task[e]
                               /\ task'[e] \in [DOMAIN task[e] -> TaskRecord]
           /\ \A e \in Calls : \A k \in DOMAIN task[e] :
                 task'[e][k] = IF e = c /\ k = j THEN [pc |-> pc, attempts |-> task[c][j].attempts]
                                                 ELSE task[e][k]
<1>1. /\ DOMAIN task = Calls
      /\ \A e \in Calls : task[e] \in [DOMAIN task[e] -> TaskRecord]
  BY DEF TasksOK
<1>2. task' = [task EXCEPT ![c] = [task[c] EXCEPT ![j] = [task[c][j] EXCEPT !.pc = pc]]]
  BY DEF TaskGoto
<1>3. [task[c][j] EXCEPT !.pc = pc] = [pc |-> pc, attempts |-> task[c][j].attempts]
  BY <1>1 DEF TaskRecord
<1>4. [pc |-> pc, attempts |-> task[c][j].attempts] \in TaskRecord
  BY <1>1 DEF TaskRecord
<1> QED
  BY <1>1, <1>2, <1>3, <1>4

(* An assignment to one call's tasks leaves the other calls' alone.        *)
LEMMA TaskAssignEffect ==
    ASSUME TasksOK, NEW c \in Calls, NEW f, f \in [DOMAIN f -> TaskRecord],
           task' = [task EXCEPT ![c] = f]
    PROVE  /\ DOMAIN task' = Calls
           /\ task'[c] = f
           /\ \A e \in Calls \ {c} : task'[e] = task[e]
           /\ \A e \in Calls : task'[e] \in [DOMAIN task'[e] -> TaskRecord]
BY DEF TasksOK

(* No task is a function with an empty domain.                             *)
LEMMA NoTaskType == DOMAIN NoTask = {} /\ NoTask \in [DOMAIN NoTask -> TaskRecord]
BY DEF NoTask

(* A jump of one call changes the control point of that call only.         *)
LEMMA GotoType ==
    ASSUME call \in [Calls -> CallRecord], NEW c \in Calls, NEW pc \in CallPc, Goto(c, pc)
    PROVE  call' \in [Calls -> CallRecord]
BY DEF Goto, CallRecord

-----------------------------------------------------------------------------
(* Type correctness.                                                       *)

(* The parts of TypeOK under the names the lemmas use.                     *)
LEMMA TypeParts ==
    TypeOK <=> /\ jobs \in Seq(Row)
               /\ docs \in [Docs -> DocStatus]
               /\ call \in [Calls -> CallRecord]
               /\ TasksOK
               /\ processed \in [Docs -> Nat]
               /\ crashes \in Nat
BY DEF TypeOK, TasksOK, CallRecord, TaskRecord

(* A status set on a document keeps the statuses a function to statuses.   *)
LEMMA StatusSetType ==
    ASSUME docs \in [Docs -> DocStatus], NEW d, NEW s \in DocStatus
    PROVE  StatusSet(d, s) \in [Docs -> DocStatus]
BY DEF StatusSet

(* _derive_status_from_jobs() returns statuses.                            *)
LEMMA DerivedStatusType ==
    ASSUME jobs \in Seq(Row), NEW d, NEW s \in DerivedStatuses(d)
    PROVE  s \in DocStatus
<1>1. \A j \in Ids : jobs[j].stage \in Stages
  BY TableType DEF Row
<1>2. RowsOf(d) \subseteq Ids
  BY DEF RowsOf
<1>3. \A t \in Stages : StageDeadStatus[t] \in DocStatus /\ StageRunningStatus[t] \in DocStatus
  BY DEF Stages, StageDeadStatus, StageRunningStatus, DocStatus
<1>4. "completed" \in DocStatus /\ "generate" \in Stages
  BY DEF DocStatus, Stages
<1> QED
  BY <1>1, <1>2, <1>3, <1>4 DEF DerivedStatuses

(* A step that only moves one task keeps the types.                        *)
LEMMA TaskGotoType ==
    ASSUME TasksOK, Ids' = Ids, NEW c \in Calls, NEW j \in DOMAIN task[c], NEW pc \in TaskPc,
           TaskGoto(c, j, pc)
    PROVE  TasksOK'
BY TaskGotoEffect DEF TasksOK

(* The initial state has the right types.                                  *)
LEMMA TypeInit == Init => TypeOK
<1> SUFFICES ASSUME Init PROVE TypeOK
  OBVIOUS
<1>1. jobs \in Seq(Row)
  BY DEF Init
<1>2. docs \in [Docs -> DocStatus]
  BY DEF Init, DocStatus
<1>3. call \in [Calls -> CallRecord]
  BY DEF Init, IdleCall, CallRecord, CallPc
<1>4. TasksOK
  BY NoTaskType DEF Init, TasksOK
<1> QED
  BY <1>1, <1>2, <1>3, <1>4, TypeParts DEF Init

(* Tasks that nothing touches keep their types when the table only grows.  *)
LEMMA TasksKept ==
    ASSUME TasksOK, task' = task, Ids \subseteq Ids'
    PROVE  TasksOK'
BY DEF TasksOK

(* The parts of TypeOK in the next state.                                  *)
LEMMA TypePartsNext ==
    ASSUME jobs' \in Seq(Row), docs' \in [Docs -> DocStatus],
           call' \in [Calls -> CallRecord], TasksOK', processed' \in [Docs -> Nat], crashes' \in Nat
    PROVE  TypeOK'
BY DEF TypeOK, TasksOK, CallRecord, TaskRecord

(* The steps of the handlers keep the types.                               *)
LEMMA TypeHandlers ==
    ASSUME TypeOK, NEW c \in Calls,
           (\E d \in Docs : ProcessDelete(c, d)) \/ ProcessEnqueue(c) \/ ProcessSetQueued(c)
    PROVE  TypeOK'
<1>t. /\ jobs \in Seq(Row) /\ docs \in [Docs -> DocStatus] /\ call \in [Calls -> CallRecord]
      /\ TasksOK /\ processed \in [Docs -> Nat] /\ crashes \in Nat
  BY TypeParts
<1>1. ASSUME NEW d \in Docs, ProcessDelete(c, d) PROVE TypeOK'
  <2>1. jobs' \in Seq(Row) /\ Ids' = Ids
    <3>1. jobs' = RowsDeleted(d)
      BY <1>1 DEF ProcessDelete
    <3> QED
      BY <1>t, <3>1, RowsDeletedTable DEF Ids
  <2>2. call' \in [Calls -> CallRecord]
    <3>1. call' = [call EXCEPT ![c] = [call[c] EXCEPT !.pc = "enqueue_ingest", !.todo = {d}]]
      BY <1>1 DEF ProcessDelete
    <3>2. "enqueue_ingest" \in CallPc /\ {d} \subseteq Docs
      BY DEF CallPc
    <3>3. [call[c] EXCEPT !.pc = "enqueue_ingest", !.todo = {d}] \in CallRecord
      BY <1>t, <3>2 DEF CallRecord
    <3> QED
      BY <1>t, <3>1, <3>3
  <2>3. processed' \in [Docs -> Nat]
    <3>1. processed' = [processed EXCEPT ![d] = processed[d] + 1]
      BY <1>1 DEF ProcessDelete
    <3> QED
      BY <1>t, <3>1
  <2>4. docs' = docs /\ task' = task /\ crashes' = crashes
    BY <1>1 DEF ProcessDelete
  <2> QED
    BY <1>t, <2>1, <2>2, <2>3, <2>4, TasksKept, TypePartsNext
<1>2. CASE ProcessEnqueue(c)
  <2>1. PICK e \in call[c].todo :
          \/ /\ docs[e] = "gone" /\ call' = [call EXCEPT ![c] = IdleCall] /\ jobs' = jobs
          \/ jobs' = Inserted(e, "ingest") /\ Goto(c, "set_queued")
    BY <1>2 DEF ProcessEnqueue
  <2>2. e \in Docs /\ "ingest" \in Stages /\ "set_queued" \in CallPc
    BY <1>t, <2>1 DEF CallRecord, Stages, CallPc
  <2>3. jobs' \in Seq(Row) /\ Ids \subseteq Ids'
    BY <1>t, <2>1, <2>2, InsertedTable DEF Ids
  <2>4. call' \in [Calls -> CallRecord]
    <3>1. IdleCall \in CallRecord
      BY DEF IdleCall, CallRecord, CallPc
    <3> QED
      BY <1>t, <2>1, <2>2, <3>1, GotoType
  <2> QED
    BY <1>2, <1>t, <2>3, <2>4, TasksKept, TypePartsNext DEF ProcessEnqueue
<1>3. CASE ProcessSetQueued(c)
  <2>1. docs' \in [Docs -> DocStatus]
    BY <1>3, <1>t, StatusSetType DEF ProcessSetQueued, DocStatus
  <2>2. call' \in [Calls -> CallRecord]
    <3>1. call' = [call EXCEPT ![c] = [call[c] EXCEPT !.pc = "kicked", !.todo = {}]]
      BY <1>3 DEF ProcessSetQueued
    <3>2. "kicked" \in CallPc
      BY DEF CallPc
    <3>3. [call[c] EXCEPT !.pc = "kicked", !.todo = {}] \in CallRecord
      BY <1>t, <3>2 DEF CallRecord
    <3> QED
      BY <1>t, <3>1, <3>3
  <2> QED
    BY <1>3, <1>t, <2>1, <2>2, TasksKept, TypePartsNext DEF ProcessSetQueued, Ids
<1> QED
  BY <1>1, <1>2, <1>3

(* Deleting a document keeps the types.                                    *)
LEMMA TypeDelete ==
    ASSUME TypeOK, NEW d \in Docs, DocumentDelete(d)
    PROVE  TypeOK'
<1>t. /\ jobs \in Seq(Row) /\ docs \in [Docs -> DocStatus] /\ call \in [Calls -> CallRecord]
      /\ TasksOK /\ processed \in [Docs -> Nat] /\ crashes \in Nat
  BY TypeParts
<1>1. jobs' \in Seq(Row) /\ Ids' = Ids
  BY <1>t, RowsDeletedTable DEF DocumentDelete, Ids
<1>2. docs' \in [Docs -> DocStatus]
  BY <1>t DEF DocumentDelete, DocStatus
<1> QED
  BY <1>t, <1>1, <1>2, TasksKept, TypePartsNext DEF DocumentDelete

(* So does the handler that finds no LLM key.                              *)
LEMMA TypeWithoutKey ==
    ASSUME TypeOK, NEW d \in Docs, ProcessWithoutKey(d)
    PROVE  TypeOK'
<1>t. /\ jobs \in Seq(Row) /\ docs \in [Docs -> DocStatus] /\ call \in [Calls -> CallRecord]
      /\ TasksOK /\ processed \in [Docs -> Nat] /\ crashes \in Nat
  BY TypeParts
<1>1. docs' \in [Docs -> DocStatus]
  BY <1>t DEF ProcessWithoutKey, DocStatus
<1> QED
  BY <1>t, <1>1, TasksKept, TypePartsNext DEF ProcessWithoutKey, Ids

(* The steps of drain_once() keep the types.                               *)
LEMMA TypeDrain ==
    ASSUME TypeOK, NEW c \in Calls,
           \/ StartDrain(c) \/ KickDrain(c) \/ Claim(c) \/ GatherReturns(c)
           \/ DeriveRead(c) \/ DeriveWrite(c) \/ BudgetSpent(c) \/ AbortedDrainEnds(c)
    PROVE  TypeOK'
<1>t. /\ jobs \in Seq(Row) /\ docs \in [Docs -> DocStatus] /\ call \in [Calls -> CallRecord]
      /\ TasksOK /\ processed \in [Docs -> Nat] /\ crashes \in Nat
  BY TypeParts
<1>1. CASE StartDrain(c) \/ KickDrain(c)
  <2>0. RecoverStuckJobs(c)
    BY <1>1 DEF StartDrain, KickDrain
  <2>1. jobs' \in [Ids -> Row]
    <3>1. \A r \in Row : [r EXCEPT !.status = "pending", !.lease = "none"] \in Row
      BY DEF Row, RowStatus
    <3>2. \A k \in Ids : jobs[k] \in Row
      BY <1>t, TableType
    <3> QED
      BY <2>0, <3>1, <3>2 DEF RecoverStuckJobs
  <2>2. jobs' \in Seq(Row) /\ Ids' = Ids
    BY <2>1, <1>t, TableOfFunction DEF Ids
  <2>3. call' \in [Calls -> CallRecord]
    BY <2>0, <1>t, GotoType DEF RecoverStuckJobs, CallPc
  <2> QED
    BY <2>0, <1>t, <2>2, <2>3, TasksKept, TypePartsNext DEF RecoverStuckJobs
<1>2. CASE Claim(c)
  <2>0. ASSUME NEW j \in Ids
        PROVE  [jobs[j] EXCEPT !.status = "claimed", !.lease = "held", !.attempts = @ + 1] \in Row
    <3>1. jobs[j] \in Row
      BY <1>t, TableType
    <3>2. jobs[j].attempts + 1 \in Nat
      BY <3>1 DEF Row
    <3>3. \A r \in Row, n \in Nat :
             [r EXCEPT !.status = "claimed", !.lease = "held", !.attempts = n] \in Row
      BY DEF Row, RowStatus
    <3> QED
      BY <3>1, <3>2, <3>3
  <2>1. jobs' \in [Ids -> Row]
    BY <1>2, <1>t, <2>0, TableType DEF Claim
  <2>2. jobs' \in Seq(Row) /\ Ids' = Ids
    BY <2>1, <1>t, TableOfFunction DEF Ids
  <2>3. call' \in [Calls -> CallRecord]
    BY <1>2, <1>t, GotoType DEF Claim, CallPc
  <2>4. TasksOK'
    <3> DEFINE f == [j \in Claimable |-> [pc |-> "start", attempts |-> jobs[j].attempts + 1]]
    <3>1. f \in [DOMAIN f -> TaskRecord] /\ DOMAIN f \subseteq Ids
      BY <1>t, ClaimableIds, TableType DEF TaskRecord, TaskPc, Row
    <3>2. task' = [task EXCEPT ![c] = f]
      BY <1>2 DEF Claim
    <3> HIDE DEF f
    <3> QED
      BY <1>t, <2>2, <3>1, <3>2, TaskAssignEffect DEF TasksOK
  <2> QED
    BY <1>2, <1>t, <2>2, <2>3, <2>4, TypePartsNext DEF Claim
<1>3. CASE GatherReturns(c)
  <2>1. {jobs[j].doc : j \in DOMAIN task[c]} \subseteq Docs
    BY <1>t, TableType DEF TasksOK, Row
  <2>2. call' \in [Calls -> CallRecord]
    <3> DEFINE touched == {jobs[j].doc : j \in DOMAIN task[c]}
    <3>1. call' = [call EXCEPT ![c] = [call[c] EXCEPT !.pc = "derive", !.todo = touched]]
      BY <1>3 DEF GatherReturns
    <3>2. "derive" \in CallPc
      BY DEF CallPc
    <3> HIDE DEF touched
    <3>3. [call[c] EXCEPT !.pc = "derive", !.todo = touched] \in CallRecord
      BY <1>t, <2>1, <3>2 DEF CallRecord, touched
    <3> QED
      BY <1>t, <3>1, <3>3
  <2>3. TasksOK'
    BY <1>3, <1>t, NoTaskType, TaskAssignEffect DEF GatherReturns, TasksOK, Ids
  <2> QED
    BY <1>3, <1>t, <2>2, <2>3, TypePartsNext DEF GatherReturns
<1>4. CASE DeriveRead(c)
  <2>1. call' \in [Calls -> CallRecord]
    <3>1. PICK d \in call[c].todo :
            \/ call' = [call EXCEPT ![c].todo = @ \ {d}]
            \/ \E s \in DerivedStatuses(d) :
                  call' = [call EXCEPT ![c].pc = "derive_write",
                                       ![c].derived = {[doc |-> d, status |-> s]}]
      BY <1>4 DEF DeriveRead
    <3>2. d \in Docs /\ DerivedStatuses(d) \subseteq DocStatus
      BY <1>t, <3>1, DerivedStatusType DEF CallRecord
    <3>3. CASE call' = [call EXCEPT ![c].todo = @ \ {d}]
      BY <1>t, <3>3 DEF CallRecord
    <3>4. ASSUME NEW s \in DerivedStatuses(d),
                 call' = [call EXCEPT ![c].pc = "derive_write",
                                      ![c].derived = {[doc |-> d, status |-> s]}]
          PROVE  call' \in [Calls -> CallRecord]
      <4>1. {[doc |-> d, status |-> s]} \in SUBSET [doc : Docs, status : DocStatus]
        BY <3>2
      <4>2. "derive_write" \in CallPc
        BY DEF CallPc
      <4> QED
        BY <1>t, <3>4, <4>1, <4>2 DEF CallRecord
    <3> QED
      BY <3>1, <3>3, <3>4
  <2> QED
    BY <1>4, <1>t, <2>1, TasksKept, TypePartsNext DEF DeriveRead, Ids
<1>5. CASE DeriveWrite(c)
  <2>1. PICK w \in call[c].derived :
          /\ docs' = StatusSet(w.doc, w.status)
          /\ call' = [call EXCEPT ![c].pc = "derive", ![c].todo = @ \ {w.doc},
                                  ![c].derived = {}]
    BY <1>5 DEF DeriveWrite
  <2>2. w.status \in DocStatus
    BY <1>t, <2>1 DEF CallRecord
  <2>3. docs' \in [Docs -> DocStatus]
    BY <1>t, <2>1, <2>2, StatusSetType
  <2>4. call' \in [Calls -> CallRecord]
    <3> DEFINE r == [call[c] EXCEPT !.pc = "derive", !.todo = call[c].todo \ {w.doc},
                                    !.derived = {}]
    <3>1. call' = [call EXCEPT ![c] = r]
      BY <2>1
    <3>2. "derive" \in CallPc
      BY DEF CallPc
    <3>3. r \in CallRecord
      BY <1>t, <3>2 DEF CallRecord
    <3> QED
      BY <1>t, <3>1, <3>3
  <2> QED
    BY <1>5, <1>t, <2>3, <2>4, TasksKept, TypePartsNext DEF DeriveWrite, Ids
<1>6. CASE BudgetSpent(c)
  <2>1. call' \in [Calls -> CallRecord]
    BY <1>6, <1>t DEF BudgetSpent, CallRecord, CallPc
  <2> QED
    BY <1>6, <1>t, <2>1, TasksKept, TypePartsNext DEF BudgetSpent, Ids
<1>7. CASE AbortedDrainEnds(c)
  <2>1. call' \in [Calls -> CallRecord]
    BY <1>7, <1>t, GotoType DEF AbortedDrainEnds, CallPc
  <2>2. TasksOK'
    BY <1>7, <1>t, NoTaskType, TaskAssignEffect DEF AbortedDrainEnds, TasksOK, Ids
  <2> QED
    BY <1>7, <1>t, <2>1, <2>2, TypePartsNext DEF AbortedDrainEnds
<1> QED
  BY <1>1, <1>2, <1>3, <1>4, <1>5, <1>6, <1>7

(* The steps of _run_one() keep the types.                                 *)
LEMMA TypeTasks ==
    ASSUME TypeOK, NEW c \in Calls, NEW j, TaskStep(c, j) \/ Heartbeat(c, j)
    PROVE  TypeOK'
<1>t. /\ jobs \in Seq(Row) /\ docs \in [Docs -> DocStatus] /\ call \in [Calls -> CallRecord]
      /\ TasksOK /\ processed \in [Docs -> Nat] /\ crashes \in Nat
  BY TypeParts
<1>j. j \in DOMAIN task[c] /\ j \in Ids /\ jobs[j] \in Row
  <2>1. Active(c, j)
    BY DEF TaskStep, TaskStart, TaskEnds, EnqueueSuccessors, MarkDone, MarkFailed,
           MarkFailedRaises, Heartbeat
  <2> QED
    BY <1>t, <2>1, TableType DEF Active, TasksOK
<1>p. TaskPc = {"start", "running", "enqueue", "mark_done", "mark_failed", "finished"}
  BY DEF TaskPc
<1>1. CASE TaskStart(c, j)
  <2>1. \E pc \in TaskPc : TaskGoto(c, j, pc)
    BY <1>1, <1>p DEF TaskStart
  <2>2. docs' \in [Docs -> DocStatus]
    <3>1. \/ docs' = docs
          \/ \E d, s : s \in DocStatus /\ docs' = StatusSet(d, s)
      BY <1>1 DEF TaskStart, DocStatus
    <3> QED
      BY <1>t, <3>1, StatusSetType
  <2>3. Ids' = Ids
    BY <1>1 DEF TaskStart, Ids
  <2> QED
    BY <1>1, <1>t, <1>j, <2>1, <2>2, <2>3, TaskGotoType, TypePartsNext DEF TaskStart
<1>2. CASE TaskEnds(c, j)
  <2>1. \E pc \in TaskPc : TaskGoto(c, j, pc)
    BY <1>2, <1>p DEF TaskEnds
  <2>2. Ids' = Ids
    BY <1>2 DEF TaskEnds, Ids
  <2> QED
    BY <1>2, <1>t, <1>j, <2>1, <2>2, TaskGotoType, TypePartsNext DEF TaskEnds
<1>3. CASE EnqueueSuccessors(c, j)
  <2>1. PICK pc \in TaskPc : TaskGoto(c, j, pc)
    BY <1>3, <1>p DEF EnqueueSuccessors
  <2>2. jobs' \in Seq(Row) /\ Ids \subseteq Ids'
    <3>1. CASE jobs' = jobs
      BY <1>t, <3>1 DEF Ids
    <3>2. CASE jobs' # jobs
      <4>1. /\ jobs[j].stage # "generate"
            /\ jobs' = Inserted(jobs[j].doc, Successor[jobs[j].stage])
        BY <1>3, <3>2 DEF EnqueueSuccessors
      <4>2. jobs[j].doc \in Docs /\ Successor[jobs[j].stage] \in Stages
        BY <1>j, <4>1 DEF Row, Stages, Successor
      <4> QED
        BY <1>t, <4>1, <4>2, InsertedTable DEF Ids
    <3> QED
      BY <3>1, <3>2
  <2>3. TasksOK'
    BY <1>t, <1>j, <2>1, <2>2, TaskGotoEffect DEF TasksOK
  <2> QED
    BY <1>3, <1>t, <2>2, <2>3, TypePartsNext DEF EnqueueSuccessors
<1>4. CASE MarkDone(c, j)
  <2>1. TaskGoto(c, j, "finished")
    BY <1>4 DEF MarkDone
  <2>2. jobs' \in Seq(Row) /\ Ids' = Ids
    <3>1. [jobs[j] EXCEPT !.status = "done"] \in Row
      BY <1>j DEF Row, RowStatus
    <3>2. \/ jobs' = jobs
          \/ jobs' = [jobs EXCEPT ![j] = [jobs[j] EXCEPT !.status = "done"]]
      BY <1>4 DEF MarkDone
    <3> QED
      BY <1>t, <1>j, <3>1, <3>2, RowWritten
  <2>3. TasksOK' /\ UNCHANGED <<docs, call, processed, crashes>>
    BY <1>4, <1>t, <1>j, <1>p, <2>1, <2>2, TaskGotoType DEF MarkDone
  <2> QED
    BY <1>t, <2>2, <2>3, TypePartsNext
<1>5. CASE MarkFailed(c, j)
  <2>1. TaskGoto(c, j, "finished")
    BY <1>5 DEF MarkFailed
  <2>2. jobs' \in Seq(Row) /\ Ids' = Ids
    <3>1. /\ [jobs[j] EXCEPT !.status = "dead", !.lease = "none", !.due = TRUE] \in Row
          /\ [jobs[j] EXCEPT !.status = "pending", !.lease = "none", !.due = FALSE] \in Row
      BY <1>j DEF Row, RowStatus
    <3>2. jobs' = jobs \/ \E r \in Row : jobs' = [jobs EXCEPT ![j] = r]
      BY <1>5, <3>1 DEF MarkFailed
    <3>3. CASE jobs' = jobs
      BY <1>t, <3>3 DEF Ids
    <3>4. ASSUME NEW r \in Row, jobs' = [jobs EXCEPT ![j] = r]
          PROVE  jobs' \in Seq(Row) /\ Ids' = Ids
      BY <1>t, <1>j, <3>4, RowWritten
    <3> QED
      BY <3>2, <3>3, <3>4
  <2>3. TasksOK' /\ UNCHANGED <<docs, call, processed, crashes>>
    BY <1>5, <1>t, <1>j, <1>p, <2>1, <2>2, TaskGotoType DEF MarkFailed
  <2> QED
    BY <1>t, <2>2, <2>3, TypePartsNext
<1>6. CASE MarkFailedRaises(c, j)
  <2>1. TaskGoto(c, j, "finished") /\ Ids' = Ids /\ Goto(c, "aborted") /\ "aborted" \in CallPc
    BY <1>6 DEF MarkFailedRaises, Ids, CallPc
  <2>2. call' \in [Calls -> CallRecord]
    BY <1>t, <2>1, GotoType
  <2> QED
    BY <1>6, <1>t, <1>j, <1>p, <2>1, <2>2, TaskGotoType, TypePartsNext DEF MarkFailedRaises
<1>7. CASE Heartbeat(c, j)
  <2>1. jobs' \in Seq(Row) /\ Ids' = Ids
    <3>1. [jobs[j] EXCEPT !.lease = "held"] \in Row
      BY <1>j DEF Row
    <3>2. jobs' = [jobs EXCEPT ![j] = [jobs[j] EXCEPT !.lease = "held"]]
      BY <1>7 DEF Heartbeat
    <3> QED
      BY <1>t, <1>j, <3>1, <3>2, TableUpdate DEF Ids
  <2> QED
    BY <1>7, <1>t, <2>1, TasksKept, TypePartsNext DEF Heartbeat
<1> QED
  BY <1>1, <1>2, <1>3, <1>4, <1>5, <1>6, <1>7 DEF TaskStep

(* Time and crashes keep the types.                                        *)
LEMMA TypeEnvironment ==
    ASSUME TypeOK, NEW j, NEW p, BackoffElapses(j) \/ LeaseLapses(j) \/ Crash(p)
    PROVE  TypeOK'
<1>t. /\ jobs \in Seq(Row) /\ docs \in [Docs -> DocStatus] /\ call \in [Calls -> CallRecord]
      /\ TasksOK /\ processed \in [Docs -> Nat] /\ crashes \in Nat
  BY TypeParts
<1>1. CASE BackoffElapses(j) \/ LeaseLapses(j)
  <2>1. j \in Ids /\ jobs[j] \in Row
    BY <1>1, <1>t, TableType DEF BackoffElapses, LeaseLapses
  <2>2. /\ [jobs[j] EXCEPT !.due = TRUE] \in Row
        /\ [jobs[j] EXCEPT !.lease = "lapsed"] \in Row
    BY <2>1 DEF Row
  <2>3. \E r \in Row : jobs' = [jobs EXCEPT ![j] = r]
    BY <1>1, <2>2 DEF BackoffElapses, LeaseLapses
  <2>4. jobs' \in Seq(Row) /\ Ids' = Ids
    BY <1>t, <2>1, <2>3, TableUpdate DEF Ids
  <2> QED
    BY <1>1, <1>t, <2>4, TasksKept, TypePartsNext DEF BackoffElapses, LeaseLapses
<1>2. CASE Crash(p)
  <2>1. call' \in [Calls -> CallRecord]
    <3>1. IdleCall \in CallRecord
      BY DEF IdleCall, CallRecord, CallPc
    <3> QED
      BY <1>2, <1>t, <3>1 DEF Crash
  <2>2. TasksOK'
    BY <1>2, <1>t, NoTaskType DEF Crash, TasksOK, Ids
  <2>3. crashes' \in Nat
    <3>1. crashes' = crashes + 1
      BY <1>2 DEF Crash
    <3> QED
      BY <1>t, <3>1
  <2> QED
    BY <1>2, <1>t, <2>1, <2>2, <2>3, TypePartsNext DEF Crash
<1> QED
  BY <1>1, <1>2

(* Every step keeps the types.                                             *)
LEMMA TypeStep == TypeOK /\ [Next]_vars => TypeOK'
<1> SUFFICES ASSUME TypeOK, [Next]_vars PROVE TypeOK'
  OBVIOUS
<1>1. CASE Next
  BY <1>1, TypeHandlers, TypeWithoutKey, TypeDelete, TypeDrain, TypeTasks, TypeEnvironment DEF Next, CallStep
<1>2. CASE UNCHANGED vars
  BY <1>2 DEF vars, TypeOK, Ids
<1> QED
  BY <1>1, <1>2

(* Every reachable state has the types of TypeOK: the rows of the table,   *)
(* the statuses of the documents, and the control state of calls and tasks. *)
THEOREM TypeCorrect == Spec => []TypeOK
<1>1. Init => TypeOK
  BY TypeInit
<1>2. TypeOK /\ [Next]_vars => TypeOK'
  BY TypeStep
<1> QED
  BY <1>1, <1>2, PTL DEF Spec

-----------------------------------------------------------------------------
(* No gap in the pipeline, and no early burial.                            *)
(*                                                                         *)
(* NoGap alone is not inductive: MarkDone() must find the successor there, *)
(* so the invariant says that a task about to mark its row done has one.   *)
(* DeadIsExhausted alone is not inductive either: MarkFailed() looks at the *)
(* attempts of the snapshot, so the invariant says a snapshot never counts *)
(* more attempts than the row it was taken of.                             *)

HasSuccessor(j) ==
    \E k \in Ids : /\ jobs[k].doc = jobs[j].doc /\ Exists(k)
                   /\ jobs[k].stage = Successor[jobs[j].stage]

TaskInv ==
    \A c \in Calls : \A j \in DOMAIN task[c] : Exists(j) =>
        /\ task[c][j].attempts <= jobs[j].attempts
        /\ task[c][j].pc = "mark_done" /\ jobs[j].stage # "generate" => HasSuccessor(j)

IInv == TypeOK /\ NoGap /\ DeadIsExhausted /\ TaskInv

(* What every step leaves of the table: rows keep their document and stage, *)
(* attempts only grow, a document's rows are deleted together, and a new    *)
(* row is pending.                                                          *)
KeepsRows ==
    /\ Ids \subseteq Ids'
    /\ \A j \in Ids :
          /\ jobs'[j].doc = jobs[j].doc /\ jobs'[j].stage = jobs[j].stage
          /\ Exists(j)' => Exists(j) /\ jobs[j].attempts <= jobs'[j].attempts
          /\ Exists(j) /\ ~Exists(j)' =>
                \A k \in Ids : jobs[k].doc = jobs[j].doc => ~Exists(k)'
    /\ \A j \in Ids' \ Ids : jobs'[j].status = "pending"

(* No row becomes done or dead.                                            *)
KeepsSettled ==
    \A j \in Ids : jobs'[j].status \in {"done", "dead"} => jobs'[j].status = jobs[j].status

(* No task starts, and none comes to its mark_done().                      *)
KeepsTasks ==
    \A c \in Calls : \A j \in DOMAIN task'[c] :
        /\ j \in DOMAIN task[c]
        /\ task'[c][j].attempts = task[c][j].attempts
        /\ task'[c][j].pc = "mark_done" => task[c][j].pc = "mark_done"

(* Attempts are numbers, now and after the step.                           *)
LEMMA AttemptsAreNumbers ==
    /\ TypeOK => \A j \in Ids : jobs[j].attempts \in Nat
    /\ TypeOK' => \A j \in Ids' : jobs'[j].attempts \in Nat
<1>1. \A t \in Seq(Row) : \A j \in DOMAIN t : t[j].attempts \in Nat
  <2>1. \A t \in Seq(Row) : \A j \in DOMAIN t : t[j] \in Row
    OBVIOUS
  <2> QED
    BY <2>1 DEF Row
<1> QED
  BY <1>1 DEF TypeOK, Ids

(* A row that is still there keeps its successor.                          *)
LEMMA SuccessorKept ==
    ASSUME KeepsRows, NEW j \in Ids, Exists(j)', HasSuccessor(j)
    PROVE  HasSuccessor(j)'
<1>1. PICK k \in Ids : /\ jobs[k].doc = jobs[j].doc /\ Exists(k)
                       /\ jobs[k].stage = Successor[jobs[j].stage]
  BY DEF HasSuccessor
<1>2. k \in Ids' /\ Exists(k)'
  BY <1>1 DEF KeepsRows
<1>3. jobs'[k].doc = jobs'[j].doc /\ jobs'[k].stage = Successor[jobs'[j].stage]
  BY <1>1 DEF KeepsRows
<1> QED
  BY <1>2, <1>3 DEF HasSuccessor

(* No gap appears when every row that is done afterwards has a successor.  *)
LEMMA NoGapKept ==
    ASSUME KeepsRows,
           \A j \in Ids : jobs'[j].status = "done" /\ jobs[j].stage # "generate" => HasSuccessor(j)
    PROVE  NoGap'
<1> SUFFICES ASSUME NEW j \in Ids', jobs'[j].status = "done", jobs'[j].stage # "generate"
             PROVE  HasSuccessor(j)'
  BY DEF NoGap, HasSuccessor
<1>1. j \in Ids
  BY DEF KeepsRows
<1>2. Exists(j)' /\ jobs[j].stage # "generate"
  BY <1>1 DEF KeepsRows, Exists
<1> QED
  BY <1>1, <1>2, SuccessorKept

(* Burials are late enough when every row that is dead afterwards was.     *)
LEMMA DeadKept ==
    ASSUME TypeOK, TypeOK', KeepsRows,
           \A j \in Ids : jobs'[j].status = "dead" => jobs[j].attempts >= MaxAttempts
    PROVE  DeadIsExhausted'
<1> SUFFICES ASSUME NEW j \in Ids', jobs'[j].status = "dead"
             PROVE  jobs'[j].attempts >= MaxAttempts
  BY DEF DeadIsExhausted
<1>1. j \in Ids
  BY DEF KeepsRows
<1>2. jobs[j].attempts <= jobs'[j].attempts /\ jobs[j].attempts >= MaxAttempts
  BY <1>1 DEF KeepsRows, Exists
<1>3. jobs[j].attempts \in Nat /\ jobs'[j].attempts \in Nat /\ MaxAttempts \in Nat
  BY <1>1, AttemptsAreNumbers, ConstantsAssumption DEF KeepsRows
<1> QED
  BY <1>2, <1>3

(* Tasks that take no step keep what the invariant says of them.           *)
LEMMA TaskInvKept ==
    ASSUME TypeOK, TypeOK', TaskInv, KeepsRows, KeepsTasks
    PROVE  TaskInv'
<1> SUFFICES ASSUME NEW c \in Calls, NEW j \in DOMAIN task'[c], Exists(j)'
             PROVE  /\ task'[c][j].attempts <= jobs'[j].attempts
                    /\ task'[c][j].pc = "mark_done" /\ jobs'[j].stage # "generate" => HasSuccessor(j)'
  BY DEF TaskInv
<1>1. j \in DOMAIN task[c] /\ j \in Ids
  BY DEF KeepsTasks, TypeOK
<1>2. Exists(j) /\ jobs[j].attempts <= jobs'[j].attempts /\ jobs[j].stage = jobs'[j].stage
  BY <1>1 DEF KeepsRows
<1>3. task'[c][j].attempts <= jobs'[j].attempts
  <2>1. task[c][j].attempts \in Nat /\ jobs[j].attempts \in Nat /\ jobs'[j].attempts \in Nat
    <3>1. task[c][j].attempts \in Nat
      BY <1>1 DEF TypeOK
    <3> QED
      BY <1>1, <3>1, AttemptsAreNumbers DEF KeepsRows
  <2>2. task'[c][j].attempts = task[c][j].attempts /\ task[c][j].attempts <= jobs[j].attempts
    BY <1>1, <1>2 DEF TaskInv, KeepsTasks
  <2> QED
    BY <1>2, <2>1, <2>2
<1>4. ASSUME task'[c][j].pc = "mark_done", jobs'[j].stage # "generate" PROVE HasSuccessor(j)'
  <2>1. HasSuccessor(j)
    BY <1>1, <1>2, <1>4 DEF TaskInv, KeepsTasks
  <2> QED
    BY <1>1, <2>1, SuccessorKept
<1> QED
  BY <1>3, <1>4

(* The invariant holds on after a step that settles no row, starts no task *)
(* and brings none to its mark_done().                                     *)
LEMMA IInvKept ==
    ASSUME IInv, TypeOK', KeepsRows, KeepsSettled, KeepsTasks
    PROVE  IInv'
<1>1. \A j \in Ids : jobs'[j].status = "done" /\ jobs[j].stage # "generate" => HasSuccessor(j)
  BY DEF IInv, NoGap, HasSuccessor, KeepsSettled
<1>2. \A j \in Ids : jobs'[j].status = "dead" => jobs[j].attempts >= MaxAttempts
  BY DEF IInv, DeadIsExhausted, KeepsSettled
<1> QED
  BY <1>1, <1>2, NoGapKept, DeadKept, TaskInvKept DEF IInv

(* A step that leaves the table alone.                                     *)
LEMMA SameTable ==
    ASSUME TypeOK, jobs' = jobs
    PROVE  KeepsRows /\ KeepsSettled
BY AttemptsAreNumbers DEF KeepsRows, KeepsSettled, Ids, Exists

(* A step that writes rows in place and deletes none.                      *)
LEMMA RowsInPlace ==
    ASSUME Ids' = Ids,
           \A j \in Ids : /\ jobs'[j].doc = jobs[j].doc /\ jobs'[j].stage = jobs[j].stage
                          /\ Exists(j)' <=> Exists(j)
                          /\ jobs[j].attempts <= jobs'[j].attempts
    PROVE  KeepsRows
BY DEF KeepsRows

(* A step that deletes the rows of a document.                             *)
LEMMA RowsDeletedKept ==
    ASSUME TypeOK, NEW d \in Docs, jobs' = RowsDeleted(d)
    PROVE  KeepsRows /\ KeepsSettled
<1>1. /\ Ids' = Ids
      /\ \A k \in Ids : /\ jobs[k].doc # d => jobs'[k] = jobs[k]
                        /\ jobs[k].doc = d => jobs'[k].status = "deleted"
                        /\ jobs'[k].doc = jobs[k].doc /\ jobs'[k].stage = jobs[k].stage
  BY RowsDeletedTable DEF TypeOK, Ids
<1>2. KeepsSettled
  BY <1>1 DEF KeepsSettled
<1>3. \A j \in Ids : Exists(j)' => Exists(j) /\ jobs[j].attempts <= jobs'[j].attempts
  BY <1>1, AttemptsAreNumbers DEF Exists
<1>4. \A j \in Ids : Exists(j) /\ ~Exists(j)' => jobs[j].doc = d
  BY <1>1 DEF Exists
<1>5. \A j, k \in Ids : Exists(j) /\ ~Exists(j)' /\ jobs[k].doc = jobs[j].doc => ~Exists(k)'
  BY <1>1, <1>4 DEF Exists
<1>6. KeepsRows
  BY <1>1, <1>3, <1>5 DEF KeepsRows
<1> QED
  BY <1>2, <1>6

(* A step that enqueues a stage.                                           *)
LEMMA InsertedKept ==
    ASSUME TypeOK, NEW d \in Docs, NEW s \in Stages, jobs' = Inserted(d, s)
    PROVE  KeepsRows /\ KeepsSettled
<1>1. /\ Ids \subseteq Ids'
      /\ \A k \in Ids : jobs'[k] = jobs[k]
      /\ \A k \in Ids' \ Ids : jobs'[k].status = "pending"
  BY InsertedTable DEF TypeOK, Ids
<1> QED
  BY <1>1, AttemptsAreNumbers DEF KeepsRows, KeepsSettled, Exists

(* A step that writes the row j, whose status it may change.               *)
LEMMA RowUpdateKept ==
    ASSUME TypeOK, NEW j \in Ids, Exists(j), NEW r \in Row, jobs' = [jobs EXCEPT ![j] = r],
           r.doc = jobs[j].doc, r.stage = jobs[j].stage, r.attempts = jobs[j].attempts,
           r.status # "deleted"
    PROVE  /\ KeepsRows
           /\ \A k \in Ids : jobs'[k].status = IF k = j THEN r.status ELSE jobs[k].status
<1>1. Ids' = Ids /\ \A k \in Ids : jobs'[k] = IF k = j THEN r ELSE jobs[k]
  BY TableUpdate DEF TypeOK, Ids
<1>2. \A k \in Ids : /\ jobs'[k].doc = jobs[k].doc /\ jobs'[k].stage = jobs[k].stage
                     /\ Exists(k)' <=> Exists(k)
  BY <1>1 DEF Exists
<1>3. \A k \in Ids : jobs[k].attempts <= jobs'[k].attempts
  BY <1>1, AttemptsAreNumbers
<1> QED
  BY <1>1, <1>2, <1>3, RowsInPlace

(* A step that leaves the tasks alone, or forgets those of one call.       *)
LEMMA SameTasks ==
    ASSUME TypeOK, task' = task \/ \E c \in Calls : task' = [task EXCEPT ![c] = NoTask]
    PROVE  KeepsTasks
BY NoTaskType DEF TypeOK, KeepsTasks

(* A step of one task to another place than its mark_done().               *)
LEMMA TaskGotoKept ==
    ASSUME TypeOK, NEW c \in Calls, NEW j \in DOMAIN task[c], NEW pc \in TaskPc,
           pc # "mark_done", TaskGoto(c, j, pc)
    PROVE  KeepsTasks
<1>1. TasksOK
  BY TypeParts
<1>2. \A e \in Calls : /\ DOMAIN task'[e] = DOMAIN task[e]
                       /\ \A k \in DOMAIN task[e] :
                            task'[e][k] = IF e = c /\ k = j
                                          THEN [pc |-> pc, attempts |-> task[c][j].attempts]
                                          ELSE task[e][k]
  BY <1>1, TaskGotoEffect
<1> QED
  BY <1>2 DEF KeepsTasks

(* The invariant through the handlers and the deletion of a document.      *)
LEMMA IInvHandlers ==
    ASSUME IInv, TypeOK',
           \/ \E c \in Calls, d \in Docs : ProcessDelete(c, d)
           \/ \E c \in Calls : ProcessEnqueue(c) \/ ProcessSetQueued(c)
           \/ \E d \in Docs : ProcessWithoutKey(d) \/ DocumentDelete(d)
    PROVE  IInv'
<1>t. TypeOK
  BY DEF IInv
<1>1. ASSUME NEW c \in Calls, NEW d \in Docs, ProcessDelete(c, d) PROVE IInv'
  BY <1>1, <1>t, RowsDeletedKept, SameTasks, IInvKept DEF ProcessDelete
<1>2. ASSUME NEW c \in Calls, ProcessEnqueue(c) PROVE IInv'
  <2>1. PICK e \in call[c].todo : jobs' = jobs \/ jobs' = Inserted(e, "ingest")
    BY <1>2 DEF ProcessEnqueue
  <2>2. e \in Docs /\ "ingest" \in Stages
    BY <1>t, <2>1 DEF TypeOK, Stages
  <2>3. KeepsRows /\ KeepsSettled
    BY <1>t, <2>1, <2>2, SameTable, InsertedKept
  <2> QED
    BY <1>2, <1>t, <2>3, SameTasks, IInvKept DEF ProcessEnqueue
<1>3. ASSUME NEW c \in Calls, ProcessSetQueued(c) PROVE IInv'
  BY <1>3, <1>t, SameTable, SameTasks, IInvKept DEF ProcessSetQueued
<1>4. ASSUME NEW d \in Docs, DocumentDelete(d) PROVE IInv'
  BY <1>4, <1>t, RowsDeletedKept, SameTasks, IInvKept DEF DocumentDelete
<1>5. ASSUME NEW d \in Docs, ProcessWithoutKey(d) PROVE IInv'
  BY <1>5, <1>t, SameTable, SameTasks, IInvKept DEF ProcessWithoutKey
<1> QED
  BY <1>1, <1>2, <1>3, <1>4, <1>5

(* The invariant through drain_once().                                     *)
LEMMA IInvDrain ==
    ASSUME IInv, TypeOK', NEW c \in Calls,
           \/ StartDrain(c) \/ KickDrain(c) \/ Claim(c) \/ GatherReturns(c)
           \/ DeriveRead(c) \/ DeriveWrite(c) \/ BudgetSpent(c) \/ AbortedDrainEnds(c)
    PROVE  IInv'
<1>t. TypeOK
  BY DEF IInv
<1>1. CASE StartDrain(c) \/ KickDrain(c)
  <2>0. RecoverStuckJobs(c)
    BY <1>1 DEF StartDrain, KickDrain
  <2>1. Ids' = Ids
    BY <2>0 DEF RecoverStuckJobs, Ids
  <2>2. \A j \in Ids : /\ jobs'[j].doc = jobs[j].doc /\ jobs'[j].stage = jobs[j].stage
                       /\ jobs'[j].attempts = jobs[j].attempts
                       /\ \/ jobs'[j].status = jobs[j].status
                          \/ jobs[j].status = "claimed" /\ jobs'[j].status = "pending"
    <3>1. \A j \in Ids : jobs[j] \in Row
      BY <1>t, TableType DEF TypeOK
    <3> DEFINE rec(r) == [r EXCEPT !.status = "pending", !.lease = "none"]
    <3>2. \A r \in Row : /\ rec(r).doc = r.doc /\ rec(r).stage = r.stage
                         /\ rec(r).attempts = r.attempts /\ rec(r).status = "pending"
      BY DEF Row
    <3>3. jobs' = [j \in Ids |-> IF jobs[j].status = "claimed" /\ jobs[j].lease = "lapsed"
                                 THEN rec(jobs[j]) ELSE jobs[j]]
      BY <2>0 DEF RecoverStuckJobs
    <3> HIDE DEF rec
    <3> QED
      BY <3>1, <3>2, <3>3
  <2>3. KeepsRows
    <3>1. \A j \in Ids : jobs[j].attempts <= jobs'[j].attempts
      <4>1. \A j \in Ids : jobs[j].attempts \in Nat
        BY <1>t, AttemptsAreNumbers
      <4> QED
        BY <2>2, <4>1
    <3>2. \A j \in Ids : Exists(j)' <=> Exists(j)
      BY <2>2 DEF Exists
    <3> QED
      BY <2>1, <2>2, <3>1, <3>2, RowsInPlace
  <2>4. KeepsSettled
    BY <2>2 DEF KeepsSettled
  <2> QED
    BY <2>0, <1>t, <2>3, <2>4, SameTasks, IInvKept DEF RecoverStuckJobs
<1>2. CASE Claim(c)
  <2>1. Ids' = Ids
    BY <1>2 DEF Claim, Ids
  <2>2. \A j \in Ids : /\ jobs'[j].doc = jobs[j].doc /\ jobs'[j].stage = jobs[j].stage
                       /\ jobs'[j].attempts = IF j \in Claimable THEN jobs[j].attempts + 1
                                                                 ELSE jobs[j].attempts
                       /\ jobs'[j].status = IF j \in Claimable THEN "claimed" ELSE jobs[j].status
    <3>1. \A j \in Ids : jobs[j] \in Row
      BY <1>t, TableType DEF TypeOK
    <3> QED
      BY <1>2, <3>1 DEF Claim, Row
  <2>3. \A j \in Claimable : jobs[j].status = "pending"
    BY DEF Claimable
  <2>4. KeepsRows
    <3>1. \A j \in Ids : jobs[j].attempts <= jobs'[j].attempts
      BY <1>t, <2>2, AttemptsAreNumbers
    <3>2. \A j \in Ids : Exists(j)' <=> Exists(j)
      BY <2>2, <2>3 DEF Exists
    <3> QED
      BY <2>1, <2>2, <3>1, <3>2, RowsInPlace
  <2>5. KeepsSettled
    BY <2>2 DEF KeepsSettled
  <2>6. TaskInv'
    <3> DEFINE f == [j \in Claimable |-> [pc |-> "start", attempts |-> jobs[j].attempts + 1]]
    <3>1. task' = [task EXCEPT ![c] = f]
      BY <1>2 DEF Claim
    <3>2. task'[c] = f /\ \A e \in Calls \ {c} : task'[e] = task[e]
      BY <1>t, <3>1 DEF TypeOK
    <3>3. ASSUME NEW j \in DOMAIN task'[c], Exists(j)'
          PROVE  task'[c][j].attempts <= jobs'[j].attempts /\ task'[c][j].pc = "start"
      <4>1. j \in Claimable /\ j \in Ids
        BY <3>2, <3>3, ClaimableIds
      <4>2. task'[c][j] = [pc |-> "start", attempts |-> jobs[j].attempts + 1]
        BY <3>2, <4>1
      <4>3. jobs'[j].attempts = jobs[j].attempts + 1 /\ jobs[j].attempts \in Nat
        BY <1>t, <2>2, <4>1, AttemptsAreNumbers
      <4> QED
        BY <4>2, <4>3
    <3>4. ASSUME NEW e \in Calls \ {c}, NEW j \in DOMAIN task'[e], Exists(j)'
          PROVE  /\ task'[e][j].attempts <= jobs'[j].attempts
                 /\ task'[e][j].pc = "mark_done" /\ jobs'[j].stage # "generate"
                       => HasSuccessor(j)'
      <4>1. j \in DOMAIN task[e] /\ j \in Ids /\ task'[e] = task[e]
        BY <1>t, <3>2, <3>4 DEF TypeOK
      <4>2. Exists(j) /\ jobs[j].attempts <= jobs'[j].attempts /\ jobs[j].stage = jobs'[j].stage
        BY <2>4, <3>4, <4>1 DEF KeepsRows
      <4>3. task[e][j].attempts \in Nat /\ jobs[j].attempts \in Nat /\ jobs'[j].attempts \in Nat
        <5>1. task[e][j].attempts \in Nat
          BY <1>t, <4>1 DEF TypeOK
        <5> QED
          BY <1>t, <2>1, <4>1, <5>1, AttemptsAreNumbers
      <4>4. task[e][j].attempts <= jobs[j].attempts
        BY <4>1, <4>2 DEF IInv, TaskInv
      <4>5. ASSUME task[e][j].pc = "mark_done", jobs[j].stage # "generate" PROVE HasSuccessor(j)'
        BY <2>4, <3>4, <4>1, <4>2, <4>5, SuccessorKept DEF IInv, TaskInv
      <4> QED
        BY <4>1, <4>2, <4>3, <4>4, <4>5
    <3> HIDE DEF f
    <3> QED
      BY <3>3, <3>4 DEF TaskInv
  <2>7. \A j \in Ids : jobs'[j].status = "done" /\ jobs[j].stage # "generate" => HasSuccessor(j)
    BY <2>5 DEF IInv, NoGap, HasSuccessor, KeepsSettled
  <2>8. \A j \in Ids : jobs'[j].status = "dead" => jobs[j].attempts >= MaxAttempts
    BY <2>5 DEF IInv, DeadIsExhausted, KeepsSettled
  <2> QED
    BY <1>t, <2>4, <2>6, <2>7, <2>8, NoGapKept, DeadKept DEF IInv
<1>3. CASE GatherReturns(c)
  BY <1>3, <1>t, SameTable, SameTasks, IInvKept DEF GatherReturns
<1>4. CASE DeriveRead(c)
  BY <1>4, <1>t, SameTable, SameTasks, IInvKept DEF DeriveRead
<1>5. CASE DeriveWrite(c)
  BY <1>5, <1>t, SameTable, SameTasks, IInvKept DEF DeriveWrite
<1>6. CASE BudgetSpent(c)
  BY <1>6, <1>t, SameTable, SameTasks, IInvKept DEF BudgetSpent
<1>7. CASE AbortedDrainEnds(c)
  BY <1>7, <1>t, SameTable, SameTasks, IInvKept DEF AbortedDrainEnds
<1> QED
  BY <1>1, <1>2, <1>3, <1>4, <1>5, <1>6, <1>7

(* The invariant through time and crashes.                                 *)
LEMMA IInvEnvironment ==
    ASSUME IInv, TypeOK', NEW j, NEW p, BackoffElapses(j) \/ LeaseLapses(j) \/ Crash(p)
    PROVE  IInv'
<1>t. TypeOK
  BY DEF IInv
<1>1. CASE BackoffElapses(j) \/ LeaseLapses(j)
  <2>1. j \in Ids /\ jobs[j] \in Row /\ Exists(j)
    BY <1>1, <1>t, TableType DEF BackoffElapses, LeaseLapses, TypeOK, Exists
  <2>2. PICK r \in Row : /\ jobs' = [jobs EXCEPT ![j] = r]
                         /\ r.doc = jobs[j].doc /\ r.stage = jobs[j].stage
                         /\ r.attempts = jobs[j].attempts /\ r.status = jobs[j].status
    <3>1. ASSUME BackoffElapses(j)
          PROVE  jobs' = [jobs EXCEPT ![j] = [jobs[j] EXCEPT !.due = TRUE]]
      BY <3>1 DEF BackoffElapses
    <3>2. ASSUME LeaseLapses(j)
          PROVE  jobs' = [jobs EXCEPT ![j] = [jobs[j] EXCEPT !.lease = "lapsed"]]
      BY <3>2 DEF LeaseLapses
    <3>3. \A r \in Row :
             /\ LET n == [r EXCEPT !.due = TRUE]
                IN  /\ n \in Row /\ n.doc = r.doc /\ n.stage = r.stage
                    /\ n.attempts = r.attempts /\ n.status = r.status
             /\ LET n == [r EXCEPT !.lease = "lapsed"]
                IN  /\ n \in Row /\ n.doc = r.doc /\ n.stage = r.stage
                    /\ n.attempts = r.attempts /\ n.status = r.status
      BY DEF Row
    <3> QED
      BY <1>1, <2>1, <3>1, <3>2, <3>3
  <2>3. KeepsRows /\ KeepsSettled
    <3>1. r.status # "deleted"
      BY <2>1, <2>2 DEF Exists
    <3>2. /\ KeepsRows
          /\ \A k \in Ids : jobs'[k].status = IF k = j THEN r.status ELSE jobs[k].status
      BY <1>t, <2>1, <2>2, <3>1, RowUpdateKept
    <3> QED
      BY <2>2, <3>2 DEF KeepsSettled
  <2> QED
    BY <1>1, <1>t, <2>3, SameTasks, IInvKept DEF BackoffElapses, LeaseLapses
<1>2. CASE Crash(p)
  <2>1. KeepsTasks
    BY <1>2, <1>t, NoTaskType DEF Crash, KeepsTasks, TypeOK
  <2> QED
    BY <1>2, <1>t, <2>1, SameTable, IInvKept DEF Crash
<1> QED
  BY <1>1, <1>2

(* A task that comes to its mark_done() after a step that settles no row.  *)
LEMMA TaskReadyKept ==
    ASSUME IInv, TypeOK', KeepsRows, KeepsSettled, NEW c \in Calls, NEW j \in DOMAIN task[c],
           TaskGoto(c, j, "mark_done"),
           Exists(j)' /\ jobs'[j].stage # "generate" => HasSuccessor(j)'
    PROVE  IInv'
<1>t. TypeOK /\ TasksOK /\ "mark_done" \in TaskPc
  BY TypeParts DEF IInv, TaskPc
<1>1. \A e \in Calls : /\ DOMAIN task'[e] = DOMAIN task[e]
                       /\ \A k \in DOMAIN task[e] :
                            task'[e][k] = IF e = c /\ k = j
                                          THEN [pc |-> "mark_done",
                                                attempts |-> task[c][j].attempts]
                                          ELSE task[e][k]
  BY <1>t, TaskGotoEffect
<1>2. TaskInv'
  <2> SUFFICES ASSUME NEW e \in Calls, NEW k \in DOMAIN task'[e], Exists(k)'
               PROVE  /\ task'[e][k].attempts <= jobs'[k].attempts
                      /\ task'[e][k].pc = "mark_done" /\ jobs'[k].stage # "generate"
                            => HasSuccessor(k)'
    BY DEF TaskInv
  <2>1. k \in DOMAIN task[e] /\ k \in Ids /\ task'[e][k].attempts = task[e][k].attempts
    <3>1. k \in DOMAIN task[e] /\ k \in Ids
      BY <1>t, <1>1 DEF TasksOK
    <3>2. CASE e = c /\ k = j
      <4>1. task'[e][k] = [pc |-> "mark_done", attempts |-> task[c][j].attempts]
        BY <1>1, <3>1, <3>2
      <4> QED
        BY <3>1, <3>2, <4>1
    <3>3. CASE ~(e = c /\ k = j)
      <4>1. \A m \in DOMAIN task[e] : ~(e = c /\ m = j) => task'[e][m] = task[e][m]
        BY <1>1
      <4> QED
        BY <3>1, <3>3, <4>1
    <3> QED
      BY <3>2, <3>3
  <2>2. Exists(k) /\ jobs[k].attempts <= jobs'[k].attempts /\ jobs[k].stage = jobs'[k].stage
    BY <2>1 DEF KeepsRows
  <2>3. task[e][k].attempts <= jobs[k].attempts
    BY <2>1, <2>2 DEF IInv, TaskInv
  <2>4. task[e][k].attempts \in Nat /\ jobs[k].attempts \in Nat /\ jobs'[k].attempts \in Nat
    <3>1. task[e][k].attempts \in Nat
      BY <1>t, <2>1 DEF TypeOK
    <3> QED
      BY <1>t, <2>1, <3>1, AttemptsAreNumbers DEF KeepsRows
  <2>5. task'[e][k].attempts <= jobs'[k].attempts
    BY <2>1, <2>2, <2>3, <2>4
  <2>6. ASSUME task'[e][k].pc = "mark_done", jobs'[k].stage # "generate"
        PROVE  HasSuccessor(k)'
    <3>1. CASE e = c /\ k = j
      BY <2>6, <3>1
    <3>2. CASE ~(e = c /\ k = j)
      <4>1. task'[e][k] = task[e][k]
        BY <1>1, <2>1, <3>2
      <4>2. HasSuccessor(k)
        BY <2>1, <2>2, <2>6, <4>1 DEF IInv, TaskInv
      <4> QED
        BY <2>1, <4>2, SuccessorKept
    <3> QED
      BY <3>1, <3>2
  <2> QED
    BY <2>5, <2>6
<1>3. NoGap'
  <2>1. \A k \in Ids : jobs'[k].status = "done" /\ jobs[k].stage # "generate" => HasSuccessor(k)
    BY DEF IInv, NoGap, HasSuccessor, KeepsSettled
  <2> QED
    BY <2>1, NoGapKept
<1>4. DeadIsExhausted'
  <2>1. \A k \in Ids : jobs'[k].status = "dead" => jobs[k].attempts >= MaxAttempts
    BY DEF IInv, DeadIsExhausted, KeepsSettled
  <2> QED
    BY <1>t, <2>1, DeadKept
<1> QED
  BY <1>2, <1>3, <1>4 DEF IInv

(* The invariant through EnqueueSuccessors(): the successor is there       *)
(* before the task may mark its row done.                                  *)
LEMMA IInvEnqueue ==
    ASSUME IInv, TypeOK', NEW c \in Calls, NEW j \in DOMAIN task[c], EnqueueSuccessors(c, j)
    PROVE  IInv'
<1>t. TypeOK /\ j \in Ids /\ jobs[j] \in Row
  <2>1. TypeOK /\ j \in Ids
    BY DEF IInv, TypeOK
  <2> QED
    BY <2>1, TableType DEF TypeOK
<1> DEFINE d == jobs[j].doc
           s == jobs[j].stage
<1>1. CASE s = "generate" /\ TaskGoto(c, j, "mark_done") /\ UNCHANGED jobs
  <2>1. KeepsRows /\ KeepsSettled /\ jobs'[j].stage = "generate"
    BY <1>1, <1>t, SameTable
  <2> QED
    BY <1>1, <2>1, TaskReadyKept
<1>2. CASE TaskGoto(c, j, "mark_failed") /\ UNCHANGED jobs
  <2>1. "mark_failed" \in TaskPc
    BY DEF TaskPc
  <2> QED
    BY <1>2, <1>t, <2>1, SameTable, TaskGotoKept, IInvKept
<1>3. CASE s # "generate" /\ jobs' = Inserted(d, Successor[s]) /\ TaskGoto(c, j, "mark_done")
  <2>1. d \in Docs /\ Successor[s] \in Stages
    BY <1>3, <1>t DEF Row, Stages, Successor
  <2> HIDE DEF d, s
  <2>2. KeepsRows /\ KeepsSettled
    BY <1>3, <1>t, <2>1, InsertedKept
  <2>3. \E k \in Ids' : /\ jobs'[k].doc = d /\ jobs'[k].stage = Successor[s]
                        /\ jobs'[k].status \in {"pending", "claimed"}
    <3>1. jobs \in Seq(Row) /\ Ids' = DOMAIN Inserted(d, Successor[s])
      BY <1>3, <1>t DEF TypeOK, Ids
    <3>2. \E k \in DOMAIN Inserted(d, Successor[s]) :
             /\ Inserted(d, Successor[s])[k].doc = d
             /\ Inserted(d, Successor[s])[k].stage = Successor[s]
             /\ Inserted(d, Successor[s])[k].status \in {"pending", "claimed"}
      BY <2>1, <3>1, InsertedTable
    <3> QED
      BY <1>3, <3>1, <3>2
  <2>4. jobs'[j].doc = d /\ jobs'[j].stage = s
    BY <1>t, <2>2 DEF KeepsRows, d, s
  <2>5. HasSuccessor(j)'
    BY <2>3, <2>4 DEF HasSuccessor, Exists
  <2> QED
    BY <1>3, <2>2, <2>5, TaskReadyKept
<1> QED
  BY <1>1, <1>2, <1>3 DEF EnqueueSuccessors

(* The invariant through mark_done(): the row has a successor by now.      *)
LEMMA IInvDone ==
    ASSUME IInv, TypeOK', NEW c \in Calls, NEW j \in DOMAIN task[c], MarkDone(c, j)
    PROVE  IInv'
<1>t. TypeOK /\ j \in Ids /\ jobs[j] \in Row
  <2>1. TypeOK /\ j \in Ids
    BY DEF IInv, TypeOK
  <2> QED
    BY <2>1, TableType DEF TypeOK
<1>k. KeepsTasks
  <2>1. TaskGoto(c, j, "finished") /\ "finished" \in TaskPc
    BY DEF MarkDone, TaskPc
  <2> QED
    BY <1>t, <2>1, TaskGotoKept
<1>1. CASE ~Exists(j)
  BY <1>1, <1>t, <1>k, SameTable, IInvKept DEF MarkDone
<1>2. CASE Exists(j)
  <2> DEFINE r == [jobs[j] EXCEPT !.status = "done"]
  <2>1. /\ r \in Row /\ r.doc = jobs[j].doc /\ r.stage = jobs[j].stage
        /\ r.attempts = jobs[j].attempts /\ r.status = "done"
    BY <1>t DEF Row, RowStatus
  <2>2. jobs' = [jobs EXCEPT ![j] = r]
    BY <1>2 DEF MarkDone
  <2> HIDE DEF r
  <2>3. /\ KeepsRows
        /\ \A k \in Ids : jobs'[k].status = IF k = j THEN r.status ELSE jobs[k].status
    BY <1>2, <1>t, <2>1, <2>2, RowUpdateKept
  <2>4. jobs[j].stage # "generate" => HasSuccessor(j)
    BY <1>2 DEF IInv, TaskInv, MarkDone
  <2>5. \A k \in Ids : jobs'[k].status = "done" /\ jobs[k].stage # "generate" => HasSuccessor(k)
    BY <2>3, <2>4 DEF IInv, NoGap, HasSuccessor
  <2>6. \A k \in Ids : jobs'[k].status = "dead" => jobs[k].attempts >= MaxAttempts
    BY <2>1, <2>3 DEF IInv, DeadIsExhausted
  <2> QED
    BY <1>t, <1>k, <2>3, <2>5, <2>6, NoGapKept, DeadKept, TaskInvKept DEF IInv
<1> QED
  BY <1>1, <1>2

(* The invariant through mark_failed(): the snapshot that buries the row   *)
(* counts no more attempts than the row.                                   *)
LEMMA IInvFailed ==
    ASSUME IInv, TypeOK', NEW c \in Calls, NEW j \in DOMAIN task[c], MarkFailed(c, j)
    PROVE  IInv'
<1>t. TypeOK /\ j \in Ids /\ jobs[j] \in Row
  <2>1. TypeOK /\ j \in Ids
    BY DEF IInv, TypeOK
  <2> QED
    BY <2>1, TableType DEF TypeOK
<1>k. KeepsTasks
  <2>1. TaskGoto(c, j, "finished") /\ "finished" \in TaskPc
    BY DEF MarkFailed, TaskPc
  <2> QED
    BY <1>t, <2>1, TaskGotoKept
<1>1. CASE ~Exists(j)
  BY <1>1, <1>t, <1>k, SameTable, IInvKept DEF MarkFailed
<1>2. CASE Exists(j)
  <2> DEFINE buried  == [jobs[j] EXCEPT !.status = "dead", !.lease = "none", !.due = TRUE]
             retried == [jobs[j] EXCEPT !.status = "pending", !.lease = "none", !.due = FALSE]
             last    == task[c][j].attempts >= MaxAttempts
  <2>1. /\ buried \in Row /\ buried.doc = jobs[j].doc /\ buried.stage = jobs[j].stage
        /\ buried.attempts = jobs[j].attempts /\ buried.status = "dead"
        /\ retried \in Row /\ retried.doc = jobs[j].doc /\ retried.stage = jobs[j].stage
        /\ retried.attempts = jobs[j].attempts /\ retried.status = "pending"
    BY <1>t DEF Row, RowStatus
  <2>2. jobs' = [jobs EXCEPT ![j] = IF last THEN buried ELSE retried]
    BY <1>2 DEF MarkFailed
  <2>3. last => jobs[j].attempts >= MaxAttempts
    <3>1. task[c][j].attempts \in Nat /\ jobs[j].attempts \in Nat /\ MaxAttempts \in Nat
      <4>1. task[c][j].attempts \in Nat
        BY <1>t DEF TypeOK
      <4> QED
        BY <1>t, <4>1, AttemptsAreNumbers, ConstantsAssumption
    <3>2. task[c][j].attempts <= jobs[j].attempts
      BY <1>2 DEF IInv, TaskInv
    <3> QED
      BY <3>1, <3>2
  <2> HIDE DEF buried, retried, last
  <2>4. PICK r \in Row : /\ jobs' = [jobs EXCEPT ![j] = r]
                         /\ r.doc = jobs[j].doc /\ r.stage = jobs[j].stage
                         /\ r.attempts = jobs[j].attempts
                         /\ r.status = "pending" \/ (r.status = "dead" /\ last)
    <3>1. CASE last
      BY <2>1, <2>2, <3>1
    <3>2. CASE ~last
      BY <2>1, <2>2, <3>2
    <3> QED
      BY <3>1, <3>2
  <2>5. /\ KeepsRows
        /\ \A k \in Ids : jobs'[k].status = IF k = j THEN r.status ELSE jobs[k].status
    BY <1>2, <1>t, <2>4, RowUpdateKept
  <2>6. \A k \in Ids : jobs'[k].status = "done" /\ jobs[k].stage # "generate" => HasSuccessor(k)
    BY <2>4, <2>5 DEF IInv, NoGap, HasSuccessor
  <2>7. \A k \in Ids : jobs'[k].status = "dead" => jobs[k].attempts >= MaxAttempts
    BY <2>3, <2>4, <2>5 DEF IInv, DeadIsExhausted
  <2> QED
    BY <1>t, <1>k, <2>5, <2>6, <2>7, NoGapKept, DeadKept, TaskInvKept DEF IInv
<1> QED
  BY <1>1, <1>2

(* The invariant through the other steps of a task.                        *)
LEMMA IInvTasks ==
    ASSUME IInv, TypeOK', NEW c \in Calls, NEW j, TaskStep(c, j) \/ Heartbeat(c, j)
    PROVE  IInv'
<1>j. j \in DOMAIN task[c]
  BY DEF TaskStep, TaskStart, TaskEnds, EnqueueSuccessors, MarkDone, MarkFailed,
         MarkFailedRaises, Heartbeat, Active
<1>t. TypeOK /\ j \in Ids /\ jobs[j] \in Row
  <2>1. TypeOK /\ j \in Ids
    BY <1>j DEF IInv, TypeOK
  <2> QED
    BY <2>1, TableType DEF TypeOK
<1>p. {"running", "enqueue", "mark_failed", "finished"} \subseteq TaskPc
  BY DEF TaskPc
<1>1. CASE TaskStart(c, j)
  <2>1. PICK pc \in {"running", "enqueue", "mark_failed"} : TaskGoto(c, j, pc)
    BY <1>1 DEF TaskStart
  <2>2. KeepsTasks
    BY <1>t, <1>j, <1>p, <2>1, TaskGotoKept
  <2> QED
    BY <1>1, <1>t, <2>2, SameTable, IInvKept DEF TaskStart
<1>2. CASE TaskEnds(c, j)
  <2>1. PICK pc \in {"enqueue", "mark_failed"} : TaskGoto(c, j, pc)
    BY <1>2 DEF TaskEnds
  <2>2. KeepsTasks
    BY <1>t, <1>j, <1>p, <2>1, TaskGotoKept
  <2> QED
    BY <1>2, <1>t, <2>2, SameTable, IInvKept DEF TaskEnds
<1>3. CASE MarkFailedRaises(c, j)
  <2>1. KeepsTasks
    BY <1>3, <1>t, <1>j, <1>p, TaskGotoKept DEF MarkFailedRaises
  <2> QED
    BY <1>3, <1>t, <2>1, SameTable, IInvKept DEF MarkFailedRaises
<1>4. CASE Heartbeat(c, j)
  <2> DEFINE r == [jobs[j] EXCEPT !.lease = "held"]
  <2>1. /\ r \in Row /\ r.doc = jobs[j].doc /\ r.stage = jobs[j].stage
        /\ r.attempts = jobs[j].attempts /\ r.status = jobs[j].status
    BY <1>t DEF Row
  <2>2. jobs' = [jobs EXCEPT ![j] = r] /\ Exists(j) /\ UNCHANGED task
    BY <1>4 DEF Heartbeat
  <2> HIDE DEF r
  <2>3. r.status # "deleted"
    BY <2>1, <2>2 DEF Exists
  <2>4. /\ KeepsRows
        /\ \A k \in Ids : jobs'[k].status = IF k = j THEN r.status ELSE jobs[k].status
    BY <1>t, <2>1, <2>2, <2>3, RowUpdateKept
  <2>5. KeepsSettled
    BY <2>1, <2>4 DEF KeepsSettled
  <2> QED
    BY <1>t, <2>2, <2>4, <2>5, SameTasks, IInvKept
<1> QED
  BY <1>j, <1>1, <1>2, <1>3, <1>4, IInvEnqueue, IInvDone, IInvFailed DEF TaskStep

(* The invariant holds initially and is kept by every step.                *)
LEMMA IInvInductive ==
    /\ Init => IInv
    /\ IInv /\ [Next]_vars => IInv'
<1>1. Init => IInv
  BY TypeInit DEF Init, IInv, NoGap, DeadIsExhausted, TaskInv, NoTask, Ids
<1>2. ASSUME IInv, [Next]_vars PROVE IInv'
  <2>1. TypeOK'
    BY <1>2, TypeStep DEF IInv
  <2>2. CASE Next
    BY <1>2, <2>1, <2>2, IInvHandlers, IInvDrain, IInvTasks, IInvEnvironment
       DEF Next, CallStep
  <2>3. CASE UNCHANGED vars
    BY <1>2, <2>1, <2>3, SameTable, SameTasks, IInvKept DEF vars, IInv
  <2> QED
    BY <1>2, <2>2, <2>3
<1> QED
  BY <1>1, <1>2

(* No stage is ever done without its successor in the table, for any       *)
(* number of processes, crashes and lapsed leases, and any interleaving of *)
(* drains, re-queued documents and deletions.                              *)
THEOREM NoGapCorrect == Spec => []NoGap
<1>1. IInv => NoGap
  BY DEF IInv
<1> QED
  BY <1>1, IInvInductive, PTL DEF Spec

(* No job is ever buried before it was claimed MaxAttempts times, although *)
(* mark_failed() trusts the snapshot of the row its worker claimed.        *)
THEOREM DeadIsExhaustedCorrect == Spec => []DeadIsExhausted
<1>1. IInv => DeadIsExhausted
  BY DEF IInv
<1> QED
  BY <1>1, IInvInductive, PTL DEF Spec

=============================================================================
