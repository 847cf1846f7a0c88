------------------------ MODULE JobQueueWorkerProofs ------------------------
(***************************************************************************)
(* Proofs about the workers of the job queue when no worker outlives its   *)
(* lease (SlowStages = {}): what recover_stuck_jobs() and the claims rely  *)
(* on.                                                                     *)
(***************************************************************************)
EXTENDS JobQueueProofs

-----------------------------------------------------------------------------
(* The invariant.  OneWorkerPerJob is not inductive: it needs that the row *)
(* of a job at work is claimed and its lease held, or else a drain would   *)
(* recover it or claim it again.  ClaimsBounded needs to know which claims *)
(* are the last ones: a row that is pending, or claimed with no worker,    *)
(* has a claim left.                                                       *)

Worked(j) == \E c \in Calls : Active(c, j)

HeldInv ==
    \A c \in Calls, j \in Ids : Active(c, j) /\ Exists(j) =>
        /\ jobs[j].status = "claimed"
        /\ jobs[j].lease = "held"
        /\ task[c][j].attempts = jobs[j].attempts

\* A call waits for its tasks, or has none.
Waits(c) == call[c].pc \in {"gather", "aborted"}

RestInv == \A c \in Calls, j \in Ids : Active(c, j) => Waits(c)

Left == MaxAttempts + crashes

CountInv ==
    \A j \in Ids :
        /\ jobs[j].attempts <= Left
        /\ jobs[j].status = "pending" => jobs[j].attempts < Left
        /\ jobs[j].status = "claimed" /\ ~Worked(j) => jobs[j].attempts < Left

WInv == TypeOK /\ OneWorkerPerJob /\ HeldInv /\ RestInv /\ CountInv

(* What a step makes of the rows that are done.                            *)
DoneStays == \A j \in Ids : jobs[j].status = "done" => jobs'[j].status \in {"done", "deleted"}

(* There is always a claim left for a new row.                             *)
LEMMA LeftType ==
    /\ TypeOK => Left \in Nat /\ Left > 0
    /\ TypeOK' => Left' \in Nat /\ Left' > 0
<1>1. MaxAttempts \in Nat /\ MaxAttempts > 0
  BY ConstantsAssumption
<1>2. (TypeOK => crashes \in Nat) /\ (TypeOK' => crashes' \in Nat)
  BY DEF TypeOK
<1> QED
  BY <1>1, <1>2 DEF Left

(* Only a row that is there can be worked on.                              *)
LEMMA ActiveIds ==
    ASSUME TypeOK, NEW c \in Calls, NEW j, Active(c, j)
    PROVE  j \in Ids /\ j \in DOMAIN task[c]
BY DEF TypeOK, Active

-----------------------------------------------------------------------------
(* Steps that neither start nor finish a task. *)

SameHands ==
    \A c \in Calls : \A j :
        /\ Active(c, j)' <=> Active(c, j)
        /\ Active(c, j) => task'[c][j].attempts = task[c][j].attempts

Unchanged(j) ==
    /\ jobs'[j].status = jobs[j].status /\ jobs'[j].attempts = jobs[j].attempts
    /\ Worked(j) /\ jobs[j].lease = "held" => jobs'[j].lease = "held"

Removed(j) == jobs'[j].status = "deleted" /\ jobs'[j].attempts = 0

Recovered(j) ==
    /\ jobs[j].status = "claimed" /\ ~Worked(j)
    /\ jobs'[j].status = "pending" /\ jobs'[j].attempts = jobs[j].attempts

SameRows ==
    /\ Ids \subseteq Ids'
    /\ \A j \in Ids : Unchanged(j) \/ Removed(j) \/ Recovered(j)
    /\ \A j \in Ids' \ Ids : jobs'[j].status = "pending" /\ jobs'[j].attempts = 0

(* The invariant through such a step.                                      *)
LEMMA HandsKept ==
    ASSUME WInv, TypeOK', SameHands, SameRows, UNCHANGED crashes,
           \A c \in Calls, j \in Ids : Active(c, j) => Waits(c)'
    PROVE  WInv' /\ DoneStays
<1>t. TypeOK
  BY DEF WInv
<1>1. OneWorkerPerJob'
  <2> SUFFICES ASSUME NEW c1 \in Calls, NEW c2 \in Calls, NEW j \in Ids',
                      Active(c1, j)', Active(c2, j)'
               PROVE  c1 = c2
    BY DEF OneWorkerPerJob
  <2>1. Active(c1, j) /\ Active(c2, j)
    BY DEF SameHands
  <2> QED
    BY <1>t, <2>1, ActiveIds DEF WInv, OneWorkerPerJob
<1>2. HeldInv'
  <2> SUFFICES ASSUME NEW c \in Calls, NEW j \in Ids', Active(c, j)', Exists(j)'
               PROVE  /\ jobs'[j].status = "claimed" /\ jobs'[j].lease = "held"
                      /\ task'[c][j].attempts = jobs'[j].attempts
    BY DEF HeldInv
  <2>1. Active(c, j) /\ task'[c][j].attempts = task[c][j].attempts
    BY DEF SameHands
  <2>2. j \in Ids /\ Worked(j)
    BY <1>t, <2>1, ActiveIds DEF Worked
  <2>3. Unchanged(j)
    BY <2>2 DEF SameRows, Removed, Recovered, Exists
  <2>4. Exists(j)
    BY <2>3 DEF Unchanged, Exists
  <2> QED
    BY <2>1, <2>2, <2>3, <2>4 DEF WInv, HeldInv, Unchanged
<1>3. RestInv'
  <2> SUFFICES ASSUME NEW c \in Calls, NEW j \in Ids', Active(c, j)'
               PROVE  Waits(c)'
    BY DEF RestInv
  <2>1. Active(c, j)
    BY DEF SameHands
  <2> QED
    BY <1>t, <2>1, ActiveIds
<1>4. CountInv'
  <2>1. Left' = Left /\ Left \in Nat /\ Left > 0
    BY <1>t, LeftType DEF Left
  <2>2. \A j : Worked(j)' <=> Worked(j)
    BY DEF SameHands, Worked
  <2> SUFFICES ASSUME NEW j \in Ids'
               PROVE  /\ jobs'[j].attempts <= Left
                      /\ jobs'[j].status = "pending" => jobs'[j].attempts < Left
                      /\ jobs'[j].status = "claimed" /\ ~Worked(j) => jobs'[j].attempts < Left
    BY <2>1, <2>2 DEF CountInv
  <2>3. CASE j \notin Ids
    BY <2>1, <2>3 DEF SameRows
  <2>4. CASE j \in Ids /\ Removed(j)
    BY <2>1, <2>4 DEF Removed
  <2>5. CASE j \in Ids /\ Unchanged(j)
    BY <2>1, <2>5 DEF WInv, CountInv, Unchanged
  <2>6. CASE j \in Ids /\ Recovered(j)
    BY <2>1, <2>6 DEF WInv, CountInv, Recovered
  <2> QED
    BY <2>3, <2>4, <2>5, <2>6 DEF SameRows
<1>5. DoneStays
  BY DEF DoneStays, SameRows, Unchanged, Removed, Recovered
<1> QED
  BY <1>1, <1>2, <1>3, <1>4, <1>5 DEF WInv

-----------------------------------------------------------------------------
(* A task that finishes. *)

(* The invariant through a step that finishes the task of job j.           *)
LEMMA FinishKept ==
    ASSUME WInv, TypeOK', NEW c \in Calls, NEW j, Active(c, j), TaskGoto(c, j, "finished"),
           Ids' = Ids, UNCHANGED crashes,
           \A e \in Calls : Waits(e) => Waits(e)',
           \A k \in Ids \ {j} : jobs'[k] = jobs[k],
           jobs'[j].attempts = jobs[j].attempts,
           \/ jobs'[j].status \in {"done", "dead", "deleted"}
           \/ Exists(j) /\ jobs'[j].attempts < MaxAttempts
    PROVE  WInv' /\ DoneStays
<1>t. TypeOK /\ TasksOK /\ j \in Ids /\ j \in DOMAIN task[c] /\ "finished" \in TaskPc
  <2>1. TypeOK
    BY DEF WInv
  <2> QED
    BY <2>1, ActiveIds, TypeParts DEF TaskPc
<1>1. /\ \A e \in Calls, k \in Ids : Active(e, k)' <=> Active(e, k) /\ ~(e = c /\ k = j)
      /\ \A e \in Calls, k \in Ids : Active(e, k)' => task'[e][k].attempts = task[e][k].attempts
  <2>1. \A e \in Calls : /\ DOMAIN task'[e] = DOMAIN task[e]
                         /\ \A k \in DOMAIN task[e] :
                              task'[e][k] = IF e = c /\ k = j
                                            THEN [pc |-> "finished",
                                                  attempts |-> task[c][j].attempts]
                                            ELSE task[e][k]
    BY <1>t, TaskGotoEffect
  <2> QED
    BY <2>1 DEF Active
<1>2. OneWorkerPerJob'
  <2> SUFFICES ASSUME NEW c1 \in Calls, NEW c2 \in Calls, NEW k \in Ids,
                      Active(c1, k)', Active(c2, k)'
               PROVE  c1 = c2
    BY DEF OneWorkerPerJob
  <2>1. Active(c1, k) /\ Active(c2, k)
    BY <1>1
  <2> QED
    BY <2>1 DEF WInv, OneWorkerPerJob
<1>3. \A e \in Calls : ~Active(e, j)'
  BY <1>1, <1>t DEF WInv, OneWorkerPerJob
<1>4. HeldInv'
  <2> SUFFICES ASSUME NEW e \in Calls, NEW k \in Ids, Active(e, k)', Exists(k)'
               PROVE  /\ jobs'[k].status = "claimed" /\ jobs'[k].lease = "held"
                      /\ task'[e][k].attempts = jobs'[k].attempts
    BY DEF HeldInv
  <2>1. k # j /\ jobs'[k] = jobs[k]
    BY <1>3
  <2>2. Active(e, k) /\ Exists(k) /\ task'[e][k].attempts = task[e][k].attempts
    BY <1>1, <2>1 DEF Exists
  <2> QED
    BY <2>1, <2>2 DEF WInv, HeldInv
<1>5. RestInv'
  BY <1>1 DEF WInv, RestInv
<1>6. CountInv'
  <2>1. Left' = Left /\ Left \in Nat /\ Left >= MaxAttempts /\ MaxAttempts \in Nat
    <3>1. crashes \in Nat /\ MaxAttempts \in Nat
      BY <1>t, ConstantsAssumption DEF TypeOK
    <3> QED
      BY <3>1 DEF Left
  <2>2. \A k \in Ids \ {j} : Worked(k)' <=> Worked(k)
    BY <1>1 DEF Worked
  <2> SUFFICES ASSUME NEW k \in Ids
               PROVE  /\ jobs'[k].attempts <= Left
                      /\ jobs'[k].status = "pending" => jobs'[k].attempts < Left
                      /\ jobs'[k].status = "claimed" /\ ~Worked(k)' => jobs'[k].attempts < Left
    BY <2>1 DEF CountInv
  <2>3. CASE k # j
    BY <2>2, <2>3 DEF WInv, CountInv
  <2>4. CASE k = j /\ jobs'[j].status \in {"done", "dead", "deleted"}
    BY <2>4 DEF WInv, CountInv
  <2>5. CASE k = j /\ jobs'[j].attempts < MaxAttempts
    <3>1. jobs'[j].attempts \in Nat
      BY <1>t, AttemptsAreNumbers
    <3> QED
      BY <2>1, <2>5, <3>1
  <2> QED
    BY <2>3, <2>4, <2>5
<1>7. DoneStays
  <2>1. jobs[j].status # "done"
    BY <1>t DEF WInv, HeldInv, Exists
  <2> QED
    BY <2>1 DEF DoneStays
<1> QED
  BY <1>2, <1>4, <1>5, <1>6, <1>7 DEF WInv

-----------------------------------------------------------------------------
(* The steps of the system. *)

(* A step that leaves the table alone keeps the rows.                      *)
LEMMA TableKept ==
    ASSUME jobs' = jobs
    PROVE  SameRows
BY DEF SameRows, Unchanged, Ids

(* A step that leaves the tasks alone keeps the hands.                     *)
LEMMA TasksUntouched ==
    ASSUME task' = task
    PROVE  SameHands
BY DEF SameHands, Active

(* A step that forgets the tasks of a call when all of them have finished. *)
LEMMA TasksForgotten ==
    ASSUME TypeOK, NEW c \in Calls, AllFinished(c), task' = [task EXCEPT ![c] = NoTask]
    PROVE  SameHands
<1>1. DOMAIN task = Calls /\ DOMAIN NoTask = {}
  BY NoTaskType DEF TypeOK
<1>2. task'[c] = NoTask /\ \A e \in Calls \ {c} : task'[e] = task[e]
  BY <1>1
<1>3. \A j : ~Active(c, j) /\ ~Active(c, j)'
  BY <1>1, <1>2 DEF AllFinished, Active
<1> QED
  BY <1>2, <1>3 DEF SameHands, Active

(* A task that goes on to another place than its end.                      *)
LEMMA TaskGoesOn ==
    ASSUME TypeOK, NEW c \in Calls, NEW j, Active(c, j),
           NEW pc \in TaskPc, pc # "finished", TaskGoto(c, j, pc)
    PROVE  SameHands
<1>1. TasksOK /\ j \in DOMAIN task[c]
  BY ActiveIds, TypeParts
<1>2. \A e \in Calls : /\ DOMAIN task'[e] = DOMAIN task[e]
                       /\ \A k \in DOMAIN task[e] :
                            task'[e][k] = IF e = c /\ k = j
                                          THEN [pc |-> pc, attempts |-> task[c][j].attempts]
                                          ELSE task[e][k]
  BY <1>1, TaskGotoEffect
<1> QED
  BY <1>2 DEF SameHands, Active

(* Deleting the rows of a document.                                        *)
LEMMA DeletedRowsKept ==
    ASSUME TypeOK, NEW d \in Docs, jobs' = RowsDeleted(d)
    PROVE  SameRows
<1>1. \A r \in Row :
         LET n == [r EXCEPT !.status = "deleted", !.attempts = 0, !.lease = "none", !.due = TRUE]
         IN  n.status = "deleted" /\ n.attempts = 0
  BY DEF Row
<1>2. \A j \in Ids : jobs[j] \in Row
  BY TableType DEF TypeOK
<1>3. Ids' = Ids /\ \A j \in Ids : jobs'[j] = jobs[j] \/ Removed(j)
  <2> DEFINE gone(r) == [r EXCEPT !.status = "deleted", !.attempts = 0, !.lease = "none",
                                  !.due = TRUE]
  <2>1. jobs' = [j \in Ids |-> IF jobs[j].doc = d THEN gone(jobs[j]) ELSE jobs[j]]
    BY DEF RowsDeleted
  <2>2. \A r \in Row : gone(r).status = "deleted" /\ gone(r).attempts = 0
    BY <1>1
  <2> HIDE DEF gone
  <2>3. DOMAIN jobs' = Ids
    BY <2>1
  <2> QED
    BY <1>2, <2>1, <2>2, <2>3 DEF Removed, Ids
<1> QED
  BY <1>3 DEF SameRows, Unchanged

(* Enqueuing a stage.                                                      *)
LEMMA InsertedRowsKept ==
    ASSUME TypeOK, NEW d \in Docs, NEW s \in Stages, jobs' = Inserted(d, s)
    PROVE  SameRows
<1>1. /\ Ids \subseteq Ids'
      /\ \A k \in Ids : jobs'[k] = jobs[k]
      /\ \A k \in Ids' \ Ids : jobs'[k] = [doc |-> d, stage |-> s, status |-> "pending",
                                           attempts |-> 0, lease |-> "none", due |-> TRUE]
  BY InsertedTable DEF TypeOK, Ids
<1>2. \A k \in Ids' \ Ids : jobs'[k].status = "pending" /\ jobs'[k].attempts = 0
  BY <1>1
<1> QED
  BY <1>1, <1>2 DEF SameRows, Unchanged

(* Writing another lease or backoff into the row j.                        *)
LEMMA OneRowKept ==
    ASSUME TypeOK, NEW j \in Ids, NEW r \in Row, jobs' = [jobs EXCEPT ![j] = r],
           r.status = jobs[j].status, r.attempts = jobs[j].attempts,
           r.lease = jobs[j].lease \/ r.lease = "held" \/ ~Worked(j)
    PROVE  SameRows
<1>1. Ids' = Ids /\ \A k \in Ids : jobs'[k] = IF k = j THEN r ELSE jobs[k]
  BY TableUpdate DEF TypeOK, Ids
<1> QED
  BY <1>1 DEF SameRows, Unchanged

(* The recovery at the head of a drain takes no job out of a worker's      *)
(* hands: a lapsed lease has no worker.                                    *)
LEMMA RecoveredRowsKept ==
    ASSUME WInv, NEW c \in Calls, RecoverStuckJobs(c)
    PROVE  SameRows
<1>1. \A j \in Ids : jobs[j] \in Row
  BY TableType DEF WInv, TypeOK
<1> DEFINE rec(r) == [r EXCEPT !.status = "pending", !.lease = "none"]
<1>2. \A r \in Row : rec(r).status = "pending" /\ rec(r).attempts = r.attempts
  BY DEF Row
<1>3. jobs' = [j \in Ids |-> IF jobs[j].status = "claimed" /\ jobs[j].lease = "lapsed"
                             THEN rec(jobs[j]) ELSE jobs[j]]
  BY DEF RecoverStuckJobs
<1> HIDE DEF rec
<1>4. DOMAIN jobs' = Ids
  BY <1>3
<1>5. \A j \in Ids : jobs[j].status = "claimed" /\ jobs[j].lease = "lapsed" => ~Worked(j)
  BY DEF WInv, HeldInv, Worked, Exists
<1>6. \A j \in Ids : Unchanged(j) \/ Recovered(j)
  BY <1>1, <1>2, <1>3, <1>5 DEF Unchanged, Recovered
<1> QED
  BY <1>4, <1>6 DEF SameRows, Ids

(* No call that goes on stops waiting for its tasks.                       *)
LEMMA WaitsOn ==
    ASSUME TypeOK, RestInv, NEW c \in Calls, \A e \in Calls \ {c} : call'[e] = call[e],
           ~Waits(c) \/ Waits(c)' \/ AllFinished(c)
    PROVE  \A e \in Calls, j \in Ids : Active(e, j) => Waits(e)'
<1> SUFFICES ASSUME NEW e \in Calls, NEW j \in Ids, Active(e, j) PROVE Waits(e)'
  OBVIOUS
<1>1. Waits(e)
  BY DEF RestInv
<1>2. CASE e # c
  BY <1>1, <1>2 DEF Waits
<1>3. CASE e = c
  BY <1>1, <1>3 DEF AllFinished, Active
<1> QED
  BY <1>2, <1>3

-----------------------------------------------------------------------------
(* The steps that start or lose tasks. *)

(* A claim starts tasks of rows that no call works on: a row at work is    *)
(* claimed, and the rows a drain claims are pending.                       *)
LEMMA WClaim ==
    ASSUME WInv, TypeOK', NEW c \in Calls, Claim(c)
    PROVE  WInv' /\ DoneStays
<1>t. TypeOK /\ DOMAIN task = Calls /\ call \in [Calls -> CallRecord]
  BY TypeParts DEF WInv, TasksOK
<1> DEFINE cl(r) == [r EXCEPT !.status = "claimed", !.lease = "held", !.attempts = r.attempts + 1]
           f == [j \in Claimable |-> [pc |-> "start", attempts |-> jobs[j].attempts + 1]]
<1>1. /\ Ids' = Ids
      /\ \A j \in Ids \ Claimable : jobs'[j] = jobs[j]
      /\ \A j \in Claimable : /\ j \in Ids /\ jobs[j].status = "pending"
                              /\ jobs'[j].status = "claimed" /\ jobs'[j].lease = "held"
                              /\ jobs'[j].attempts = jobs[j].attempts + 1
  <2>1. \A r \in Row : /\ cl(r).status = "claimed" /\ cl(r).lease = "held"
                       /\ cl(r).attempts = r.attempts + 1
    BY DEF Row
  <2>2. jobs' = [j \in Ids |-> IF j \in Claimable THEN cl(jobs[j]) ELSE jobs[j]]
    BY DEF Claim
  <2>3. \A j \in Ids : jobs[j] \in Row
    BY <1>t, TableType DEF TypeOK
  <2>4. \A j \in Claimable : j \in Ids /\ jobs[j].status = "pending"
    BY DEF Claimable
  <2> HIDE DEF cl
  <2>5. DOMAIN jobs' = Ids
    BY <2>2
  <2> QED
    BY <2>1, <2>2, <2>3, <2>4, <2>5 DEF Ids
<1>2. /\ \A j : Active(c, j)' <=> j \in Claimable
      /\ \A j \in Claimable : task'[c][j].attempts = jobs'[j].attempts
      /\ \A e \in Calls \ {c} : task'[e] = task[e]
  <2>1. task' = [task EXCEPT ![c] = f]
    BY DEF Claim
  <2>2. task'[c] = f /\ \A e \in Calls \ {c} : task'[e] = task[e]
    BY <1>t, <2>1
  <2>3. \A j \in Claimable : f[j].pc = "start" /\ f[j].attempts = jobs[j].attempts + 1
    OBVIOUS
  <2>4. DOMAIN f = Claimable
    OBVIOUS
  <2> HIDE DEF f
  <2> QED
    BY <1>1, <2>2, <2>3, <2>4 DEF Active
<1>3. \A j \in Ids : ~Active(c, j)
  BY DEF WInv, RestInv, Waits, Claim
<1>4. \A e \in Calls, j \in Ids : Active(e, j) => j \notin Claimable
  BY <1>1 DEF WInv, HeldInv, Exists
<1>5. \A e \in Calls \ {c}, j \in Ids : /\ Active(e, j)' <=> Active(e, j)
                                        /\ task'[e][j] = task[e][j]
  BY <1>2 DEF Active
<1>6. OneWorkerPerJob'
  <2> SUFFICES ASSUME NEW c1 \in Calls, NEW c2 \in Calls, NEW j \in Ids,
                      Active(c1, j)', Active(c2, j)'
               PROVE  c1 = c2
    BY <1>1 DEF OneWorkerPerJob
  <2>1. CASE c1 # c /\ c2 # c
    BY <1>5, <2>1 DEF WInv, OneWorkerPerJob
  <2>2. CASE c1 = c \/ c2 = c
    BY <1>2, <1>4, <1>5, <2>2
  <2> QED
    BY <2>1, <2>2
<1>7. HeldInv'
  <2> SUFFICES ASSUME NEW e \in Calls, NEW j \in Ids, Active(e, j)', Exists(j)'
               PROVE  /\ jobs'[j].status = "claimed" /\ jobs'[j].lease = "held"
                      /\ task'[e][j].attempts = jobs'[j].attempts
    BY <1>1 DEF HeldInv
  <2>1. CASE e = c
    BY <1>1, <1>2, <2>1
  <2>2. CASE e # c
    <3>1. Active(e, j) /\ jobs'[j] = jobs[j] /\ task'[e][j] = task[e][j]
      BY <1>1, <1>4, <1>5, <2>2
    <3> QED
      BY <3>1 DEF WInv, HeldInv, Exists
  <2> QED
    BY <2>1, <2>2
<1>8. RestInv'
  <2> SUFFICES ASSUME NEW e \in Calls, NEW j \in Ids, Active(e, j)' PROVE Waits(e)'
    BY <1>1 DEF RestInv
  <2>1. CASE e = c
    <3>1. Claimable # {}
      BY <1>2, <2>1
    <3>2. call'[c].pc = "gather"
      BY <1>t, <3>1 DEF Claim, Goto, CallRecord
    <3> QED
      BY <2>1, <3>2 DEF Waits
  <2>2. CASE e # c
    <3>1. call'[e] = call[e]
      BY <1>t, <2>2 DEF Claim, Goto
    <3> QED
      BY <1>5, <2>2, <3>1 DEF WInv, RestInv, Waits
  <2> QED
    BY <2>1, <2>2
<1>9. CountInv'
  <2>1. Left' = Left /\ Left \in Nat
    BY <1>t, LeftType DEF Left, Claim
  <2>2. \A j \in Ids : jobs[j].attempts \in Nat
    BY <1>t, AttemptsAreNumbers
  <2> SUFFICES ASSUME NEW j \in Ids
               PROVE  /\ jobs'[j].attempts <= Left
                      /\ jobs'[j].status = "pending" => jobs'[j].attempts < Left
                      /\ jobs'[j].status = "claimed" /\ ~Worked(j)' => jobs'[j].attempts < Left
    BY <1>1, <2>1 DEF CountInv
  <2>3. CASE j \in Claimable
    <3>1. Worked(j)' /\ jobs'[j].status = "claimed"
      BY <1>1, <1>2, <2>3 DEF Worked
    <3>2. jobs[j].attempts < Left /\ jobs'[j].attempts = jobs[j].attempts + 1
      BY <1>1, <2>3 DEF WInv, CountInv
    <3> QED
      BY <2>1, <2>2, <3>1, <3>2
  <2>4. CASE j \notin Claimable
    <3>1. Worked(j) => Worked(j)'
      BY <1>3, <1>5 DEF Worked
    <3> QED
      BY <1>1, <2>4, <3>1 DEF WInv, CountInv
  <2> QED
    BY <2>3, <2>4
<1>10. DoneStays
  BY <1>1 DEF DoneStays
<1> QED
  BY <1>6, <1>7, <1>8, <1>9, <1>10 DEF WInv

(* A crash only takes tasks away, and grants every job one more claim.     *)
LEMMA WCrash ==
    ASSUME WInv, TypeOK', NEW p \in Procs, Crash(p)
    PROVE  WInv' /\ DoneStays
<1>t. TypeOK /\ DOMAIN task = Calls /\ jobs' = jobs /\ Ids' = Ids
  BY DEF WInv, TypeOK, Crash, Ids
<1>1. \A e \in Calls : \A j : Active(e, j)' =>
         Active(e, j) /\ task'[e] = task[e] /\ call'[e] = call[e]
  BY NoTaskType DEF Crash, Active
<1>2. OneWorkerPerJob' /\ HeldInv' /\ RestInv'
  BY <1>t, <1>1 DEF WInv, OneWorkerPerJob, HeldInv, RestInv, Waits, Exists
<1>3. CountInv'
  <2>1. Left \in Nat /\ Left' = Left + 1
    <3>1. MaxAttempts \in Nat /\ crashes \in Nat /\ crashes' = crashes + 1
      BY <1>t, ConstantsAssumption DEF TypeOK, Crash
    <3> QED
      BY <3>1 DEF Left
  <2>2. \A j \in Ids : jobs[j].attempts \in Nat /\ jobs[j].attempts <= Left
    BY <1>t, AttemptsAreNumbers DEF WInv, CountInv
  <2>3. \A j \in Ids : jobs'[j].attempts < Left'
    BY <1>t, <2>1, <2>2
  <2>4. \A j \in Ids : jobs'[j].attempts <= Left'
    BY <1>t, <2>1, <2>2
  <2> QED
    BY <1>t, <2>3, <2>4 DEF CountInv
<1>4. DoneStays
  BY <1>t DEF DoneStays
<1> QED
  BY <1>2, <1>3, <1>4 DEF WInv

-----------------------------------------------------------------------------
(* The invariant through every step. *)

(* Deleting a document.                                                    *)
LEMMA WDelete ==
    ASSUME WInv, TypeOK', NEW d \in Docs, DocumentDelete(d)
    PROVE  WInv' /\ DoneStays
<1>1. SameRows /\ SameHands
  BY DeletedRowsKept, TasksUntouched DEF WInv, DocumentDelete
<1>2. UNCHANGED crashes /\ \A e \in Calls, j \in Ids : Active(e, j) => Waits(e)'
  BY DEF DocumentDelete, WInv, RestInv, Waits
<1> QED
  BY <1>1, <1>2, HandsKept

(* Finding no LLM key touches no row.                                      *)
LEMMA WWithoutKey ==
    ASSUME WInv, TypeOK', NEW d \in Docs, ProcessWithoutKey(d)
    PROVE  WInv' /\ DoneStays
<1>1. SameRows /\ SameHands
  BY TableKept, TasksUntouched DEF WInv, ProcessWithoutKey
<1>2. UNCHANGED crashes /\ \A e \in Calls, j \in Ids : Active(e, j) => Waits(e)'
  BY DEF ProcessWithoutKey, WInv, RestInv, Waits
<1> QED
  BY <1>1, <1>2, HandsKept

(* Queuing a document.                                                     *)
LEMMA WProcess ==
    ASSUME WInv, TypeOK', NEW c \in Calls,
           (\E d \in Docs : ProcessDelete(c, d)) \/ ProcessEnqueue(c) \/ ProcessSetQueued(c)
    PROVE  WInv' /\ DoneStays
<1>t. TypeOK /\ RestInv /\ DOMAIN call = Calls /\ call[c].todo \subseteq Docs
  <2>1. TypeOK
    BY DEF WInv
  <2> QED
    BY <2>1 DEF WInv, TypeOK
<1>1. SameHands /\ UNCHANGED crashes
  <2>1. task' = task /\ crashes' = crashes
    BY DEF ProcessDelete, ProcessEnqueue, ProcessSetQueued
  <2> QED
    BY <2>1, TasksUntouched
<1>2. SameRows
  <2>1. CASE \E d \in Docs : ProcessDelete(c, d)
    BY <1>t, <2>1, DeletedRowsKept DEF ProcessDelete
  <2>2. CASE ProcessEnqueue(c)
    <3>1. "ingest" \in Stages
      BY DEF Stages
    <3>2. jobs' = jobs \/ \E d \in Docs : jobs' = Inserted(d, "ingest")
      BY <1>t, <2>2 DEF ProcessEnqueue
    <3> QED
      BY <1>t, <3>1, <3>2, TableKept, InsertedRowsKept
  <2>3. CASE ProcessSetQueued(c)
    BY <2>3, TableKept DEF ProcessSetQueued
  <2> QED
    BY <2>1, <2>2, <2>3
<1>3. /\ ~Waits(c)
      /\ \A e \in Calls \ {c} : call'[e] = call[e]
  BY <1>t DEF ProcessDelete, ProcessEnqueue, ProcessSetQueued, Goto, Waits
<1>4. \A e \in Calls, j \in Ids : Active(e, j) => Waits(e)'
  BY <1>t, <1>3, WaitsOn
<1> QED
  BY <1>1, <1>2, <1>4, HandsKept

(* The steps of drain_once() but the claim.                                *)
LEMMA WDrain ==
    ASSUME WInv, TypeOK', NEW c \in Calls,
           \/ StartDrain(c) \/ KickDrain(c) \/ GatherReturns(c)
           \/ DeriveRead(c) \/ DeriveWrite(c) \/ BudgetSpent(c) \/ AbortedDrainEnds(c)
    PROVE  WInv' /\ DoneStays
<1>t. TypeOK /\ RestInv /\ DOMAIN call = Calls
  BY DEF WInv, TypeOK
<1>0. UNCHANGED crashes /\ \A e \in Calls \ {c} : call'[e] = call[e]
  <2>1. crashes' = crashes
    BY DEF StartDrain, KickDrain, RecoverStuckJobs, GatherReturns, DeriveRead, DeriveWrite,
           BudgetSpent, AbortedDrainEnds
  <2>2. CASE StartDrain(c) \/ KickDrain(c) \/ AbortedDrainEnds(c)
    BY <1>t, <2>2 DEF StartDrain, KickDrain, RecoverStuckJobs, AbortedDrainEnds, Goto
  <2>3. CASE GatherReturns(c) \/ BudgetSpent(c)
    BY <1>t, <2>3 DEF GatherReturns, BudgetSpent
  <2>4. CASE DeriveRead(c) \/ DeriveWrite(c)
    BY <1>t, <2>4 DEF DeriveRead, DeriveWrite
  <2> QED
    BY <2>1, <2>2, <2>3, <2>4
<1>1. CASE StartDrain(c) \/ KickDrain(c)
  <2>1. RecoverStuckJobs(c) /\ task' = task /\ ~Waits(c)
    BY <1>1 DEF StartDrain, KickDrain, RecoverStuckJobs, Waits
  <2>2. SameRows /\ SameHands
    BY <2>1, RecoveredRowsKept, TasksUntouched
  <2>3. \A e \in Calls, j \in Ids : Active(e, j) => Waits(e)'
    BY <1>t, <1>0, <2>1, WaitsOn
  <2> QED
    BY <1>0, <2>2, <2>3, HandsKept
<1>2. CASE GatherReturns(c) \/ AbortedDrainEnds(c)
  <2>1. jobs' = jobs /\ AllFinished(c) /\ task' = [task EXCEPT ![c] = NoTask]
    BY <1>2 DEF GatherReturns, AbortedDrainEnds
  <2>2. SameRows /\ SameHands
    BY <1>t, <2>1, TableKept, TasksForgotten
  <2>3. \A e \in Calls, j \in Ids : Active(e, j) => Waits(e)'
    BY <1>t, <1>0, <2>1, WaitsOn
  <2> QED
    BY <1>0, <2>2, <2>3, HandsKept
<1>3. CASE DeriveRead(c) \/ DeriveWrite(c) \/ BudgetSpent(c)
  <2>1. jobs' = jobs /\ task' = task /\ ~Waits(c)
    BY <1>3 DEF DeriveRead, DeriveWrite, BudgetSpent, Waits
  <2>2. SameRows /\ SameHands
    BY <2>1, TableKept, TasksUntouched
  <2>3. \A e \in Calls, j \in Ids : Active(e, j) => Waits(e)'
    BY <1>t, <1>0, <2>1, WaitsOn
  <2> QED
    BY <1>0, <2>2, <2>3, HandsKept
<1> QED
  BY <1>1, <1>2, <1>3

(* The steps of _run_one() that go on, and the heartbeat.                  *)
LEMMA WTasks ==
    ASSUME WInv, TypeOK', NEW c \in Calls, NEW j,
           \/ TaskStart(c, j) \/ TaskEnds(c, j) \/ EnqueueSuccessors(c, j) \/ Heartbeat(c, j)
    PROVE  WInv' /\ DoneStays
<1>t. TypeOK /\ RestInv
  BY DEF WInv
<1>j. Active(c, j) /\ j \in Ids /\ jobs[j] \in Row
  <2>1. Active(c, j)
    BY DEF TaskStart, TaskEnds, EnqueueSuccessors, Heartbeat
  <2> QED
    BY <1>t, <2>1, ActiveIds, TableType DEF TypeOK
<1>0. call' = call /\ crashes' = crashes
  BY DEF TaskStart, TaskEnds, EnqueueSuccessors, Heartbeat
<1>1. \A e \in Calls, k \in Ids : Active(e, k) => Waits(e)'
  BY <1>t, <1>0 DEF RestInv, Waits
<1>2. SameHands
  <2>1. CASE Heartbeat(c, j)
    BY <2>1, TasksUntouched DEF Heartbeat
  <2>2. CASE TaskStart(c, j) \/ TaskEnds(c, j) \/ EnqueueSuccessors(c, j)
    <3>1. {"running", "enqueue", "mark_done", "mark_failed"} \subseteq TaskPc \ {"finished"}
      BY DEF TaskPc
    <3>2. \E pc \in {"running", "enqueue", "mark_done", "mark_failed"} : TaskGoto(c, j, pc)
      BY <2>2 DEF TaskStart, TaskEnds, EnqueueSuccessors
    <3> QED
      BY <1>t, <1>j, <3>1, <3>2, TaskGoesOn
  <2> QED
    BY <2>1, <2>2
<1>3. SameRows
  <2>1. CASE jobs' = jobs
    BY <2>1, TableKept
  <2>2. CASE EnqueueSuccessors(c, j) /\ jobs' # jobs
    <3>1. /\ jobs[j].stage # "generate"
          /\ jobs' = Inserted(jobs[j].doc, Successor[jobs[j].stage])
      BY <2>2 DEF EnqueueSuccessors
    <3>2. jobs[j].doc \in Docs /\ Successor[jobs[j].stage] \in Stages
      BY <1>j, <3>1 DEF Row, Stages, Successor
    <3> QED
      BY <1>t, <3>1, <3>2, InsertedRowsKept
  <2>3. CASE Heartbeat(c, j)
    <3> DEFINE r == [jobs[j] EXCEPT !.lease = "held"]
    <3>1. /\ r \in Row /\ r.status = jobs[j].status /\ r.attempts = jobs[j].attempts
          /\ r.lease = "held"
      BY <1>j DEF Row
    <3>2. jobs' = [jobs EXCEPT ![j] = r]
      BY <2>3 DEF Heartbeat
    <3> HIDE DEF r
    <3> QED
      BY <1>t, <1>j, <3>1, <3>2, OneRowKept
  <2> QED
    BY <2>1, <2>2, <2>3 DEF TaskStart, TaskEnds
<1> QED
  BY <1>0, <1>1, <1>2, <1>3, HandsKept

(* The steps that end a task: the worker still holds the row, so what it   *)
(* writes is about its own claim.                                          *)
LEMMA WEnds ==
    ASSUME WInv, TypeOK', NEW c \in Calls, NEW j,
           MarkDone(c, j) \/ MarkFailed(c, j) \/ MarkFailedRaises(c, j)
    PROVE  WInv' /\ DoneStays
<1>t. TypeOK /\ DOMAIN call = Calls /\ call \in [Calls -> CallRecord]
  BY TypeParts DEF WInv, TypeOK
<1>j. Active(c, j) /\ j \in Ids /\ jobs[j] \in Row
  <2>1. Active(c, j)
    BY DEF MarkDone, MarkFailed, MarkFailedRaises
  <2> QED
    BY <1>t, <2>1, ActiveIds, TableType DEF TypeOK
<1>h. /\ Exists(j) => task[c][j].attempts = jobs[j].attempts
      /\ jobs[j].attempts \in Nat /\ MaxAttempts \in Nat
  BY <1>t, <1>j, AttemptsAreNumbers, ConstantsAssumption DEF WInv, HeldInv
<1>0. TaskGoto(c, j, "finished") /\ crashes' = crashes
  BY DEF MarkDone, MarkFailed, MarkFailedRaises
<1>1. CASE MarkDone(c, j)
  <2> DEFINE r == [jobs[j] EXCEPT !.status = "done"]
  <2>1. r \in Row /\ r.status = "done" /\ r.attempts = jobs[j].attempts
    BY <1>j DEF Row, RowStatus
  <2>2. jobs' = IF Exists(j) THEN [jobs EXCEPT ![j] = r] ELSE jobs
    BY <1>1 DEF MarkDone
  <2> HIDE DEF r
  <2>3. /\ Ids' = Ids /\ \A k \in Ids \ {j} : jobs'[k] = jobs[k]
        /\ jobs'[j].attempts = jobs[j].attempts
        /\ jobs'[j].status \in {"done", "deleted"}
    BY <1>t, <1>j, <2>1, <2>2, TableUpdate DEF TypeOK, Ids, Exists
  <2>4. \A e \in Calls : Waits(e) => Waits(e)'
    BY <1>1 DEF MarkDone, Waits
  <2> QED
    BY <1>j, <1>0, <2>3, <2>4, FinishKept
<1>2. CASE MarkFailed(c, j)
  <2> DEFINE dead == [jobs[j] EXCEPT !.status = "dead", !.lease = "none", !.due = TRUE]
             again == [jobs[j] EXCEPT !.status = "pending", !.lease = "none", !.due = FALSE]
  <2>1. /\ dead \in Row /\ dead.status = "dead" /\ dead.attempts = jobs[j].attempts
        /\ again \in Row /\ again.status = "pending" /\ again.attempts = jobs[j].attempts
    BY <1>j DEF Row, RowStatus
  <2>2. jobs' = IF Exists(j)
                THEN [jobs EXCEPT ![j] = IF task[c][j].attempts >= MaxAttempts
                                         THEN dead ELSE again]
                ELSE jobs
    BY <1>2 DEF MarkFailed
  <2> HIDE DEF dead, again
  <2>3. /\ Ids' = Ids /\ \A k \in Ids \ {j} : jobs'[k] = jobs[k]
        /\ jobs'[j].attempts = jobs[j].attempts
        /\ \/ jobs'[j].status \in {"dead", "deleted"}
           \/ Exists(j) /\ ~(task[c][j].attempts >= MaxAttempts)
    BY <1>t, <1>j, <2>1, <2>2, TableUpdate DEF TypeOK, Ids, Exists
  <2>4. \/ jobs'[j].status \in {"done", "dead", "deleted"}
        \/ Exists(j) /\ jobs'[j].attempts < MaxAttempts
    BY <1>h, <2>3
  <2>5. \A e \in Calls : Waits(e) => Waits(e)'
    BY <1>2 DEF MarkFailed, Waits
  <2> QED
    BY <1>j, <1>0, <2>3, <2>4, <2>5, FinishKept
<1>3. CASE MarkFailedRaises(c, j)
  <2>1. jobs' = jobs /\ Ids' = Ids
    BY <1>3 DEF MarkFailedRaises, Ids
  <2>2. Exists(j) /\ jobs'[j].attempts < MaxAttempts
    BY <1>3, <1>h, <2>1 DEF MarkFailedRaises, Duplicate
  <2>3. \A e \in Calls : Waits(e) => Waits(e)'
    BY <1>3, <1>t DEF MarkFailedRaises, Goto, Waits, CallRecord
  <2> QED
    BY <1>j, <1>0, <2>1, <2>2, <2>3, FinishKept
<1> QED
  BY <1>1, <1>2, <1>3

(* Time: a lease lapses only when nobody works on its row.                 *)
LEMMA WTime ==
    ASSUME SlowStages = {}, WInv, TypeOK', NEW j, BackoffElapses(j) \/ LeaseLapses(j)
    PROVE  WInv' /\ DoneStays
<1>t. TypeOK /\ RestInv
  BY DEF WInv
<1>j. j \in Ids /\ jobs[j] \in Row
  <2>1. j \in Ids
    BY DEF BackoffElapses, LeaseLapses
  <2> QED
    BY <1>t, <2>1, TableType DEF TypeOK
<1>0. call' = call /\ crashes' = crashes /\ task' = task
  BY DEF BackoffElapses, LeaseLapses
<1>1. \A e \in Calls, k \in Ids : Active(e, k) => Waits(e)'
  BY <1>t, <1>0 DEF RestInv, Waits
<1> DEFINE due == [jobs[j] EXCEPT !.due = TRUE]
           lapsed == [jobs[j] EXCEPT !.lease = "lapsed"]
<1>2. /\ due \in Row /\ due.status = jobs[j].status /\ due.attempts = jobs[j].attempts
      /\ due.lease = jobs[j].lease
      /\ lapsed \in Row /\ lapsed.status = jobs[j].status /\ lapsed.attempts = jobs[j].attempts
  BY <1>j DEF Row
<1>3. \/ jobs' = [jobs EXCEPT ![j] = due]
      \/ jobs' = [jobs EXCEPT ![j] = lapsed] /\ ~Worked(j)
  BY DEF BackoffElapses, LeaseLapses, Worked
<1> HIDE DEF due, lapsed
<1>4. SameRows
  BY <1>t, <1>j, <1>2, <1>3, OneRowKept
<1> QED
  BY <1>0, <1>1, <1>4, TasksUntouched, HandsKept

(* The invariant holds initially; every step keeps it, and keeps the rows  *)
(* that are done.                                                          *)
LEMMA WInvInductive ==
    ASSUME SlowStages = {}
    PROVE  /\ Init => WInv
           /\ WInv /\ [Next]_vars => WInv' /\ DoneStays
<1>1. ASSUME Init PROVE WInv
  <2>1. TypeOK /\ Ids = {}
    BY <1>1, TypeInit DEF Init, Ids
  <2> QED
    BY <2>1 DEF WInv, OneWorkerPerJob, HeldInv, RestInv, CountInv
<1>2. ASSUME WInv, [Next]_vars PROVE WInv' /\ DoneStays
  <2>1. TypeOK'
    BY <1>2, TypeStep DEF WInv
  <2>2. CASE Next
    BY <1>2, <2>1, <2>2, WProcess, WWithoutKey, WDelete, WDrain, WClaim, WTasks, WEnds, WTime, WCrash
       DEF Next, CallStep, TaskStep
  <2>3. CASE UNCHANGED vars
    <3>1. SameRows /\ SameHands
      BY <2>3, TableKept, TasksUntouched DEF vars
    <3>2. UNCHANGED crashes /\ \A e \in Calls, j \in Ids : Active(e, j) => Waits(e)'
      BY <1>2, <2>3 DEF vars, WInv, RestInv, Waits
    <3> QED
      BY <1>2, <2>1, <3>1, <3>2, HandsKept
  <2> QED
    BY <1>2, <2>2, <2>3
<1> QED
  BY <1>1, <1>2

(* No two calls ever work on the same job when every worker reports within *)
(* its lease, for any number of processes, drains, crashes and re-queued   *)
(* documents.                                                              *)
THEOREM OneWorkerCorrect ==
    ASSUME SlowStages = {}
    PROVE  Spec => []OneWorkerPerJob
<1>1. WInv => OneWorkerPerJob
  BY DEF WInv
<1>2. (Init => WInv) /\ (WInv /\ [Next]_vars => WInv')
  BY WInvInductive
<1> QED
  BY <1>1, <1>2, PTL DEF Spec

(* No job is ever claimed more often than MaxAttempts and the crashes so   *)
(* far allow: a failing job cannot be retried forever.                     *)
THEOREM ClaimsBoundedCorrect ==
    ASSUME SlowStages = {}
    PROVE  Spec => []ClaimsBounded
<1>1. WInv => ClaimsBounded
  BY DEF WInv, CountInv, Left, ClaimsBounded
<1>2. (Init => WInv) /\ (WInv /\ [Next]_vars => WInv')
  BY WInvInductive
<1> QED
  BY <1>1, <1>2, PTL DEF Spec

(* No row that is done is ever made pending, claimed or dead again.        *)
THEOREM DoneIsFinalCorrect ==
    ASSUME SlowStages = {}
    PROVE  Spec => DoneIsFinal
<1>1. (Init => WInv) /\ (WInv /\ [Next]_vars => WInv')
  BY WInvInductive
<1>2. WInv /\ [Next]_vars =>
        [\A j \in Ids : jobs[j].status = "done" => jobs'[j].status \in {"done", "deleted"}]_vars
  BY WInvInductive DEF DoneStays
<1> QED
  BY <1>1, <1>2, PTL DEF Spec, DoneIsFinal

=============================================================================
