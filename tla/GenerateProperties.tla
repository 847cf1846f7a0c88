------------------------- MODULE GenerateProperties -------------------------
(***************************************************************************)
(* What structuring and generation promise.                                *)
(***************************************************************************)
EXTENDS Generate

Task == [q : Questions, asked : Nat, made : Nat, attempt : Nat, round : {1, 2}, proc : SUBSET Procs]

(* Every variable keeps its shape: the rows, the worker, its batches and   *)
(* the fallbacks.                                                          *)
TypeOK ==
    /\ structuring \in Procs \cup {"queued", "done"}
    /\ epoch \in Nat
    /\ resp \in [Questions -> {"none", "ai", "edited"}]
    /\ job \in [status : {"none", "pending", "claimed", "done", "dead"},
                attempts : Nat, made : Nat]
    /\ run \in [pc : {"idle", "start", "read_answered", "round", "count", "succeeding",
                      "failing", "mark_done"},
                proc : SUBSET Procs, asked : Nat, pending : SUBSET Questions,
                round : 0..2, failed : SUBSET Batches]
    /\ batchOf \in [Questions -> Batches]
    /\ batch \in [Batches -> [pc : {"none", "retrieve", "store", "ask", "gather", "ok", "failed"},
                              todo : SUBSET Questions, ask : SUBSET Questions]]
    /\ tasks \subseteq Task
    /\ reruns \in Nat /\ edits \in Nat /\ crashes \in Nat

(* A sub-batch that did not raise has answered each of its questions,      *)
(* whichever way the answers came (rag.py:374-395, "one malformed JSON     *)
(* response can't strand a group").                                        *)
BatchAnswersAll ==
    \A b \in Batches : batch[b].pc = "ok" /\ Current =>
        \A q \in InBatch(b) : resp[q] # "none"

(* When the stage is done, only the sub-batches that failed twice have     *)
(* left questions unanswered (jobs.py:422-427).                            *)
OnlyFailuresStrand ==
    job.status = "done" /\ structuring = "done" /\ run.asked = epoch =>
        \A q \in Questions : resp[q] = "none" => batchOf[q] \in run.failed

(* "Only fail the stage [...] when ZERO answers were produced"             *)
(* (jobs.py:424-427): a document that comes out of the stage has at least  *)
(* one answer.  Not so when the structuring job was recovered and ran      *)
(* again beside it: it replaces the questions, and the stage it enqueues   *)
(* is swallowed while this one is live.                                    *)
DoneHasAnswers ==
    job.status = "done" /\ reruns = 0 => \E q \in Questions : resp[q] # "none"

(* Within a round each question is answered once, and a run takes up only  *)
(* what was unanswered when it started (jobs.py:345-346), also after a     *)
(* crash: as long as no run has failed, an edit is lost only to the retry  *)
(* of a batch or to a fallback left over from one.  Every claim but the    *)
(* first and every structuring run but the first makes up for a crash,     *)
(* unless a run has failed.                                                *)
NoRunFailed == reruns = 0 /\ job.attempts + epoch <= 2 + crashes

EditsLostToRetriesOnly ==
    [][NoRunFailed => \A q \in Questions : resp[q] = "edited" /\ resp'[q] = "ai" =>
          run.round = 2 \/ \E t \in tasks : t.q = q /\ t \notin TasksOf(batchOf[q])]_vars

(* The generate job settles: every await of its run ends, whatever raises. *)
GenerateSettles ==
    job.status \in {"pending", "claimed"} ~> job.status \in {"done", "dead"}

(* "No re-answering of questions that already succeeded, since             *)
(* generate_batch_answers skips persisted responses" (jobs.py:416-417): an *)
(* answer the user has edited is never written over.                       *)
EditsAreKept ==
    [][\A q \in Questions : resp[q] = "edited" /\ epoch' = epoch => resp'[q] = "edited"]_vars

=============================================================================
