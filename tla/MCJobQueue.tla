----------------------------- MODULE MCJobQueue -----------------------------
(***************************************************************************)
(* Small instances of the job queue for TLC.                               *)
(***************************************************************************)
EXTENDS JobQueueProperties, TLC

CONSTANTS d1, p1, p2, c1, c2

OneDoc == {d1}

\* One uvicorn worker with two coroutines that may drain.
OneProcess == c1 :> p1 @@ c2 :> p1

\* Two uvicorn workers with one coroutine each.
TwoProcesses == c1 :> p1 @@ c2 :> p2

NoSlowStage == {}
SlowExtract == {"extract"}
SlowWorkers == {"extract", "generate"}

CONSTANT MaxRetried

\* Bound: rows that are claimed more than once.
FewRetries == Cardinality({j \in Ids : jobs[j].attempts > 1}) <= MaxRetried

\* Bound for the slow run: only the slow stages are retried, nothing is
\* explored after a burial or after the document is deleted.
SteadyStages ==
    /\ \A d \in Docs : docs[d] # "gone"
    /\ \A j \in Ids : /\ jobs[j].status # "dead"
                      /\ jobs[j].stage \notin SlowStages =>
                            jobs[j].attempts <= 1 /\ (jobs[j].status = "pending" => jobs[j].due)

\* Bound: a row that lapses again and again is claimed at most three times.
ThreeClaims == \A j \in Ids : jobs[j].attempts <= 3
=============================================================================
