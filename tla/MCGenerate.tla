----------------------------- MODULE MCGenerate -----------------------------
(***************************************************************************)
(* Small instances of generation for TLC: the questions of one category,   *)
(* cut into batches of at most two, and questions of two categories.       *)
(***************************************************************************)
EXTENDS GenerateProperties, TLC

CONSTANTS q1, q2, q3

OneCategory == [q \in Questions |-> "general"]

TwoCategories == [q \in Questions |-> IF q = q1 THEN "security" ELSE "general"]

\* Questions, batches and processes are interchangeable in OneCategory.
Interchangeable == Permutations(Questions) \cup Permutations(Batches) \cup Permutations(Procs)
=============================================================================
