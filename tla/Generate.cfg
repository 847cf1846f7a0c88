SPECIFICATION Spec
CONSTANTS
    q1 = q1
    q2 = q2
    q3 = q3
    Questions = {q1, q2, q3}
    Batches = {b1, b2}
    CategoryOf <- OneCategory
    BatchSize = 2
    Procs = {p1, p2}
    MaxAttempts = 1
    MaxReruns = 1
    MaxEdits = 1
    MaxCrashes = 1
SYMMETRY Interchangeable
CHECK_DEADLOCK FALSE
INVARIANTS
    BatchAnswersAll
    OnlyFailuresStrand
    DoneHasAnswers
PROPERTIES
    EditsLostToRetriesOnly
