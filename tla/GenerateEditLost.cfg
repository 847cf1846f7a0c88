SPECIFICATION FairSpec
CONSTANTS
    q1 = q1
    q2 = q2
    q3 = q3
    Questions = {q1, q2}
    Batches = {b1}
    CategoryOf <- OneCategory
    BatchSize = 2
    Procs = {p1}
    MaxAttempts = 1
    MaxReruns = 0
    MaxEdits = 1
    MaxCrashes = 0
CHECK_DEADLOCK FALSE
PROPERTIES
    EditsAreKept
