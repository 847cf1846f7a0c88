SPECIFICATION Spec
CONSTANTS
    d1 = d1
    p1 = p1
    p2 = p2
    c1 = c1
    c2 = c2
    Docs <- OneDoc
    Procs = {p1}
    Calls = {c1, c2}
    Home <- OneProcess
    MaxAttempts = 2
    ClaimBatch = 8
    SlowStages <- SlowWorkers
    MaxJobs = 9
    MaxProcess = 1
    MaxCrashes = 0
    MaxRetried = 2
CONSTRAINTS FewRetries SteadyStages ThreeClaims
INVARIANTS
    NoGap
    DeadIsExhausted
