SPECIFICATION Spec
CONSTANTS
    d1 = d1
    p1 = p1
    p2 = p2
    c1 = c1
    c2 = c2
    Docs <- OneDoc
    Procs = {p1, p2}
    Calls = {c1, c2}
    Home <- TwoProcesses
    MaxAttempts = 2
    ClaimBatch = 8
    SlowStages <- NoSlowStage
    MaxJobs = 7
    MaxProcess = 1
    MaxCrashes = 0
    MaxRetried = 2
CONSTRAINT FewRetries
PROPERTIES
    CompletedIsStable
