SPECIFICATION Spec
CONSTANTS
    d1 = d1
    d2 = d2
    d3 = d3
    r1 = r1
    r2 = r2
    Docs = {d1, d2, d3}
    Rfps = {r1, r2}
    Procs = {p1, p2}
    MaxDocs = 2
    WeeklyCap = 1
    WeeklyRfpCap = 1
    TargetMin = 2
    TargetMax = 3
    Contents <- SomeContents
SYMMETRY Interchangeable
CONSTRAINT Bounded
INVARIANTS
    TypeOK
    CapsBounded
    RowsHaveFiles
    OrphansAccounted
    StrandedByCrashOnly
    AnswerableIsWhole
    ChunksSized
    RetrievableUnlessDeleted
PROPERTIES
    ImplementsCorpus
CHECK_DEADLOCK FALSE
