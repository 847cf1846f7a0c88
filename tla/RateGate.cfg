SPECIFICATION FairSpec
CONSTANTS
    c1 = c1
    c2 = c2
    c3 = c3
    c4 = c4
    Calls = {c1, c2, c3, c4}
    Estimate <- SomeEstimates
    Reported = {2}
    Rpm = 2
    Tpm = 5
    MaxConcurrency = 2
    Gap = 1
    MaxRetries = 1
    Minute = 3
INVARIANTS
    TypeOK
    SendsBounded
    TokensBounded
PROPERTIES
    CallsEnd
