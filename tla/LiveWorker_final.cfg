SPECIFICATION Spec
CONSTANTS
    r1 = r1
    r2 = r2
    o1 = o1
    c1 = c1
    NoWorker = NoWorker
    Workers = {w1, w2}
    Jobs = {r1, o1}
    RequestJobs = {r1}
    Ingested = {r1, o1}
    CreatedAt <- MCCreatedAt
    MaxAttempts = 2
    BatchLimit = 2
    Faults = {"slow", "error"}
    MaxMishaps = 2
PROPERTY FinishedIsFinal
CHECK_DEADLOCK FALSE
