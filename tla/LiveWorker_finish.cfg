SPECIFICATION FairSpec
CONSTANTS
    r1 = r1
    r2 = r2
    o1 = o1
    c1 = c1
    NoWorker = NoWorker
    Workers = {w1, w2}
    Jobs = {r1, c1}
    RequestJobs = {r1}
    Ingested = {r1}
    CreatedAt <- MCCreatedAt
    MaxAttempts = 2
    BatchLimit = 2
    Faults = {"error", "crash", "erase"}
    MaxMishaps = 3
INVARIANT HolderOwnsRow
PROPERTIES FollowsLifecycle QueuedJobsFinish
CHECK_DEADLOCK FALSE
