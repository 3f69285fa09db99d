SPECIFICATION FairSpec
CONSTANTS
    t1 = t1  t2 = t2  t3 = t3
    NoTask = NoTask
    Tasks <- TwoTasks
    SharesFiles <- Sharing
    Triggers = {"schedule", "push", "failure", "dispatch"}
    Faults = {"crash", "amnesia", "checkout", "issues", "close", "publish", "auth"}
    MaxTasks = 2
    MaxRepair = 1
    MaxSame = 1
    MaxSha = 1
    MaxRuns = 2
INVARIANTS TypeOK NoRivalRequests WorkIsKept GivenUpOnce
PROPERTY RunsEnd
CHECK_DEADLOCK FALSE
