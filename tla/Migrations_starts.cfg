SPECIFICATION FairSpec
CONSTANTS
    old = old
    web = web
    worker = worker
    Instances = {old, web, worker}
    NFiles = 3
    Release <- OneReleaseBehind
    MaxCrashes = 2
INVARIANTS RecordsAreTrue ServesItsRelease
PROPERTIES GrowsInOrder EveryInstanceStarts
CHECK_DEADLOCK FALSE
