SPECIFICATION Spec
CONSTANTS
    Callers = {p}
    Conditions = {"CRITICAL_POLICY_VIOLATION"}
    Actors = {"a"}
    Digests = {"d"}
    NoDigest = NoDigest
    TrustMax = 0
    RateWindow = 1
    RateLimit = 1
    MaxSessions = 1
    MaxFrames = 2
    MaxTime = 1
    MaxConnections = 1
    InitialModes = {"RUN"}
    Commands = {"RUN", "OFF"}
    NoActor = NoActor
    MaxPending = 1
CHECK_DEADLOCK FALSE
INVARIANTS TypeOK DataStopsAtTheCut RevokedIsSilent MeasureBeforePromotion AdmissionHolds
