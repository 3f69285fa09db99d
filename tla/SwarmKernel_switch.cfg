SPECIFICATION Spec
CONSTANTS
    Leases = {"l1"}
    LossMax <- MCLossMax
    Envelopes = {"invite"}
    NonceOf <- MCNonceOf
    Invites = {"invite"}
    Skew = 1
    MaxTime = 3
    MaxEpochs = 2
    MaxRevocations = 1
    MaxOpenings = 2
    Ring = 1
    MaxSignals = 2
    MaxLives = 1
CHECK_DEADLOCK FALSE
INVARIANT TypeOK TamperingIsSeen ReplayNeedsAmnesia ReplayIsRecent
PROPERTY AlarmStopsTraffic ShutUntilForgotten
