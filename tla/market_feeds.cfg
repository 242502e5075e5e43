\* The gate alone on a long clock; and with one asset's ticks, in and out of
\* order and again, a lost channel and crashes on a short one.
SPECIFICATION MCSpec
CONSTANTS
    a1 = a1
    Missing = Missing
    StaleThreshold = 1
    StabilityWindow = 2
    Lags = {0, 2}
    UserLags = {0}
    MaxTime = 5
    FeedTime = 3
    Assets = {a1}
    HeartbeatTimeout = 1
    BacklogDegraded = 1
    BacklogSustained = 0
    MaxReconnects = 1
    MaxTicks = 2
    MaxLosses = 2
INVARIANTS
    FeedTypeOK
    RecoveryIsEarned
    LossIsVisible
    MemoryMatchesTables
PROPERTIES
    CrashesLeaveNoTrace
    FeedsTheGate
