SPECIFICATION MCSpec
CONSTANTS
    Hosts = {h1, h2}
    PerHost = 1
    Codes = {c1, c2}
    Names = {0, 2}
    Ids = {i1, i2, i3}
    MaxCodes = 2
    MaxAlertsRuns = 2
    PairFaultSets = {{"relayRestarts", "expires", "sendFails", "storeFails", "unreachable"}, {"replyLost", "saveFails", "installFails", "died", "unreachable"}}
    Clients = {k1, k2, k3}
    Limit = 2
    MaxKeys = 2
    Minute = 2
    MaxTime = 4
    Pids = {p1}
    MaxStarts = 2
    MaxAge = 1
    MaxTicks = 2
    OwnMount = FALSE
    None = None
SYMMETRY PartsSymmetry
INVARIANTS
    PartsTypeOK
    OneNodePerCode
    KnownIsKept
    DaemonKeepsUp
    LimiterHolds
PROPERTIES
    TurnedAwayForARush
    ProbeIsCurrent
CHECK_DEADLOCK FALSE
