\* Concurrent callers, one host and one upstream: debouncing and pruning.
CONSTANTS
    h1 = h1
    u1 = u1
    u2 = u2
    refused = refused
    limited = limited
    Hosts = {h1}
    Upstreams = {u1}
    Kinds = {limited}
    Callers = {a, b}
    Pools <- DebouncePools
    RuleSets <- PlainRules
    Configs <- DebounceConfigs
    RetryAfters = {0, 2}
    PinTTLs = {}
    AdminOps = {"prune"}
    StaleWindows = 2
    MaxStall = 2
    MaxTime = 6
    MaxFailures = 9
    NoCall = NoCall
    NoPin = NoPin
    NoOverride = NoOverride
    ScoreCeiling = 1
    PenaltyCeiling = 2
    LiftCeiling = 1
SYMMETRY AnyCaller
SPECIFICATION SBSpec
INVARIANTS
    SBTypeOK
    PenaltiesDebounced
    BoundedLockout
    FailuresAccountForScore
CHECK_DEADLOCK FALSE
