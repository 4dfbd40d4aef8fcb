\* Operators, pool swaps, pins, expiries and pruning around one caller.
CONSTANTS
    h1 = h1
    u1 = u1
    u2 = u2
    refused = refused
    limited = limited
    NoCall = NoCall
    NoPin = NoPin
    NoOverride = NoOverride
    Hosts = {h1}
    Upstreams = {u1, u2}
    Kinds = {limited}
    Callers = {1}
    Pools <- OpsPools
    RuleSets <- PlainRules
    Configs <- OpsConfigs
    RetryAfters = {}
    PinTTLs = {1}
    AdminOps = {"force", "forget", "reset", "prune"}
    StaleWindows = 2
    MaxStall = 1
    MaxTime = 3
    MaxFailures = 1
    ScoreCeiling = 2
    PenaltyCeiling = 2
    LiftCeiling = 0
SPECIFICATION SBSpec
INVARIANTS
    PinsInPool
PROPERTIES
    LivePinSurvivesEviction
    PruneKeepsRouting
CHECK_DEADLOCK FALSE
