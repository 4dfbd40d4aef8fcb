\* Edits, signals and refreshes under a running request.
CONSTANTS
    h1 = h1
    c1 = c1
    u1 = u1
    u2 = u2
    t1 = t1
    refused = refused
    Documents <- AllDocuments
    TokenFiles <- Files
    Missing = Missing
    Unreadable = Unreadable
    NoDocument = NoDocument
    RefreshPools <- Composed
    Hosts = {h1}
    Upstreams = {u1, u2}
    Kinds = {refused}
    DialKinds = {refused}
    RetryCeiling = 2
    Deadlined = {u1, u2}
    Callers = {c1}
    Pools <- AllPools
    RuleSets <- BothRules
    Configs <- BothScorings
    RetryAfters = {}
    PinTTLs = {}
    AdminOps = {}
    StaleWindows = 2
    MaxStall = 1
    MaxTime = 1
    MaxFailures = 0
    NoCall = NoCall
    NoPin = NoPin
    NoOverride = NoOverride
    NoUpstream = NoUpstream
    NoHost = NoHost
    ScoreCeiling = 1
    PenaltyCeiling = 1
    LiftCeiling = 0
SPECIFICATION ReloadSpec
INVARIANTS
    ReloadTypeOK
    AttemptsDistinct
    RulesFitPool
PROPERTIES
    LastSignalApplies
    AuthOffOnlyOnRequest
CHECK_DEADLOCK FALSE
