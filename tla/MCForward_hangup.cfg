\* A client that hangs up while the body of its last attempt is inspected.
CONSTANTS
    h1 = h1
    c1 = c1
    c2 = c2
    u1 = u1
    u2 = u2
    refused = refused
    limited = limited
    Hosts = {h1}
    Upstreams = {u1, u2}
    Kinds = {refused, limited}
    DialKinds = {refused}
    StatusKinds = {limited}
    Refused = refused
    BodyMatch = limited
    Knobs <- WatchingKnobs
    RetryCeiling = 2
    Deadlined = {u1, u2}
    Callers = {c1, c2}
    Plain = {c1, c2}
    Pools <- BothPool
    RuleSets <- PlainRules
    Configs <- OneTuning
    RetryAfters = {}
    PinTTLs = {}
    AdminOps = {}
    StaleWindows = 2
    MaxStall = 1
    MaxTime = 1
    MaxFailures = 0
    NoCall = NoCall
    NoPin = NoPin
    NoOverride = NoOverride
    NoUpstream = NoUpstream
    NoHost = NoHost
    ScoreCeiling = 1
    PenaltyCeiling = 1
    LiftCeiling = 0
SPECIFICATION ForwardSpec
INVARIANTS
    CascadeBlamesUpstreams
CHECK_DEADLOCK FALSE
