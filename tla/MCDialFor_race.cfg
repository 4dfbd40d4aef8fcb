\* Concurrent requests, hang-ups and operator pins on one host.
CONSTANTS
    h1 = h1
    c1 = c1
    c2 = c2
    u1 = u1
    u2 = u2
    refused = refused
    Hosts = {h1}
    Upstreams = {u1, u2}
    Kinds = {refused}
    DialKinds = {refused}
    RetryCeiling = 2
    Deadlined = {u1, u2}
    Callers = {c1, c2}
    Pools <- BothPool
    RuleSets <- EitherRules
    Configs <- EitherGate
    RetryAfters = {}
    PinTTLs = {1}
    AdminOps = {"force"}
    StaleWindows = 2
    MaxStall = 1
    MaxTime = 2
    MaxFailures = 0
    NoCall = NoCall
    NoPin = NoPin
    NoOverride = NoOverride
    NoUpstream = NoUpstream
    NoHost = NoHost
    ScoreCeiling = 1
    PenaltyCeiling = 1
    LiftCeiling = 0
SPECIFICATION Spec
INVARIANTS
    OneDialPastCascade
    OnlyRealFailuresCharged
    CascadeBlamesUpstreams
PROPERTIES
    ImplementsContract
CONSTRAINT AloneIfForced
CHECK_DEADLOCK FALSE
