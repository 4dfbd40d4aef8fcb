\* Events, heals and wiring in every order; windows of 2, cooldowns of 4.
CONSTANTS
    Prefixes <- AllPrefixes
    Suffixes <- Names
    Deployments <- Named
    Threshold = 2
    Window = 2
    Cooldown = 4
    CallTimeout = 2
    MaxTime = 8
    MaxSeen = 4
SPECIFICATION HealSpec
INVARIANTS
    HealTypeOK
    EvidenceAfterHeal
    HealUnderMainContext
    OwnEventsOnly
PROPERTIES
    HealsSpaced
    NoBurstMissed
    HealEnds
CHECK_DEADLOCK FALSE
