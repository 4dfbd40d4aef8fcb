\* One CONNECT and two SOCKS5 connections, two of them in one life of the
\* process, and a restart: saves, tunnels and shutdown interleave.
SPECIFICATION Spec
CONSTANTS
    Torn = Torn
    HttpConns = {h1}
    SocksConns = {s1, s2}
    MaxConns = 2
    MaxOutcomes = 2
    MaxStarts = 1
INVARIANTS
    ShutdownTypeOK
    SavedStateSurvives
    LastFlushCoversActivity
    OnlyUnregisteredOutlive
    AtMostOneSocksEscapes
PROPERTIES
    PromptShutdownExits
\* The process ends.
CHECK_DEADLOCK FALSE
