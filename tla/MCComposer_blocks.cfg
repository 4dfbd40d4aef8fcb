\* Two blocks, refresh and heal racing, cache fallback, refused swaps.
CONSTANTS
    ws = ws
    mlv = mlv
    Blocks = {ws, mlv}
    Healers = {ws}
    Caching = {ws}
    Lists <- TwoBlocks
    Statics <- StaticLists
    Deployments <- EitherDeployment
    MaxChanges = 2
    NoList = NoList
    NoOne = NoOne
SPECIFICATION Spec
INVARIANTS
    TypeOK
    CacheIsRunningPool
PROPERTIES
    PoolCatchesUp
