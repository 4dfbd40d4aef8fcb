\* Pool swaps of both kinds of deployment with requests running through them.
CONSTANTS
    r1 = r1
    r2 = r2
    ws = ws
    Requests = {r1, r2}
    MaxBuilds = 3
    Blocks = {ws}
    Healers = {ws}
    Caching = {}
    Lists <- Rotating
    Statics <- StaticLists
    Deployments <- EitherDeployment
    MaxChanges = 2
    NoList = NoList
    NoOne = NoOne
SPECIFICATION TransportsSpec
INVARIANTS
    StaleOnlyAfterStraddling
CHECK_DEADLOCK FALSE
