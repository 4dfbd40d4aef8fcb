\* A token and the credentials rotate under a refresh and a heal.
CONSTANTS
    Blocks <- SomeBlocks
    PageLimit = 2
    MaxTokens = 2
    MaxCreds = 2
    MaxWrites = 2
    Broken = Broken
    NoFile = NoFile
    NoList = NoList
    Operators = Operators
SPECIFICATION Spec
INVARIANTS
    TypeOK
    RotationCostsNoRequest
PROPERTIES
    RefreshRecovers
