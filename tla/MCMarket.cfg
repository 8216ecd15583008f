\* Once the bounded walks, rounds and requests are used up nothing is left to do.
SPECIFICATION Spec
CHECK_DEADLOCK FALSE
CONSTANTS
    eth = eth
    a = a
    b = b
    Tokens <- ThreeTokens
    RootSeq <- OneRoot
    PoolList <- ThreePools
    InitListed = 1
    InitTokens <- FirstTokens
    AskedTokens <- OtherTokens
    Publics <- TwoFlags
    None = None
    MaxWalks = 2
    MaxRequests = 1
    MaxRounds = 1
    MaxFaults = 1
    MaxCrashes = 1
INVARIANTS
    TypeOK
    RouteValid
    WalkComplete
    ShownIsStored
PROPERTIES
    SymbolsKept
