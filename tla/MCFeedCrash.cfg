SPECIFICATION Spec
CONSTANTS
    p1 = p1
    p2 = p2
    NoPool = NoPool
    Pools <- TwoPools
    DayLen = 1
    Zone = 0
    ChanCap = 1
    InitHeight = 0
    Lookback = 1
    Kinds <- AllKinds
    MaxEvents = 3
    MaxNow = 0
    MaxCrashes = 2
    MaxRpcFaults = 1
    MaxDbFaults = 1
SYMMETRY PoolSymmetry
INVARIANTS
    TypeOK
    RunIsLossless
    ReplayOnlyDuplicates
    TickFollowsChain
