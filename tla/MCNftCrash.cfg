SPECIFICATION Spec
CONSTANTS
    t1 = t1
    t2 = t2
    u1 = u1
    u2 = u2
    p1 = p1
    p2 = p2
    c1 = c1
    c2 = c2
    c3 = c3
    Tokens <- TwoTokens
    Users <- TwoUsers
    Zero = Zero
    Pools <- TwoPools
    PoolOf <- PoolOfTwo
    Coins <- ThreeCoins
    CoinsOf <- SharedCoins
    ChanCap = 1
    InitHeight = 0
    Lookback = 1
    Lag = 1
    MaxEvents = 3
    MaxCrashes = 2
    MaxRpcFaults = 1
    MaxDbFaults = 1
SYMMETRY UserSymmetry
INVARIANTS
    TypeOK
    OwnerFollowsChain
    PoolOfRowListed
    CoinsOfRowKnown
    TransfersAccounted
