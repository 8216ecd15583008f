SPECIFICATION FairSpec
CONSTANTS
    p1 = p1
    p2 = p2
    NoPool = NoPool
    Pools <- TwoPools
    DayLen = 2
    Zone = 1
    ChanCap = 0
    InitHeight = 0
    Lookback = 0
    Kinds <- SwapsOnly
    MaxEvents = 2
    MaxNow = 2
    MaxCrashes = 1
    MaxRpcFaults = 0
    MaxDbFaults = 1
INVARIANTS
    EveryDayCounted
    WindowSorted
PROPERTIES
    OpeningOncePerDay
    EveryEventStored
