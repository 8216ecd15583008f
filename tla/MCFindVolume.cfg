SPECIFICATION Spec
CONSTANTS
    p1 = p1
    p2 = p2
    NoPool = NoPool
    Pools <- OnePool
    DayLen = 1
    Zone = 0
    ChanCap = 1
    InitHeight = 0
    Lookback = 1
    Kinds <- SwapsOnly
    MaxEvents = 2
    MaxNow = 0
    MaxCrashes = 1
    MaxRpcFaults = 0
    MaxDbFaults = 0
INVARIANT VolumeCountedOnce
