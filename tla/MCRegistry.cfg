SPECIFICATION Spec
CONSTANTS
    p1 = p1
    p2 = p2
    p3 = p3
    p4 = p4
    p5 = p5
    r1 = r1
    Absent = Absent
    Pools <- FivePools
    InitPools <- ThreePools
    VersionOf <- LastV2
    States <- TwoStates
    NewState = 0
    GroupLimit = 1
    Requests <- OneRequest
    MaxCrashes = 1
    MaxDbFaults = 1
SYMMETRY InitSymmetry
INVARIANTS
    TypeOK
    RecordsReady
    PoolsJoin
