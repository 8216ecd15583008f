SPECIFICATION ProcessSpec
CHECK_DEADLOCK FALSE
CONSTANTS
    Requests = {1}
    MaxSignals = 1
    StopTime = 2
    Pids = {1, 2}
    NoPid = 0
    Programs <- OnlyBackground
    MaxCount = 0
    MaxError = 3
    MinExitTime = 2
    MaxExits = 1
    MaxKills = 0
    MaxStartFaults = 0
INVARIANT StopIsGraceful
