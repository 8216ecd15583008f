SPECIFICATION ProcessFairSpec
CHECK_DEADLOCK FALSE
CONSTANTS
    Requests = {1}
    MaxSignals = 1
    StopTime = 1
    Pids = {1, 2, 3}
    NoPid = 0
    Programs <- OnlyRun
    MaxCount = 0
    MaxError = 3
    MinExitTime = 2
    MaxExits = 2
    MaxKills = 0
    MaxStartFaults = 0
PROPERTY LongLifeIsException
