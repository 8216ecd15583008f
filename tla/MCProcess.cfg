\* The process ends; the last worker that may go away is the end.
SPECIFICATION ProcessFairSpec
CHECK_DEADLOCK FALSE
CONSTANTS
    Requests = {1, 2}
    MaxSignals = 2
    StopTime = 2
    Pids = {1, 2, 3}
    NoPid = 0
    Programs <- BothPrograms
    MaxCount = 8
    MaxError = 3
    MinExitTime = 2
    MaxExits = 8
    MaxKills = 1
    MaxStartFaults = 2
INVARIANTS
    
    
    OneWorker
PROPERTIES
    StopEnds
    Replaced
