SPECIFICATION FairSpec
CONSTANTS
    Lookback = 2
    ScanLimit = 1
    ScanStep = 1
    WordMod = 16
    Lag = 1
    InitHeads <- StartHeads
    MaxHead = 7
    MaxCrashes = 1
INVARIANTS
    TypeOK
    WindowOnChain
PROPERTIES
    FeedSpec
    EveryBlockDealt
