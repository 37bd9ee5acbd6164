SPECIFICATION TFairSpec
CONSTANTS
    Keys = {"a", "b", "c"}
    Hash <- ThreeHashes
    InitBuckets = 1
    MinCold = 1
    Caps <- AllOrHalf
    MaxKeys = 2
    EvictSamples = 2
    MaxAttempts = 1
    MaxBuckets = 4
    MaxCount = 2
    MaxMoves = 2
    MaxNow = 1
INVARIANTS EveryEntryFindable ScanMissesNothing
PROPERTIES ScanEnds
CHECK_DEADLOCK FALSE
