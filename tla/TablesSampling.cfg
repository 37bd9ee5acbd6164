SPECIFICATION TSpec
CONSTANTS
    Keys = {"a", "b", "c"}
    Hash <- ThreeHashes
    InitBuckets = 1
    MinCold = 1
    Caps <- AllOrHalf
    MaxKeys = 2
    EvictSamples = 4
    MaxAttempts = 3
    MaxBuckets = 4
    MaxCount = 2
    MaxMoves = 2
    MaxNow = 1
INVARIANTS DueIsNoCandidate
CHECK_DEADLOCK FALSE
