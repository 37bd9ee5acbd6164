SPECIFICATION SFairSpec
CONSTANTS
    Keys = {"a", "b"}
    KeyLen <- KeyLenOne
    MaxPayload = 2
    Shell = 2
    ObjBase = 1
    Types = {"string", "list"}
    ValLens = {1}
    Durations = {1}
    Deadlines = {}
    MaxNow = 1
    MaxMemories = {0, 5}
    EvictNames = {"sampled"}
    Layouts = {"flat"}
    HotPct = 50
    HotMin = 0
    AdaptHot = 9
    AdaptFlat = 1
    Word = 64
    MemBound = 16
    PinBound = 0
    Pids = {1}
    Second = 2
    MaxEntries = 2
    MaxElems = 2
    MaxBlob = 1
    MaxEpoch = 2
    MaxCrashes = 1
INVARIANTS DumpIsSnapshot RecoveryPoint
PROPERTIES RestoredFaithfully BgsaveEnds
