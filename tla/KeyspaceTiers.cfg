SPECIFICATION FairSpec
CONSTANTS
    Keys = {"a", "b"}
    KeyLen <- KeyLenOfTwo
    MaxPayload = 2
    Shell = 2
    ObjBase = 1
    Types = {"string", "hash"}
    ValLens = {1}
    Durations = {1}
    Deadlines = {}
    MaxNow = 1
    MaxMemories = {0}
    EvictNames = {"noop"}
    Layouts = {"flat", "hot_cold"}
    HotPct = 50
    HotMin = 0
    AdaptHot = 2
    AdaptFlat = 1
    Word = 64
    MemBound = 16
    PinBound = 1
INVARIANTS TypeOK TablesDisjoint CountersExact PinsNotUndercounted
PROPERTIES DueEventuallyPurged
