SPECIFICATION Spec
CONSTANTS
    Keys = {"a", "b"}
    KeyLen <- KeyLenOfTwo
    MaxPayload = 2
    Shell = 2
    ObjBase = 1
    Types = {"string", "list"}
    ValLens = {0, 1}
    Durations = {}
    Deadlines = {1}
    MaxNow = 0
    MaxMemories = {9}
    EvictNames = {"sampled", "plugin"}
    Layouts = {}
    HotPct = 50
    HotMin = 0
    AdaptHot = 9
    AdaptFlat = 1
    Word = 64
    MemBound = 6
    PinBound = 1
INVARIANTS MemoryCovered
PROPERTIES WatchSeesEveryChange EvictionSpares
