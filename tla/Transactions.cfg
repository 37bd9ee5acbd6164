SPECIFICATION TSpec
CONSTANTS
    Keys = {"a", "b"}
    KeyLen <- KeyLenOne
    MaxPayload = 2
    Shell = 2
    ObjBase = 1
    Types = {"string"}
    ValLens = {1}
    Durations = {1}
    Deadlines = {}
    MaxNow = 1
    MaxMemories = {4}
    EvictNames = {"plugin"}
    Layouts = {"flat"}
    HotPct = 50
    HotMin = 0
    AdaptHot = 9
    AdaptFlat = 1
    Word = 64
    MemBound = 16
    PinBound = 0
    Conns = {x, y}
    x = x
    y = y
    Cmds <- ContendedCmds
    MultiMax = 2
    WatchMax = 1
    AllocFails = TRUE
INVARIANTS TTypeOK CleanWatchUnchanged DirtyOnlyWhileWatching
PROPERTIES ImplementsOptimisticStore
SYMMETRY ConnSymmetry
