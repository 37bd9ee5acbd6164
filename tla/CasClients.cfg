SPECIFICATION CSpec
CONSTANTS
    Keys = {"a"}
    KeyLen <- KeyLenOne
    MaxPayload = 2
    Shell = 2
    ObjBase = 1
    Types = {"string"}
    ValLens = {1}
    Durations = {}
    Deadlines = {}
    MaxNow = 0
    MaxMemories = {0}
    EvictNames = {"noop"}
    Layouts = {"flat"}
    HotPct = 50
    HotMin = 0
    AdaptHot = 9
    AdaptFlat = 1
    Word = 64
    MemBound = 16
    PinBound = 0
    Conns = {"x", "y"}
    Cmds <- RaceCmds
    MultiMax = 1
    WatchMax = 1
    AllocFails = FALSE
    Contended = "a"
    Goal = 2
    MaxDrops = 1
INVARIANTS NoLostUpdate
PROPERTIES EveryClientWins
CHECK_DEADLOCK FALSE
