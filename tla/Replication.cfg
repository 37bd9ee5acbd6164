SPECIFICATION RFairSpec
CONSTANTS
    Nodes = {"p", "q"}
    Keys = {"a", "b"}
    Vals = {1, 2}
    Cmds <- TwoKeyCmds
    Second = 2
    MaxArgv = 4
    MaxLen = 3
    MaxCmds = 3
    MaxOps = 2
    MaxNow = 2
INVARIANTS RTypeOK FeedReplays LiveKeysPresent
PROPERTIES LinkProgress
CHECK_DEADLOCK FALSE
