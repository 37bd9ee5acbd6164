SPECIFICATION LFairSpec
CONSTANTS
    Clients = {"a", "b"}
    Readers = {"a"}
    Split = {"a"}
    Script <- TwoScripts
    NSlots = 2
    MaxClients = 2
    RequirePass = FALSE
    IdleTimeout = TRUE
    Cap = 1
    MaxFaults = 1
INVARIANTS AnsweredInOrder LostForCause
PROPERTIES Answered ShutdownEnds
CHECK_DEADLOCK FALSE
