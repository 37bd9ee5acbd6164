SPECIFICATION LFairSpec
CONSTANTS
    Clients = {"a", "b", "c"}
    Readers = {"a", "b"}
    Split = {}
    Script <- ThreeScripts
    NSlots = 2
    MaxClients = 2
    RequirePass = TRUE
    IdleTimeout = FALSE
    Cap = 1
    MaxFaults = 1
INVARIANTS LTypeOK StreamIntact MessagesWhileSubscribed NothingWithoutAuth
CHECK_DEADLOCK FALSE
