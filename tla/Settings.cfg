SPECIFICATION SSpec
CONSTANTS
    MaxConn = 2
    RingMax = 2
    Words <- Texts
    FirstLine <- ReaderFinds
    Further <- ReaderFindsBehind
    Writable <- Requests
    HandWritten <- OperatorFiles
    Starts <- FlagsAndEnvironment
    Missing = Missing
    Torn = Torn
    Refused = Refused
    MaxWork = 6
    MaxFaults = 2
INVARIANTS
    FileIsWhole SlowlogNewestFirst
PROPERTIES
    KnobsSurvive
