SPECIFICATION LiveSpec
CONSTANTS
    NoCommand = NoCommand
    Devices = {"d1"}
    Requests = {"q1"}
    CommandIds = {"q1"}
    IdOf <- MCIdOf
    Times <- MCTimes
    MaxTime = 2
    OfflineMax = 2
    MaxFaults = 1
    MaxDbErrors = 1
    MaxCrashes = 1
    PtySessions = {"p1", "p2"}
    SshSessions = {}
    Workers = 2
    MaxInput = 1
PROPERTIES
    QueuedIsFetched
    OfflineDrains
    TypedIsWritten
