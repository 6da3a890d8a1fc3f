SPECIFICATION DeviceSpec
CONSTANTS
    u1 = u1  u2 = u2
    v1 = v1  v2 = v2
    Updaters <- MCUpdaters
    Releases <- MCReleases
    Limit = 2
    MaxCommands = 3
    ollama = ollama  chromadb = chromadb
    Services <- MCServices
    Order <- MCOrder
    MaxRestarts = 2
    Threshold = 4
    ResetTimeout = 2
    RestartMax = 2
    r1 = r1  r2 = r2  r3 = r3
    N = 2
    Requests <- MCRequests
    FailureThreshold = 2
    HalfOpenMax = 2
INVARIANTS
    BootSlotIsWhole
    NextBootIsWanted
    RestartsAreLimited
    ClosedWhileFewCallsFail
    ExhaustedIsProbed
PROPERTIES
    UnconfirmedSlotIsLeft
    FailingIsRestarted
    AvailableAgain
