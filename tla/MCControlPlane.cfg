SPECIFICATION ControlSpec
CONSTANTS
    Names = {"ann"}
    Tokens = {"t1"}
    MaxFailed = 2
    LockTime = 2
    TokenLife = 2
    LoginLimit = 2
    LoginWindow = 1
    Jobs = {"j1", "j2"}
    Callers = {"c1", "c2"}
    Ids = {1, 2}
    Titles = {"a", "b"}
    MaxSize = 2
    Reserve = 12
    RecentTurns = 1
    Budgets = {4, 8, 9, 12, 17, 24, 40}
    MessageWords = {0, 1, 9}
    MaxMessages = 3
    EntryPoints <- MCEntryPoints
    Manifests <- MCManifests
    Managers = {"daemon", "command"}
    KeyProviders = {"OpenAI", "openai", "gemini"}
    Lower <- MCLower
    OAuthProviders = {"openai", "gemini"}
    RawKeys = {"k1", "k2"}
    OAuthStates = {"s1"}
    Callbacks = {"c1", "c2"}
    StateLife = 1
    KeyLife = 1
    CooldownTime = 1
    MaxKeys = 2
    MaxUses = 1
    Candidates <- MCCandidates
    Requests = {"r1", "r2"}
    MaxIters = 2
    HistoryLen = 1
    MaxErrors = 2
    AgentLoops = {1, 2, 3}
    PtySessions = {"p1"}
    SshSessions = {"s1"}
    Workers = 2
    MaxInput = 2
    MaxPackage = 3
    ImagePresets <- MCImagePresets
    Profiles = {"f1"}
    Builds = {"b1"}
    ChunkSize = 3
    Overlap = 1
    LineWords = {0, 1, 2, 4}
    MaxLines = 4
    Retries = 3
    MaxTexts = 2
    Setups = {"setup"}
    Validity = 2
    RenewDays = 1
    PkiOrder <- MCPkiOrder
    MaxPairs = 3
    MaxPkiKeys = 5
    AgentOrder <- MCAgents
    Datasets <- MCDatasets
    MaxBreaks = 1
INVARIANTS
    ControlPlaneTypeOK
    LockoutHolds
    LoggedOutStaysOut
    HistoryIsSound
    ContextFits
    SettingsAreKept
    StatesAreSpentOnce
    HealthIsCounted
    SessionsAreOrderly
    ManifestsAreComplete
    ChunksAreSound
    StackStaysDown
    OneAgentLoop
    TimesMatchStatus
    EndsAreCountedOnce
    RetriesAreSound
    PairsAreWhole
    SavedIsTold
    PipelineIsSound
PROPERTY EndedStaysEnded
CHECK_DEADLOCK FALSE
