SPECIFICATION Spec
CONSTANTS
    LastLine = 3
    Errors = {2}
    Hits = {2, 3}
    Continued = {3}
    JsonLines = {1}
    RingLines = 2
    PageSize = 1
    MaxActs = 2
    Containers = {1, 2, 3}
    HostOf <- Hosts
    ProjectOf <- Projects
    Named = {1, 3}
    PageSizes = {1, 2}
    MaxChanges = 1
    MaxListActs = 2
    Rows = {"a", "b"}
    StackHosts = {"h1", "h2"}
    Removed = {"x"}
    MaxOps = 3
    VarNames = {"A", "B"}
    Values = {"", "y"}
    Imports <- EnvFiles
    MaxEnvActs = 5
    Kilo = 2
    MaxBytes = 16
    MaxLimitActs = 3
    HostNames = {"a", "b", "b ", "e"}
    Padded <- Spaced
    EnvHost = "e"
    MaxHostActs = 3
    Users = {"", "admin"}
    Caps = {0, 1, 3}
    PinnedCaps = {"perContainer"}
    MaxTokens = 2
    MaxAccessActs = 6
    Minute = 2
    MaxSeconds = 2
    Targets = {"web"}
    MaxAlertActs = 3
    Seeds = {1}
    SeedGroup = {1}
    Ghost = 2
    IdEnds = {1}
    LogCap = 2
    MaxTicks = 1
    MaxCalls = 2
    MaxSockets = 4
    MaxIssued = 3
    MaxSessionActs = 5
INVARIANTS
    HistoryViewSound
    ListIsCurrent
    SpinnerWhileRunning
    EditsAreOfThisSession
    OneShellOpen
    
    
    
    SessionKept

    
CHECK_DEADLOCK FALSE
