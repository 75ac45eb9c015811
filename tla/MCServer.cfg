SPECIFICATION Spec
CONSTANTS
    Requests = {"r1", "r2"}
    EnvPinned = {}
    Nobody = "nobody"
    MaxUpdates = 2
    MaxConfigFailures = 1
    MaxRestarts = 1
    Channels = {"c1", "c2"}
    QueueSize = 1
    Cap = 1
    MaxAlerts = 2
    MaxFailedWrites = 1
    MaxClears = 1
    MaxCrashes = 1
    Generations = {1, 2}
    Kinds = {"error", "field"}
    LastTs = 2
    FirstLines = {4}
    Limit = 1
    ScanChunk = 3
    Filters = {"all", "text"}
    Hits = {"field"}
    Sinces = {1, 2}
    MaxChanges = 1
INVARIANTS
    WritesAreWhole
    
    HistorySound
    EveryLineOnce
    PagesAreGroups
PROPERTIES
    ShutdownSettles
CHECK_DEADLOCK FALSE
