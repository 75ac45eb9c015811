SPECIFICATION FairSpec
CONSTANTS
    RuleIds = {"r"}
    Containers = {"c1"}
    Names = {"web"}
    Clients = {"old", "new"}
    FirstClient = "old"
    NameOf <- MCNameOf
    Configs <- MCConfigs
    Off = Off
    None = None
    FiredBuffer = 1
    InspectBuffer = 1
    DispatchBuffer = 1
    OomWindow = 2
    IdleTTL = 2
    InspectTimeout = 1
    MaxTime = 4
    MaxChanges = 1
    MaxEvents = 2
    Inputs <- MCInputs
INVARIANTS
    WindowsSound
    AlertsWhenDue

    
    
CHECK_DEADLOCK FALSE
