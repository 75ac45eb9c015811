SPECIFICATION FairSpec
CONSTANTS
    Subs = {"alert"}
    Containers = {"c1"}
    Hosts = {"h1", "h2"}
    Names = {"web", "old"}
    HostOf <- MCHostOf
    Wants <- MCWants
    HostsOf <- MCHostsOf
    MaxAttempts = 2
    Slots = 2
    MaxChanges = 2
    MaxFailures = 1
INVARIANTS
    NoOrphan
    EntryHasTail
    NothingPushesAfterWait
PROPERTIES
    Settles
CHECK_DEADLOCK FALSE
