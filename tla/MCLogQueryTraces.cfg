SPECIFICATION Spec
CONSTANTS
    Generations = {1}
    Kinds = {"error", "frame"}
    LastTs = 2
    FirstLines = {4}
    Limit = 1
    ScanChunk = 3
    Filters = {"errors"}
    Hits = {}
    Sinces = {1}
    MaxChanges = 0
INVARIANTS
    TracesStayWhole
CHECK_DEADLOCK FALSE
