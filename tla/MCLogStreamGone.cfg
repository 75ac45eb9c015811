SPECIFICATION Spec
CONSTANTS
    MaxLogLines = 2
    Tails = {1, 3}
    Delays <- MCDelays
    IdleTimeout = 2
    Suspends = FALSE
    SlowConnects = TRUE
    MaxEmitted = 2
    MaxFetches = 1
INVARIANTS
    GoneViewerIsQuiet
CHECK_DEADLOCK FALSE
