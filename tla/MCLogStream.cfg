SPECIFICATION FairSpec
CONSTANTS
    MaxLogLines = 2
    Tails = {1, 3}
    Delays <- MCDelays
    IdleTimeout = 2
    Suspends = FALSE
    SlowConnects = TRUE
    MaxEmitted = 3
    MaxFetches = 1
INVARIANTS
    StreamRunsAsShown
    LinesInOrder
PROPERTIES
    
    SilentStreamLeft
CHECK_DEADLOCK FALSE
