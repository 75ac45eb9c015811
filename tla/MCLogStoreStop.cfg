SPECIFICATION FairSpec
CONSTANTS
    Streams = {out}
    Overlap = 0
    IngestBuffer = 1
    BatchLines = 1
    MaxAttempts = 2
    MaxLines = 1
    MaxFailures = 1
    MaxStarts = 1
    MaxPurges = 1
    MayStop = TRUE
PROPERTIES
    QueueClosedLast
    ShutdownCompletes
    
CHECK_DEADLOCK FALSE
