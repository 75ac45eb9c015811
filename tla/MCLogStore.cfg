SPECIFICATION Spec
CONSTANTS
    Streams = {out, err}
    Overlap = 0
    IngestBuffer = 1
    BatchLines = 1
    MaxAttempts = 2
    MaxLines = 2
    MaxFailures = 1
    MaxStarts = 2
    MaxPurges = 0
    MayStop = FALSE
INVARIANTS
    RowsAndMarksAgree
    
CHECK_DEADLOCK FALSE
