SPECIFICATION Spec
CONSTANTS
    web1 = web1
    web2 = web2
    db1 = db1
    Keys <- MCKeys
    Names <- MCNames
    NameOf <- MCNameOf
    Size <- MCSize
    NoKey = NoKey
    NoName = NoName
    MaxId = 3
    MaxLines = 2
    PerCap = 2
    TotalCap = 2
    DeleteChunk = 2
    MaxTrimRounds = 3
    BatchLines = 2
    Misses = FALSE
    MaxFailures = 1
    MaxPurges = 1
SYMMETRY MCSymmetry
INVARIANTS
    LinesFiledRight
    RowsAccounted
PROPERTIES
    SweepIsExact
CHECK_DEADLOCK FALSE
