CONSTANTS
    short = short
    exact = exact
    long = long
    Buf = {short, exact, long}
    BufLen <- Lengths
    MaxChunk = 2
    MaxWrites = 2
    MaxBytes = 3
    ReadSize = {1, 2}
SPECIFICATION Spec
INVARIANTS
    CleanEndIsComplete
    ReportedIsSent
    BytesInOrder
    EndIsTrue
CHECK_DEADLOCK FALSE
