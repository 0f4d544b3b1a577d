CONSTANTS
    ERROR_FIRST = 96
    ERROR_LAST = 159
    U32_MAX = 61
    Client = Client
    Server = Server
    Handle = {h1}
    Code = {30, 61}
    Foreign = {}
    MaxForeign = 0
    MaxClose = 2
    MayLose = TRUE
SPECIFICATION EitherSpec
INVARIANTS
    IInv
    FirstCloseWins
    OneSidedCloseAgrees
    RawCodeArrives
CHECK_DEADLOCK FALSE
PROPERTIES
    ImplementsEnd
    ReportChangesOnce
