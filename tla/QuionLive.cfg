CONSTANTS
    ERROR_FIRST = 96
    ERROR_LAST = 159
    U32_MAX = 61
    Client = Client
    Server = Server
    Handle = {h1}
    Code = {30}
    Foreign = {"unknown", "oversized", "fin"}
    MaxForeign = 1
    MaxClose = 1
    MayLose = TRUE
SPECIFICATION EitherFairSpec
INVARIANTS
    NoLostWakeup
    EndedSessionIsClosed
PROPERTIES
    CloseCompletes
    WaitersReturn
CHECK_DEADLOCK FALSE
