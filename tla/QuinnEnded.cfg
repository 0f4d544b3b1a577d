CONSTANTS
    ERROR_FIRST = 96
    ERROR_LAST = 159
    U32_MAX = 61
    Client = Client
    Server = Server
    Handle = {h1}
    Code = {30}
    Foreign = {"fin"}
    MaxForeign = 1
    MaxClose = 0
    MayLose = TRUE
SPECIFICATION FairSpec
PROPERTY EndedStreamEndsSession
CHECK_DEADLOCK FALSE
