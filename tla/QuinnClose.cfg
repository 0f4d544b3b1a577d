CONSTANTS
    ERROR_FIRST = 96
    ERROR_LAST = 159
    U32_MAX = 61
    Client = Client
    Server = Server
    Handle = {h1, h2}
    Code = {30, 61}
    Foreign = {"unknown", "oversized"}
    MaxForeign = 1
    MaxClose = 1
    MayLose = TRUE
SPECIFICATION FairSpec
INVARIANTS
    CodeClosesConnection
    PeerCodeOrLocal
PROPERTIES
    ImplementsEnd
    CloseCompletes
CHECK_DEADLOCK FALSE
