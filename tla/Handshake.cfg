CONSTANTS
    Conn = {c1, c2}
    Foreign = {c2}
    MaxPending = 1
    ServerTimeout = TRUE
    ClientTimeout = TRUE
SPECIFICATION FairSpec
INVARIANTS
    PendingBound
    OneAnswer
    IInv
    GivingUpCloses
PROPERTIES
    AdmissionNotBlocked
    NoClientLeftWaiting
CHECK_DEADLOCK FALSE
