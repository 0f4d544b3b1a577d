CONSTANTS
    ERROR_FIRST = 96
    ERROR_LAST = 159
    U32_MAX = 61
    HEADER = 2
    DATA = 3
    Code = {30, 61}
SPECIFICATION Spec
INVARIANTS
    OpenedStreamArrives
    BufferArrives
    EndsAreTrue
CHECK_DEADLOCK FALSE
