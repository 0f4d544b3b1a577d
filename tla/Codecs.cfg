CONSTANTS
    ERROR_FIRST = 96
    ERROR_LAST = 628
    U32_MAX = 515
    RADIX = 16
    CLOSE_TYPE = 10
    CODE_SIZE = 1
    MAX_MESSAGE = 6
    USIZE_BITS = 22
    Url <- MCUrl
SPECIFICATION Spec
INVARIANTS
    CodesExact
    IntegersExact
    DatagramsArrive
    ReasonsFit
    SettingsSound
    RequestsArrive
