CONSTANTS
    RADIX = 16
    CLOSE_TYPE = 10
    CODE_SIZE = 1
    MAX_MESSAGE = 2
    MAX_FRAME = 8
    Written <- MCWritten
SPECIFICATION Spec
INVARIANTS
    BufferBounded
    NothingWithheld
PROPERTY ImplementsStream
CHECK_DEADLOCK FALSE
