CONSTANTS
    Stream = {s1, s2}
    Acceptor = {a1, a2}
    NoOne = NoOne
    Exclusive = TRUE
SPECIFICATION FairSpec
INVARIANTS
    NoStrandedAcceptor
    ExactlyOwnStreams
PROPERTIES
    CompleteStreamIsServed
    CloseEndsAccept
