CONSTANTS
    Stream = {s1}
    Acceptor = {a1, a2}
    NoOne = NoOne
    Exclusive = FALSE
SPECIFICATION FairSpec
PROPERTY CloseEndsAccept
