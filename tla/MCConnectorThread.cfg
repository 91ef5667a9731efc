\* Two connector threads, one descriptor each; three connections.
CONSTANTS
    Fds = {4, 5}
    Conns = {c1, c2, c3}
    ThreadNum = 2
    MaxRequests = 1
    None = None
SPECIFICATION Spec
SYMMETRY ConnSymmetry
INVARIANTS
    TypeOK
    MapFaithful
    NoDanglingConnector
    ParsesWhatWasFed
PROPERTIES
    NoSpuriousDrop
    ImplementsRequestReply
CHECK_DEADLOCK FALSE
