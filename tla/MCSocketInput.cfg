\* A buffer of 4 bytes that may grow to 9, a stream of 9 bytes.
CONSTANTS
    SOCKET_INPUT_SIZE = 4
    SOCKET_INPUT_MAXSIZE = 9
    StreamLen = 9
    LateArrival = FALSE
SPECIFICATION Spec
INVARIANTS
    TypeOK
    RingHoldsStream
    FeedInv
    RecvFits
    GrowthBounded
PROPERTIES
    FetchInOrder
    ImplementsQueue
