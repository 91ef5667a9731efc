\* A buffer of 4 bytes, 3 bytes of room in the kernel, 10 bytes of replies.
CONSTANTS
    SOCKET_OUTPUT_SIZE = 4
    SendBuffer = 3
    OutputLen = 10
SPECIFICATION Spec
INVARIANTS
    TypeOK
    WriteFits
    NeverWraps
    RingHoldsReplies
PROPERTY ImplementsQueue
CHECK_DEADLOCK FALSE
