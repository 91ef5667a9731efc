\* A client of whole packets, one at a time.
CONSTANTS
    SOCKET_INPUT_SIZE = 4
    SOCKET_INPUT_MAXSIZE = 24
    StreamLen = 14
    LateArrival = FALSE
    SOCKET_OUTPUT_SIZE = 4
    SendBuffer = 4
    OutputLen = 21
    PACKET_HEADER_SIZE = 2
    PacketSizes = {2, 3, 5, 6}
    ReplySize = 3
    StraySizes = {}
    Segmented = FALSE
    Pipelined = FALSE
SPECIFICATION Spec
INVARIANTS
    ExecutedAsSent
    CrashesOnlyOnBrokenPipe
    OutputGrowsOnce
PROPERTIES
    PingAnswered
    ImplementsRequestReply
CHECK_DEADLOCK FALSE
