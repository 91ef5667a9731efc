\* The example client's packet in pieces.
CONSTANTS
    SOCKET_INPUT_SIZE = 16
    SOCKET_INPUT_MAXSIZE = 64
    StreamLen = 23
    LateArrival = FALSE
    SOCKET_OUTPUT_SIZE = 64
    SendBuffer = 64
    OutputLen = 135
    PACKET_HEADER_SIZE = 6
    PacketSizes = {23}
    ReplySize = 45
    StraySizes = {0, 6, 64}
    Segmented = TRUE
    Pipelined = FALSE
SPECIFICATION Spec
INVARIANT ExecutedAsSent
CHECK_DEADLOCK FALSE
