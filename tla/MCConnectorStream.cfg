\* Packets in pieces and back to back, and a client that may read no reply.
CONSTANTS
    SOCKET_INPUT_SIZE = 4
    SOCKET_INPUT_MAXSIZE = 9
    StreamLen = 8
    LateArrival = FALSE
    SOCKET_OUTPUT_SIZE = 4
    SendBuffer = 2
    OutputLen = 4
    PACKET_HEADER_SIZE = 2
    PacketSizes = {2, 5}
    ReplySize = 1
    StraySizes = {0, 2, 3, 9}
    Segmented = TRUE
    Pipelined = TRUE
SPECIFICATION Spec
PROPERTY ReadClosesOnlyDead
CHECK_DEADLOCK FALSE
