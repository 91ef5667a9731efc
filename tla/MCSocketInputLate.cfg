\* The sizes of socket_input.cpp (a smaller maximum); bytes may also arrive
\* before the second recv of the head_ == 0 branch.
CONSTANTS
    SOCKET_INPUT_SIZE = 16
    SOCKET_INPUT_MAXSIZE = 64
    StreamLen = 32
    LateArrival = TRUE
SPECIFICATION Spec
INVARIANT RecvInside
