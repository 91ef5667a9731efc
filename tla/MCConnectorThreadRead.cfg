\* One connector thread with one descriptor; two connections.
CONSTANTS
    Fds = {4}
    Conns = {c1, c2}
    ThreadNum = 1
    MaxRequests = 1
    None = None
SPECIFICATION Spec
INVARIANT ParsesWhatItRead
CHECK_DEADLOCK FALSE
