\* One connector thread with two descriptors; two connections of two requests.
CONSTANTS
    Fds = {4, 5}
    Conns = {c1, c2}
    ThreadNum = 1
    MaxRequests = 2
    None = None
SPECIFICATION Spec
PROPERTIES
    RequestAnswered
    DescriptorFreed
CHECK_DEADLOCK FALSE
