\* Two connector threads and a connection; descriptors 0 to 2 are the terminal.
CONSTANTS
    Fds = {3, 4, 5, 6, 7, 8}
    Conns = {c1}
    ThreadNum = 2
SPECIFICATION Spec
INVARIANTS
    TypeOK
    LogIntact
    OwnEpoll
PROPERTIES
    Served
    MainReturns
CHECK_DEADLOCK FALSE
