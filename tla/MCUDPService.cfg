\* Two workers; two pings, another packet and an empty datagram.
CONSTANTS
    Pings = {p1, p2}
    Others = {o}
    Empties = {e}
    Workers = {w1, w2}
    None = None
SPECIFICATION Spec
INVARIANTS
    TypeOK
    HandledOnce
PROPERTIES
    DatagramAnswered
    PoolDestroyed
CHECK_DEADLOCK FALSE
