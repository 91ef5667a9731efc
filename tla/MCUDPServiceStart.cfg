\* One worker and one ping.
CONSTANTS
    Pings = {p1}
    Others = {}
    Empties = {}
    Workers = {w1}
    None = None
SPECIFICATION Spec
INVARIANT PushFindsPool
CHECK_DEADLOCK FALSE
