CONSTANTS
    Ops = {o1, o2, o3}
    Workers = {w1, w2}
    NoOp = NoOp
    Kinds = {"stream", "recvfrom", "sendto", "read", "write", "tls", "handshake"}
    Closing = "alone"
CHECK_DEADLOCK FALSE
SPECIFICATION FairSpec
INVARIANTS
    SerialInv
    ReportsAreTrue
PROPERTIES
    SlotIsFifo
    EveryOpEnds
