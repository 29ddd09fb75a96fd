CONSTANTS
    Nodes = {n1, n2, n3}
    Posters = {p1, p2}
    Workers = {w1, w2}
    NoNode = NoNode
    NoThread = NoThread
CHECK_DEADLOCK FALSE
SPECIFICATION FairSpec
INVARIANTS
    CallbackInv
PROPERTIES
    CallbacksAreFifo
    EveryPostRuns
