CONSTANTS
    Workers = {w1, w2}
    Posters = {p1}
    Nodes = {n1, n2, s1}
    ServiceNodes = {s1}
    NoThread = NoThread
SPECIFICATION ExecutorFairSpec
INVARIANTS
    ExecutorInv
    NoLostWakeup
    QueuedOnce
PROPERTIES
    QueueSpec
    OneShotServed
