CONSTANTS
    Reqs = {r1, r2, r3}
    Workers = {w1, w2}
    Signallers = {s1}
    SemNode = SemNode
    Nodes = {r1, r2, r3, SemNode}
    NoReq = NoReq
    NoThread = NoThread
    InitVal = 1
    MaxVal = 2
    MaxIssued = 3
    Destroy = "quiescent"
CHECK_DEADLOCK FALSE
SPECIFICATION FairSpec
INVARIANTS
    SemInv
    TokensConserved
    NoWaiterForgotten
    InOnePlace
PROPERTIES
    FifoGrant
    EveryWaiterResumed
