CONSTANTS
    Reqs = {r1, r2, r3}
    Timed = {r1, r2}
    Workers = {w1, w2}
    SemNode = SemNode
    NoReq = NoReq
    Nodes <- MCNodes
    InitVal = 1
    MaxVal = 1
CHECK_DEADLOCK FALSE
SPECIFICATION Spec
INVARIANT NoTokenLostToTimeout
