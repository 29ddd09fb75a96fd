CONSTANTS
    a = a
    b = b
    k4 = k4
    k1 = k1
    k2 = k2
    k3 = k3
    Workers = {w1}
    Roots = {a, b}
    Joined <- MCJoined
    Called <- MCCalled
    NoTask = NoTask
    MaxSuspends = 1
CHECK_DEADLOCK FALSE
SPECIFICATION FairSpec
INVARIANTS
    FrameInv
PROPERTIES
    JoinWaitsForAll
    NoFrameLeaked
