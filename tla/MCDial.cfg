CONSTANTS
    Lookups = {c1, c2}
    Clients = {c1, c2}
    Threads = {t1, t2}
    Targets <- MCTargets
    NoLookup = NoLookup
    Teardown = "quiet"
    Acceptors = {a1, a2}
    Kinds = {"tcp", "unix", "remote"}
    Backlog = 1
    MaxFaults = 1
    Impatient = {c1}
    ListenerClosing = "alone"
CHECK_DEADLOCK FALSE
SPECIFICATION DialFairSpec
INVARIANTS
    DialInv
PROPERTIES
    ConnectTellsTruth
    NoConnectionStranded
    EveryDialEnds
    ShutdownEnds
