CONSTANTS
    Timers = {t1, t2, t3, t4}
    Workers = {w1}
    TimerNode = TimerNode
    Nodes = {t1, t2, t3, t4, TimerNode}
    Nil = Nil
    NoThread = NoThread
    Watched = {t1}
    Delays = {0, 1}
    MaxTime = 1
    CancelArming = FALSE
CHECK_DEADLOCK FALSE
SPECIFICATION FairSpec
INVARIANTS
    HeapInv
PROPERTIES
    ImplementsTimerSet
    EveryDelayEnds
