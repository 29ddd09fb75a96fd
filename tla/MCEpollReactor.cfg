CONSTANTS
    InWaiters = {i1, i2}
    OutWaiters = {o1, o2}
    Timed = {o1}
CHECK_DEADLOCK FALSE
SPECIFICATION ReactorFairSpec
INVARIANTS
    ReactorInv
    DeliveredOnce
    NoEdgeLost
PROPERTIES
    WaitersWoken
