CONSTANTS
    chat = chat
    log = log
    site = site
    other = other
    None = None
    Requests <- MCRequests
    Options <- MCOptions
    ClientFrames <- MCFrames
    MaxFrames = 3
    SmallMax = 1
    WideLen = 3
    MaskLen = 2
    MaxFrameSize = 4
CHECK_DEADLOCK FALSE
SPECIFICATION WebSocketFairSpec
INVARIANTS
    EchoInv
PROPERTIES
    ConnectionCloses
