CONSTANTS
    s1 = s1
    s2 = s2
    r1 = r1
    r2 = r2
    r3 = r3
    Sends = {s1, s2}
    Recvs = {r1, r2, r3}
    Full = {s2, r1}
    Vectored = {s2}
    Segments <- MCSegments
    Cap = 2
    Failures <- MCFailures
    MaxCloses = 1
CHECK_DEADLOCK FALSE
SPECIFICATION FairSpec
INVARIANTS
    StreamInv
    EndIsReal
PROPERTIES
    EndReleasesAll
