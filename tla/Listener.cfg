SPECIFICATION FairSpec
CONSTANTS
    s1 = s1
    s2 = s2
    s3 = s3
    p1 = p1
    p2 = p2
    stranger = stranger
    Sock <- TwoSocks
    Neighbor <- Neighbors
    Configured <- Peers
    Polled <- Both
    OpenCap = 1
    AdminCap = 1
CHECK_DEADLOCK FALSE
INVARIANTS
    TypeOK
    PairsAdjacent
PROPERTIES
    OpenReachesSession
    DispatcherDeathIsTotal
    GoneSessionEndsDispatcher
