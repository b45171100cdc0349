SPECIFICATION Spec
CONSTANTS
    None = None
    c1 = c1
    c2 = c2
    c3 = c3
    Conn <- ThreeConns
    LocalOpen <- Local
    PeerOpen <- HighPeer
    FarFuture = 200000
    DelayOpen = FALSE
    DelayOpenTime = 0
    SendNotificationWithoutOpen = FALSE
    CollisionDetectEstablishedState = FALSE
    AdminEvent <- Operator
    SlowTimer = {}
    ChanCap <- MCChanCap
SYMMETRY ThreeSymmetry
CHECK_DEADLOCK FALSE
INVARIANTS
    TypeOK
    ConnectNeverStranded
    RetryCounterBounded
    NeverConfirmedWithoutDelayOpen
