SPECIFICATION TimedSpec
CONSTANTS
    None = None
    c1 = c1
    Conn <- OneConn
    LocalOpen <- Local
    PeerOpen <- Peer
    FarFuture = 200000
    DelayOpen = TRUE
    DelayOpenTime = 6
    SendNotificationWithoutOpen = FALSE
    CollisionDetectEstablishedState = FALSE
    AdminEvent <- Started
    SlowTimer <- TimerKind
    ChanCap <- TimedChanCap
    Arm <- Arms
    CtrCap = 2
    MaxOps = 1
CHECK_DEADLOCK FALSE
PROPERTY
    ImplementsSession
