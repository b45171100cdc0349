SPECIFICATION Spec
CONSTANTS
    None = None
    c1 = c1
    c2 = c2
    c3 = c3
    Conn <- ThreeConns
    LocalOpen <- Local
    PeerOpen <- LowPeer
    FarFuture = 200000
    DelayOpen = TRUE
    DelayOpenTime = 6
    SendNotificationWithoutOpen = FALSE
    CollisionDetectEstablishedState = TRUE
    AdminEvent <- Started
    SlowTimer = {"ConnectRetry"}
    ChanCap <- SilentChanCap
SYMMETRY ThreeSymmetry
CHECK_DEADLOCK FALSE
INVARIANTS
    OneOpenPerConnection
    HoldTimerArmed
    ConnectNeverStranded
    OpenPrecedesKeepalive
PROPERTIES
    LocalWinnerKeepsConnection
