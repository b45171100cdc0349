SPECIFICATION FairSpec
CONSTANTS
    None = None
    c1 = c1
    c2 = c2
    c3 = c3
    Conn <- TwoConns
    LocalOpen <- Local
    PeerOpen <- HighPeerDefaultHold
    FarFuture = 200000
    DelayOpen = TRUE
    DelayOpenTime = 6
    SendNotificationWithoutOpen = FALSE
    CollisionDetectEstablishedState = FALSE
    AdminEvent <- Started
    SlowTimer = {"DelayOpen", "Hold", "Keepalive"}
    ChanCap <- InboundChanCap
CHECK_DEADLOCK FALSE
INVARIANTS
    PeerCannotEstablish
    OneOpenPerConnection
PROPERTIES
    OpenConfirmEnds
