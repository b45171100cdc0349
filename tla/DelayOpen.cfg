SPECIFICATION Spec
CONSTANTS
    None = None
    c1 = c1
    c2 = c2
    c3 = c3
    Conn <- TwoConns
    LocalOpen <- Local
    PeerOpen <- HighPeer
    FarFuture = 200000
    DelayOpen = TRUE
    DelayOpenTime = 6
    SendNotificationWithoutOpen = TRUE
    CollisionDetectEstablishedState = TRUE
    AdminEvent <- PlainEvent
    SlowTimer = {}
    ChanCap <- SmallChanCap
SYMMETRY TwoSymmetry
CHECK_DEADLOCK FALSE
INVARIANTS
    ConfirmedIsWired
    HoldTimerArmed
    TimerBelief
    HandshakeTimersOff
    NoAttemptInActive
PROPERTY
    ImplementsAbstractSession
