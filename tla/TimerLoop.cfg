SPECIFICATION FairSpec
CONSTANTS
    TimerKind <- Kinds
    FarFuture = 200000
    Arm <- Arms
    CtrCap = 2
    OutCap = 1
    MaxOps = 0
CHECK_DEADLOCK FALSE
INVARIANTS
    TypeOK
    OrdersKept
PROPERTIES
    ImplementsTimerService
    OrdersAreGiven
    OrdersTakeEffect
    TimersOutliveRun
