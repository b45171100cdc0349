SPECIFICATION FairSpec
CONSTANTS
    NoPeer = NoPeer
    OverflowChecks = TRUE
    Streams <- SomeStreams
    Piece <- Pieces
    OutMsg <- Messages
    BgpCap = 1
    OutCap = 1
    MaxOut = 2
CHECK_DEADLOCK FALSE
INVARIANTS
    TypeOK
    ToldInOrder
    PiecesDoNotMatter
PROPERTIES
    AllIsTold
    DroppedChannelDrains
