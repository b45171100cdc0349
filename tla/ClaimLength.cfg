SPECIFICATION Spec
CONSTANTS
    NoPeer = NoPeer
    OverflowChecks = TRUE
    PrefixLength <- AllLengths
    OpenFields <- Fields
    Frames <- SomeFrames
    Withdrawn <- WithdrawnLists
    Attributes <- AttributeLists
    Following <- SomeFollowing
    Peers <- BothPeers
CHECK_DEADLOCK FALSE
INVARIANT
    MessageEndsAtItsLength
