SPECIFICATION FairSpec
CONSTANT Timeout = 3
INVARIANTS
    TypeOK
    StaysWatched
PROPERTIES
    ImplementsIdleTimer
    SilentPeerCut
CHECK_DEADLOCK FALSE
