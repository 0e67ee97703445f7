\* Two flights, as in TLS 1.3, and an interval of three ticks.
SPECIFICATION FairSpec
CONSTANTS
    Timeout = 3
    Unrepresentable = FALSE
    Flights = 2
    MaxBurst = 2
INVARIANTS
    TypeOK
    NeverPanics
    NoHollowSuccess
    HandshakeBounded
PROPERTIES
    HandshakeEnds
    ImplementsIdleTimer
CHECK_DEADLOCK FALSE
