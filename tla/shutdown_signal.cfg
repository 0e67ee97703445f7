\* Two channels and two receivers: apart, or both on one channel.
SPECIFICATION FairSpec
CONSTANTS
    Chans = {c1, c2}
    Recvs = {r1, r2}
INVARIANTS
    TypeOK
    NoSpuriousShutdown
    SettledNeverKilled
PROPERTIES
    AllTold
    ImplementsSignal
CHECK_DEADLOCK FALSE
