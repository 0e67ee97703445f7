SPECIFICATION TlsFairSpec
CONSTANTS
    Conns = {c1}
    MaxGen = 2
    Reqs = {r1}
    MaxFiles = 1
    Interceptor = FALSE
INVARIANTS
    TlsTypeOK
    ServedWhole
    NothingLost
PROPERTIES
    OnlyNewAffected
    NeverOlder
    RotationServed
CHECK_DEADLOCK FALSE
