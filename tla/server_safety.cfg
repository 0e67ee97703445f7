\* Two connections and two streams each, with an interceptor.
SPECIFICATION Spec
CONSTANTS
    Conns = {c1, c2}
    Reqs = {r1, r2}
    MaxFiles = 2
    Interceptor = TRUE
SYMMETRY Symmetry
INVARIANTS
    TypeOK
    WatchExact
    GracefulMeansDrained
    StopsOnlyOnSignal
    ListenerClosed
    NoIdleAfterNotice
    RequestsLostOnlyTo
CHECK_DEADLOCK FALSE
