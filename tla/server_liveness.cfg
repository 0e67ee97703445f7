\* No symmetry: liveness.  Three clients, one descriptor, no interceptor.
SPECIFICATION FairSpec
CONSTANTS
    Conns = {c1, c2, c3}
    Reqs = {r1}
    MaxFiles = 1
    Interceptor = FALSE
PROPERTIES
    ShutdownCompletes
    NoticeReachesAll
    QueuedSettles
    ImplementsDrain
CHECK_DEADLOCK FALSE
