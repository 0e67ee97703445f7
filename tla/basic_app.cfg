\* One client with two streams.  The program's durations in units of ten seconds,
\* but for Idle, which is 12 there: here the least that is over Layer.
SPECIFICATION AppFairSpec
CONSTANTS
    Conns = {c1}
    Reqs = {r1, r2}
    MaxFiles = 1
    Interceptor = FALSE
    Drain = 1
    Slow = 2
    Layer = 3
    Idle = 4
INVARIANTS
    AppTypeOK
    TimersNest
    ForcedExitSpares
PROPERTIES
    RequestSettles
CHECK_DEADLOCK FALSE
