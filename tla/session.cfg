\* Life and leeway of one second each, in half seconds.
SPECIFICATION Spec
CONSTANTS
    Users = {u1, u2}
    Secrets = {s1, s2}
    Life = 1
    Leeway = 1
    MaxNow = 7
    MaxNet = 2
SYMMETRY Symmetry
INVARIANTS
    TypeOK
    LiveCookieAccepted
    AcceptedInTime
    LogoutClears
CHECK_DEADLOCK FALSE
