\* with_timeout(Duration::MAX)
SPECIFICATION Spec
CONSTANTS
    Timeout = 3
    Unrepresentable = TRUE
    Flights = 2
    MaxBurst = 2
INVARIANT ReadyIsReturned
CHECK_DEADLOCK FALSE
