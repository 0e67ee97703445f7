SPECIFICATION Spec
CONSTANT Timeout = 3
INVARIANT NoDataMeansTimedOut
CHECK_DEADLOCK FALSE
