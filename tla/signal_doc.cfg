\* A signal before the first poll of the task.
SPECIFICATION Spec
CONSTANTS
    Chans = {c1}
    Recvs = {r1}
INVARIANT SubscribedNotKilled
CHECK_DEADLOCK FALSE
