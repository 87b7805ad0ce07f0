\* A stop that follows a stop that failed.
SPECIFICATION Spec
CONSTANTS
    r1 = r1
    r2 = r2
    c1 = c1
    c2 = c2
    Recordings = {r1}
    Callers = {c1}
    Streams = {"book"}
    BroadcastCap = 1
    QueueCap = 1
    MaxSent = 1
    MaxFaults = 1
    MaxCrashes = 0
    Shared = FALSE
INVARIANTS RetriedStopFinal
CHECK_DEADLOCK FALSE
