\* A second process on the same database.
SPECIFICATION Spec
CONSTANTS
    r1 = r1
    r2 = r2
    c1 = c1
    c2 = c2
    Recordings = {r1}
    Callers = {c1}
    Streams = {"book"}
    BroadcastCap = 1
    QueueCap = 1
    MaxSent = 1
    MaxFaults = 0
    MaxCrashes = 0
    Shared = TRUE
INVARIANTS InterruptedIsOver
CHECK_DEADLOCK FALSE
