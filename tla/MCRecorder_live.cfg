\* Events of one recording and two stop calls, under fairness, with a write that fails.
SPECIFICATION FairSpec
CONSTANTS
    r1 = r1
    r2 = r2
    c1 = c1
    c2 = c2
    Recordings = {r1}
    Callers = {c1, c2}
    Streams = {"event"}
    BroadcastCap = 1
    QueueCap = 1
    MaxSent = 2
    MaxFaults = 1
    MaxCrashes = 0
    Shared = FALSE
PROPERTIES Delivered StopReturns
CHECK_DEADLOCK FALSE
