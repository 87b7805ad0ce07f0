\* Book updates with two gaps, a write that fails, a crash, a restart and a neighbour.
SPECIFICATION Spec
CONSTANTS
    r1 = r1
    r2 = r2
    c1 = c1
    c2 = c2
    Recordings = {r1}
    Callers = {c1}
    Streams = {"book"}
    BroadcastCap = 1
    QueueCap = 1
    MaxSent = 3
    MaxFaults = 1
    MaxCrashes = 1
    Shared = TRUE
INVARIANTS NoSilentGap RecordedInOrder DroppedExact FlushedAtStop ActiveIsAttended
PROPERTIES StoppedForGood
CHECK_DEADLOCK FALSE
