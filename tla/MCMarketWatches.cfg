\* Two calls, three token lists, room for two watches, three ids, one connection that
\* fails; fair tasks and calls.
SPECIFICATION FairSpec
CONSTANTS
    c1 = c1
    c2 = c2
    x = x
    y = y
    z = z
    Callers = {c1, c2}
    TokenLists = {x, y, z}
    Unasked = Unasked
    MaxActive = 2
    MaxId = 3
    MaxFailures = 1
INVARIANTS Admitted Attended HealthTruthful
PROPERTIES RetiredForGood StoppedTaskEnds WatchConnects
CHECK_DEADLOCK FALSE
