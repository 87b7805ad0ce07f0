\* Two calls, three sets of conditions of which the pair is one too many, room for
\* two watches, three ids; the events of the second watch, two retained of three.
SPECIFICATION FairUserSpec
CONSTANTS
    c1 = c1
    c2 = c2
    x = x
    y = y
    p1 = p1
    Callers = {c1, c2}
    Conditions = {x, y}
    MaxConditions = 1
    MaxWatches = 2
    MaxId = 3
    Followed = 2
    Pollers = {p1}
    Retained = 2
    Limits = {1, 3}
    MaxEvents = 3
INVARIANTS OnePerConditions DeadSaysSo
PROPERTIES ImplementsGapAwareLog StoppedLoopEnds CaughtUpOrStopped
CHECK_DEADLOCK FALSE
