\* Four requests of two clients for three briefs, one allowed per window of three ticks,
\* room for two briefs, and for one window before old ones are forgotten.
SPECIFICATION Spec
CONSTANTS
    r1 = r1
    r2 = r2
    r3 = r3
    r4 = r4
    a = a
    b = b
    k1 = k1
    k2 = k2
    k3 = k3
    Requests = {r1, r2, r3, r4}
    Clients = {a, b}
    Keys = {k1, k2, k3}
    NoKey = NoKey
    Ttl = 1
    MaxBriefs = 2
    MaxTime = 3
    Limit = 1
    Window = 3
    MaxClients = 1
    MaxWait = 1
SYMMETRY Symmetries
INVARIANTS TwiceTheLimit GaugeOffByDropped
PROPERTY BoundedCache
CHECK_DEADLOCK FALSE
