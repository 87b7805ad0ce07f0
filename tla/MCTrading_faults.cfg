\* Two calls, three approvals under a cap that takes two of them in one batch, failing
\* audit writes, restarts.
SPECIFICATION Spec
CONSTANTS
    c1 = c1
    c2 = c2
    a = a
    b = b
    d = d
    Nobody = Nobody
    Calls = {c1, c2}
    Ids = {a, b, d}
    Notional <- TripleNotional
    MaxNotional = 2
    BatchLimit = 2
    DbMayFail = TRUE
    MayCrash = TRUE
SYMMETRY Symmetry
INVARIANTS SingleUse SentNeverRetryable ExclusiveClaim AuditedBeforeUsable SettledForgotten
PROPERTIES FrozenOnceUnreachable
