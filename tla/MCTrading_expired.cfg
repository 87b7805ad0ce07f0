\* Is a row marked expired ever that of a submitted order?
SPECIFICATION Spec
CONSTANTS
    c1 = c1
    c2 = c2
    a = a
    b = b
    d = d
    Nobody = Nobody
    Calls = {c1, c2}
    Ids = {a, b}
    Notional <- PairNotional
    MaxNotional = 2
    BatchLimit = 2
    DbMayFail = FALSE
    MayCrash = FALSE
INVARIANTS
    ExpiredMeansUnsent
