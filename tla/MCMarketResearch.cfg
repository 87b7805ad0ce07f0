\* Five markets in pages of two below a ceiling of two pages, one change upstream; scans
\* of two markets and events of three legs with two requests in flight and three books.
SPECIFICATION Spec
CONSTANTS
    u = u
    v = v
    w = w
    x = x
    Markets = {1, 2, 3, 4, 5}
    Volumes = {0, 1}
    Events <- FeaturedEvents
    PageSize = 2
    Ceiling = 2
    Limits = {1, 2}
    MaxClosed = 1
    MaxChanges = 1
    One = 6
    Tokens = {u, v, w, x}
    NoToken = NoToken
    Outcomes <- BinaryOutcomes
    LegLists <- SmallEvents
    Books <- SmallBooks
    Failed = Failed
    MaxInFlight = 2
    ScanLimit = 2
    Depths = {1, 2}
    Bands = {1}
    Samples = {1, 2, 4}
    Prices = {1, 2, 3}
    MaxPoints = 4
INVARIANTS PagesAdjoin AnalysisSound BasketExecutable OwnBooks HistoryEnds
CHECK_DEADLOCK FALSE
