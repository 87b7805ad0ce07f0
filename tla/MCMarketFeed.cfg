\* One token, two prices, one of them of two texts, two sizes; one change of two levels,
\* two connections; one event retained.
SPECIFICATION Spec
CONSTANTS
    yes = yes
    p = p
    None = None
    Tokens = {yes}
    Texts = {"1", "2", "2.0"}
    Value <- TwoPrices
    Sizes = {1, 2}
    MaxChanges = 1
    MaxConnections = 2
    Pollers = {p}
    Retained = 1
    Limits = {1}
    MaxEvents = 1
INVARIANTS InStep Executable PublishedLast
CHECK_DEADLOCK FALSE
