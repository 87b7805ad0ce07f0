-------------------------- MODULE MCMarketResearch --------------------------
(* MarketResearch on a small instance. *)
EXTENDS MarketResearch

CONSTANTS u, v, w, x

\* Three featured events.
FeaturedEvents == <<{1, 4}, {2}, {3, 5}>>

\* Two binary markets, one of a single outcome, one without outcomes.
BinaryOutcomes == << <<u, v>>, <<NoToken>>, << >>, <<w, x>>, <<u, NoToken>> >>

\* An event of three legs, one with a leg that has no token, one too small for a basket.
SmallEvents == {<<4, 1, 5>>, <<2, 1>>, <<1>>}

Level(price, size) == [price |-> price, size |-> size]

\* Unsorted levels, an empty level at the top, an empty side, nothing at all.
SmallBooks == {
    [bids |-> <<Level(1, 1), Level(2, 2)>>, asks |-> <<Level(4, 2), Level(3, 1)>>],
    [bids |-> <<Level(2, 1)>>, asks |-> <<Level(3, 0), Level(4, 2)>>],
    [bids |-> << >>, asks |-> <<Level(2, 2)>>]}

=============================================================================
