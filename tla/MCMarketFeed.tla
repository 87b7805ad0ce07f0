---------------------------- MODULE MCMarketFeed ----------------------------
(* MarketFeed on small instances. *)
EXTENDS MarketFeed

CONSTANTS yes, p

\* A price of one text, and one of two.
TwoPrices == [x \in {"1", "2", "2.0"} |-> IF x = "1" THEN 1 ELSE 2]

=============================================================================
