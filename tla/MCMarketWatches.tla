-------------------------- MODULE MCMarketWatches --------------------------
(* MarketWatches on a small instance. *)
EXTENDS MarketWatches

CONSTANTS c1, c2, x, y, z

=============================================================================
