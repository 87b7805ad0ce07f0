----------------------------- MODULE MCTrading -----------------------------
(* Instances of Trading for TLC. *)
EXTENDS TradingRefinement, TLC

CONSTANTS c1, c2, a, b, d

\* Two orders of one pUSD.
PairNotional == a :> 1 @@ b :> 1

\* Under a cap of two, a and b fit into one batch, d fits only alone.
TripleNotional == a :> 1 @@ b :> 1 @@ d :> 2

\* a and b weigh the same.
Symmetry == Permutations(Calls) \cup Permutations({a, b})

=============================================================================
