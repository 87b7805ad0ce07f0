--------------------------- MODULE MCUserWatches ---------------------------
(* UserWatches on a small instance. *)
EXTENDS UserWatches

CONSTANTS c1, c2, x, y, p1

=============================================================================
