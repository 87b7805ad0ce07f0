---------------------------- MODULE MCPublicHttp ----------------------------
(* PublicHttp on a small instance. *)
EXTENDS PublicHttp, TLC

CONSTANTS r1, r2, r3, r4, a, b, k1, k2, k3

Symmetries == Permutations(Requests) \cup Permutations(Clients) \cup Permutations(Keys)

=============================================================================
