------------------------------ MODULE Ordering ------------------------------
(***************************************************************************)
(* What slice::sort_by and Vec::retain leave of a sequence, said by the    *)
(* rank of each element and not by a recursion over the sequence.          *)
(***************************************************************************)
EXTENDS Integers, FiniteSets

\* The place of i among the indices S: those with a lower key go before it, and
\* those with an equal key that stood before it, for the sort is stable.
Rank(S, key, i) ==
    Cardinality({j \in S : key[j] < key[i] \/ (key[j] = key[i] /\ j <= i)})

Arranged(s, S, key) ==
    [n \in 1..Cardinality(S) |-> s[CHOOSE i \in S : Rank(S, key, i) = n]]

\* sort_by the keys of the elements, lowest first.
Sorted(s, key) == Arranged(s, DOMAIN s, key)

\* retain the elements at the indices S, in their order.
Kept(s, S) == Arranged(s, S, [i \in S |-> i])

=============================================================================
