---------------------------- MODULE GapAwareLog ----------------------------
(***************************************************************************)
(* What a poller of a bounded event log may rely on, whatever the log      *)
(* keeps: it goes forward, and learns of every event either the event or   *)
(* that it is lost.                                                        *)
(***************************************************************************)
EXTENDS Naturals

CONSTANT Pollers

VARIABLES
    written,   \* events so far
    upto,      \* how far each poller has come
    seen,      \* the events it got
    missed     \* the events it was told are lost

vars == <<written, upto, seen, missed>>

Init ==
    /\ written = 0
    /\ upto = [p \in Pollers |-> 0]
    /\ seen = [p \in Pollers |-> {}]
    /\ missed = [p \in Pollers |-> {}]

Write == written' = written + 1 /\ UNCHANGED <<upto, seen, missed>>

\* The next events up to some `last`, the first of them lost, the others delivered.
Deliver(p) ==
    \E gap, last \in upto[p]..written :
        /\ gap < last
        /\ upto' = [upto EXCEPT ![p] = last]
        /\ missed' = [missed EXCEPT ![p] = @ \cup (upto[p] + 1)..gap]
        /\ seen' = [seen EXCEPT ![p] = @ \cup (gap + 1)..last]
        /\ UNCHANGED written

Next == Write \/ \E p \in Pollers : Deliver(p)

Spec == Init /\ [][Next]_vars

=============================================================================
