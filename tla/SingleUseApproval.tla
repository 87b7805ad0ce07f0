------------------------- MODULE SingleUseApproval -------------------------
(***************************************************************************)
(* What the trading tools promise about approvals, without saying how: an  *)
(* issued approval is open; a call takes a set of open approvals for       *)
(* itself, all or none; it gives them back, loses them, or uses them, and  *)
(* a used approval is gone for good.  Open approvals may lapse, and a      *)
(* crash loses whatever was taken.                                         *)
(***************************************************************************)
EXTENDS Naturals

CONSTANTS Calls, Ids

VARIABLES
    issued,   \* approvals handed out so far
    open,     \* approvals some call may still take
    taken,    \* what each call has taken for itself
    uses      \* how often each approval was used

avars == <<issued, open, taken, uses>>

ATypeOK ==
    /\ issued \subseteq Ids
    /\ open \subseteq Ids
    /\ taken \in [Calls -> SUBSET Ids]
    /\ uses \in [Ids -> Nat]

AInit ==
    /\ issued = {}
    /\ open = {}
    /\ taken = [c \in Calls |-> {}]
    /\ uses = [id \in Ids |-> 0]

Issue(id) ==
    /\ id \notin issued
    /\ issued' = issued \cup {id}
    /\ open' = open \cup {id}
    /\ UNCHANGED <<taken, uses>>

Take(c, S) ==
    /\ taken[c] = {}
    /\ S \subseteq open
    /\ open' = open \ S
    /\ taken' = [taken EXCEPT ![c] = S]
    /\ UNCHANGED <<issued, uses>>

GiveBack(c) ==
    /\ open' = open \cup taken[c]
    /\ taken' = [taken EXCEPT ![c] = {}]
    /\ UNCHANGED <<issued, uses>>

Lose(c) ==
    /\ taken' = [taken EXCEPT ![c] = {}]
    /\ UNCHANGED <<issued, open, uses>>

Use(c) ==
    /\ uses' = [id \in Ids |-> IF id \in taken[c] THEN uses[id] + 1 ELSE uses[id]]
    /\ taken' = [taken EXCEPT ![c] = {}]
    /\ UNCHANGED <<issued, open>>

Lapse(S) ==
    /\ open' = open \ S
    /\ UNCHANGED <<issued, taken, uses>>

LoseAll ==
    /\ taken' = [c \in Calls |-> {}]
    /\ UNCHANGED <<issued, open, uses>>

ANext ==
    \/ \E id \in Ids : Issue(id)
    \/ \E c \in Calls :
          \/ \E S \in SUBSET Ids : Take(c, S)
          \/ GiveBack(c) \/ Lose(c) \/ Use(c)
    \/ \E S \in SUBSET Ids : Lapse(S)
    \/ LoseAll

ASpec == AInit /\ [][ANext]_avars

\* No approval is used twice, whoever takes, returns or loses it in between.
UsedOnce == \A id \in Ids : uses[id] <= 1

\* The inductive strengthening: an approval is in at most one place.
AInv ==
    /\ ATypeOK
    /\ UsedOnce
    /\ open \subseteq issued
    /\ \A id \in Ids : uses[id] > 0 => id \in issued \ open
    /\ \A c \in Calls : \A id \in taken[c] :
          /\ id \in issued \ open
          /\ uses[id] = 0
          /\ \A d \in Calls \ {c} : id \notin taken[d]

=============================================================================
