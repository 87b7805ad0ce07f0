-------------------------- MODULE TradingRefinement --------------------------
(***************************************************************************)
(* Trading implements SingleUseApproval.  The audit row says what is open, *)
(* the calls between claim and hand-over say what is taken, and a hand-over *)
(* to the exchange is a use.  A row that is neither open nor taken nor     *)
(* used has lapsed or was lost.                                            *)
(***************************************************************************)
EXTENDS Trading

Issued == {id \in Ids : status[id] # "none"}
Open   == {id \in Ids : status[id] = "approved"}
Taken  == [c \in Calls |-> Owned(c)]

Approval == INSTANCE SingleUseApproval WITH
    issued <- Issued, open <- Open, taken <- Taken, uses <- sent

\* Whatever place, place_batch, their failures and a restart do to the rows
\* and to the approvals map is a legal step of a single-use approval, or none.
ImplementsSingleUse == Approval!ASpec

=============================================================================
