--------------------------- MODULE TradingProofs ---------------------------
(***************************************************************************)
(* Theorems about Trading, for any calls, ids, notionals and bounds.       *)
(*                                                                         *)
(* The argument: a step of one call leaves the locals of every other call  *)
(* alone (OthersKept) and changes only rows no other call owns (RowsKept), *)
(* so the inductive invariant has to be looked at for that call only       *)
(* (CallStep).  On top of it come what no step can get hold of             *)
(* (KeepsOff), what is settled (SettleStep), what is claimed               *)
(* (KeepsClaims), and that the protocol implements SingleUseApproval.      *)
(***************************************************************************)
EXTENDS TradingRefinement, SequenceLemmas, TLAPS

\* The ids of a call are approval ids, by whatever position.
LEMMA RangeOfIds ==
    ASSUME NEW s \in Seq(Ids)
    PROVE  /\ Range(s) \subseteq Ids
           /\ \A i \in 1..Len(s) : s[i] \in Range(s)
    BY DEF Range

LEMMA RangeOfEmpty == Range(<< >>) = {}
    BY DEF Range

LEMMA RangeOfOne == \A id : Range(<<id>>) = {id}
    BY DEF Range

OthersKept(c) ==
    \A d \in Calls \ {c} :
        pc'[d] = pc[d] /\ kind'[d] = kind[d] /\ ids'[d] = ids[d] /\ at'[d] = at[d]

\* What a step of c may do to a row: mark it expired, settle one that was sent,
\* or anything to one that c owns or that was not claimed yet; and it may send
\* what it owns, which it then owns no more.
RowsKept(c) ==
    \A id \in Ids :
        /\ status[id] # "none" => status'[id] # "none"
        /\ \/ status'[id] = status[id]
           \/ status'[id] = "expired"
           \/ sent[id] = 1 /\ status'[id] \in {"submitted", "unknown"}
           \/ id \in Owned(c)
           \/ status[id] \in {"none", "approved"}
        /\ \/ sent'[id] = sent[id]
           \/ /\ id \in Owned(c)
              /\ id \notin Owned(c)'
              /\ sent'[id] = 1
              /\ status'[id] \in {"submitting", "expired"}

\* Only ids with a row enter the approvals map.
PlansKept == plans' \subseteq Ids /\ \A id \in plans' : id \in plans \/ status[id] # "none"

\* What c owns after its step it owned before, or it was open to any call.
ClaimsFairly(c) ==
    \A id \in Owned(c)' : id \in Owned(c) \/ status[id] = "approved"

LEMMA CallStep ==
    ASSUME IInv, NEW c \in Calls, OthersKept(c), RowsKept(c), PlansKept, ClaimsFairly(c),
           TypeOK', ShapeOf(c)', OwnedRowsOf(c)', KnownRowsOf(c)'
    PROVE  IInv'
<1> USE DEF IInv
<1>1. ASSUME NEW d \in Calls, d # c
      PROVE  Owned(d)' = Owned(d) /\ Owned(d) \subseteq Ids /\ Range(ids[d]) \subseteq Ids
    BY <1>1, RangeOfIds DEF OthersKept, Owned, TypeOK, CallTypes
<1>2. Owned(c) \subseteq Ids /\ Owned(c)' \subseteq Ids
    BY RangeOfIds DEF Owned, TypeOK, CallTypes
<1>3. ASSUME NEW d \in Calls, d # c
      PROVE  ShapeOf(d)'
    BY <1>3 DEF OthersKept, ShapeOf
<1>4. ASSUME NEW d \in Calls, d # c, NEW id \in Owned(d)
      PROVE  id \notin Owned(c) /\ id \notin Owned(c)' /\ sent[id] = 0
             /\ status[id] \notin {"none", "approved"}
    BY <1>4, <1>1 DEF OwnersDisjoint, OwnedRowsOf, ClaimsFairly
<1>5. ASSUME NEW d \in Calls, d # c
      PROVE  OwnedRowsOf(d)'
  <2> SUFFICES ASSUME NEW id \in Owned(d)
               PROVE  /\ sent'[id] = 0
                      /\ status'[id] \in IF pc'[d] = "post" THEN {"submitting", "expired"}
                                                            ELSE {"validating", "expired"}
      BY <1>1, <1>5 DEF OwnedRowsOf
  <2>1. pc'[d] = pc[d]
      BY <1>5 DEF OthersKept
  <2>2. sent'[id] = sent[id] /\ (status'[id] = status[id] \/ status'[id] = "expired")
      BY <1>4, <1>1, <1>5 DEF RowsKept
  <2> QED
      BY <2>1, <2>2, <1>5 DEF OwnedRowsOf
<1>6. ASSUME NEW d \in Calls, d # c
      PROVE  KnownRowsOf(d)'
  <2>1. \A id \in Range(ids[d]) : id \in Ids /\ (sent[id] = 1 => sent'[id] = 1)
                                 /\ (status[id] # "none" => status'[id] # "none")
      BY <1>1, <1>6 DEF RowsKept
  <2>2. pc'[d] = pc[d] /\ ids'[d] = ids[d]
      BY <1>6 DEF OthersKept
  <2> QED
      BY <2>1, <2>2, <1>6 DEF KnownRowsOf
<1>7. OwnersDisjoint'
  <2> SUFFICES ASSUME NEW d \in Calls, NEW e \in Calls, d # e,
                      NEW id \in Owned(d)', id \in Owned(e)'
               PROVE  FALSE
      BY DEF OwnersDisjoint
  <2>1. CASE d = c
      BY <2>1, <1>4, <1>1
  <2>2. CASE e = c
      BY <2>2, <1>4, <1>1
  <2>3. CASE d # c /\ e # c
      BY <2>3, <1>1 DEF OwnersDisjoint
  <2> QED
      BY <2>1, <2>2, <2>3
<1>8. SentRows'
  <2> SUFFICES ASSUME NEW id \in Ids
               PROVE  /\ sent'[id] \in {0, 1}
                      /\ sent'[id] = 1 => status'[id] \in {"submitting", "submitted", "unknown", "expired"}
      BY DEF SentRows
  <2>1. CASE sent'[id] = sent[id]
    <3>1. id \in Owned(c) => sent[id] = 0
        BY DEF OwnedRowsOf
    <3> QED
        BY <2>1, <3>1 DEF RowsKept, SentRows
  <2>2. CASE sent'[id] # sent[id]
      BY <2>2 DEF RowsKept
  <2> QED
      BY <2>1, <2>2
<1>9. AuditedBeforeUsable'
    BY DEF PlansKept, RowsKept, AuditedBeforeUsable, TypeOK, RowTypes
<1> QED
    BY <1>3, <1>5, <1>6, <1>7, <1>8, <1>9

LEMMA InitInv == Init => IInv
<1> SUFFICES ASSUME Init PROVE IInv
    OBVIOUS
<1> USE DEF Init
<1>1. RowTypes /\ LockTypes
    BY DEF RowTypes, LockTypes, Status
<1>2. CallTypes
    BY DEF CallTypes, PC, Kind, NoAnswer
<1>3. \A c \in Calls : Owned(c) = {}
    BY DEF Owned, Owning
<1>4. \A c \in Calls : ShapeOf(c) /\ OwnedRowsOf(c) /\ KnownRowsOf(c)
    BY <1>3 DEF ShapeOf, OwnedRowsOf, KnownRowsOf
<1>5. OwnersDisjoint
    BY <1>3 DEF OwnersDisjoint
<1>6. SentRows /\ AuditedBeforeUsable
    BY DEF SentRows, AuditedBeforeUsable
<1> QED
    BY <1>1, <1>2, <1>4, <1>5, <1>6 DEF IInv, TypeOK

-----------------------------------------------------------------------------
(* What the building blocks of the handlers do to the call that takes them. *)

LEMMA ReturnFacts ==
    ASSUME IInv, NEW c \in Calls, Return(c)
    PROVE  /\ OthersKept(c) /\ CallTypes'
           /\ approvalsLock' \in Calls \cup {Nobody} /\ contextLock' \in Calls \cup {Nobody}
           /\ Owned(c)' = {} /\ ClaimsFairly(c)
           /\ ShapeOf(c)' /\ OwnedRowsOf(c)' /\ KnownRowsOf(c)'
<1> USE DEF Return, IInv, TypeOK
<1>1. OthersKept(c)
    BY DEF OthersKept, CallTypes
<1>2. CallTypes'
    BY DEF CallTypes, PC, Kind, NoAnswer
<1>3. approvalsLock' \in Calls \cup {Nobody} /\ contextLock' \in Calls \cup {Nobody}
    BY DEF LockTypes
<1>4. pc'[c] = "idle" /\ kind'[c] = "none" /\ ids'[c] = << >>
    BY DEF CallTypes
<1>5. Owned(c)' = {}
    BY <1>4 DEF Owned, Owning
<1> QED
    BY <1>1, <1>2, <1>3, <1>4, <1>5 DEF ClaimsFairly, ShapeOf, OwnedRowsOf, KnownRowsOf

LEMMA GotoFacts ==
    ASSUME IInv, NEW c \in Calls, NEW label \in PC, Goto(c, label), UNCHANGED work
    PROVE  /\ OthersKept(c) /\ CallTypes'
           /\ pc'[c] = label /\ kind'[c] = kind[c] /\ ids'[c] = ids[c] /\ at'[c] = at[c]
    BY DEF Goto, work, IInv, TypeOK, OthersKept, CallTypes

LEMMA SetStatusTypes ==
    ASSUME IInv, NEW S, NEW new \in Status, SetStatus(S, new)
    PROVE  /\ status' \in [Ids -> Status]
           /\ \A id \in Ids : status'[id] = IF id \in S THEN new ELSE status[id]
    BY DEF SetStatus, IInv, TypeOK, RowTypes

LEMMA WriteStatusFacts ==
    ASSUME IInv, NEW c \in Calls, NEW new \in Status, WriteStatus(c, new)
    PROVE  /\ status' \in [Ids -> Status] /\ orderIds' \subseteq Ids
           /\ \A id \in Ids : status'[id] = IF id \in Range(ids[c]) THEN new ELSE status[id]
    BY SetStatusTypes DEF WriteStatus, IInv, TypeOK, RowTypes

LEMMA WriteFailsInv ==
    ASSUME IInv, NEW c \in Calls, WriteFails(c)
    PROVE  IInv'
<1>1. Return(c) /\ UNCHANGED <<audit, plans, authenticated, due, sent>>
    BY DEF WriteFails
<1>2. RowsKept(c) /\ PlansKept
    BY <1>1 DEF RowsKept, PlansKept, audit, IInv, TypeOK, RowTypes
<1>3. TypeOK'
    BY <1>1, ReturnFacts DEF IInv, TypeOK, RowTypes, LockTypes, audit
<1> QED
    BY <1>1, <1>2, <1>3, ReturnFacts, CallStep

-----------------------------------------------------------------------------
(* One lemma per action. *)

LEMMA StartPreviewInv ==
    ASSUME IInv, NEW c \in Calls, NEW id \in Ids, StartPreview(c, id)
    PROVE  IInv'
<1> USE DEF StartPreview, Goto
<1>1. OthersKept(c) /\ CallTypes'
    BY DEF IInv, TypeOK, OthersKept, CallTypes, PC, Kind
<1>2. pc'[c] = "remember" /\ kind'[c] = "preview" /\ ids'[c] = <<id>>
    BY DEF IInv, TypeOK, CallTypes
<1>3. Owned(c)' = {}
    BY <1>2 DEF Owned, Owning
<1>4. /\ status' \in [Ids -> Status]
      /\ \A i \in Ids : status'[i] = IF i = id THEN "approved" ELSE status[i]
    BY SetStatusTypes DEF Status
<1>5. TypeOK'
    BY <1>1, <1>4 DEF IInv, TypeOK, RowTypes, LockTypes, locks
<1>6. RowsKept(c) /\ PlansKept
    BY <1>4 DEF RowsKept, PlansKept, IInv, TypeOK, RowTypes
<1>7. ClaimsFairly(c) /\ ShapeOf(c)' /\ OwnedRowsOf(c)' /\ KnownRowsOf(c)'
    BY <1>2, <1>3, <1>4, RangeOfOne DEF ClaimsFairly, ShapeOf, OwnedRowsOf, KnownRowsOf
<1> QED
    BY <1>1, <1>5, <1>6, <1>7, CallStep

LEMMA ClaimInv ==
    ASSUME IInv, NEW c \in Calls, Claim(c)
    PROVE  IInv'
<1>1. CASE /\ \A id \in Range(ids[c]) : Claimable(id)
           /\ SetStatus(Range(ids[c]), "validating")
           /\ Goto(c, "enter")
           /\ UNCHANGED <<orderIds, plans, locks, authenticated, work, due, sent>>
  <2>1. /\ OthersKept(c) /\ CallTypes' /\ UNCHANGED work
        /\ pc'[c] = "enter" /\ kind'[c] = kind[c] /\ ids'[c] = ids[c]
      BY <1>1, GotoFacts DEF PC
  <2>2. /\ status' \in [Ids -> Status]
        /\ \A id \in Ids : status'[id] = IF id \in Range(ids[c]) THEN "validating" ELSE status[id]
      BY <1>1, SetStatusTypes DEF Status
  <2>3. TypeOK'
      BY <1>1, <2>1, <2>2 DEF IInv, TypeOK, RowTypes, LockTypes, locks
  <2>4. Range(ids[c]) \subseteq Ids /\ Owned(c)' = Range(ids[c])
      BY <2>1, RangeOfIds DEF Owned, Owning, IInv, TypeOK, CallTypes
  <2>5. \A id \in Range(ids[c]) : status[id] = "approved" /\ sent[id] = 0
      BY <1>1, <2>4 DEF Claimable, IInv, SentRows
  <2>6. RowsKept(c) /\ PlansKept /\ ClaimsFairly(c)
      BY <1>1, <2>2, <2>4, <2>5 DEF RowsKept, PlansKept, ClaimsFairly, IInv, TypeOK, RowTypes
  <2>7. ShapeOf(c)' /\ KnownRowsOf(c)'
      BY <2>1 DEF ShapeOf, KnownRowsOf, IInv, Claim
  <2>8. OwnedRowsOf(c)'
      BY <1>1, <2>1, <2>2, <2>4, <2>5 DEF OwnedRowsOf
  <2> QED
      BY <2>1, <2>3, <2>6, <2>7, <2>8, CallStep
<1>2. CASE Return(c) /\ UNCHANGED <<audit, plans, authenticated, due, sent>>
  <2>1. RowsKept(c) /\ PlansKept
      BY <1>2 DEF RowsKept, PlansKept, audit, IInv, TypeOK, RowTypes
  <2>2. TypeOK'
      BY <1>2, ReturnFacts DEF IInv, TypeOK, RowTypes, LockTypes, audit
  <2> QED
      BY <1>2, <2>1, <2>2, ReturnFacts, CallStep
<1> QED
    BY <1>1, <1>2, WriteFailsInv DEF Claim

\* A step that writes no row and hands nothing over.
LEMMA QuietStep ==
    ASSUME IInv, NEW c \in Calls, OthersKept(c), CallTypes', LockTypes',
           UNCHANGED <<audit, due, sent>>, PlansKept,
           Owned(c)' \subseteq Owned(c), pc[c] # "post", pc'[c] # "post",
           ShapeOf(c)', KnownRowsOf(c)'
    PROVE  IInv'
<1>1. TypeOK'
    BY DEF IInv, TypeOK, RowTypes, PlansKept, audit
<1>2. RowsKept(c) /\ ClaimsFairly(c)
    BY DEF RowsKept, ClaimsFairly, audit
<1>3. OwnedRowsOf(c)'
    BY DEF OwnedRowsOf, IInv, audit
<1> QED
    BY <1>1, <1>2, <1>3, CallStep

\* A return that writes no row.
LEMMA QuietReturn ==
    ASSUME IInv, NEW c \in Calls, Return(c), UNCHANGED <<audit, due, sent>>,
           PlansKept, authenticated' \in BOOLEAN
    PROVE  IInv'
<1>1. RowsKept(c)
    BY DEF RowsKept, audit
<1>2. TypeOK'
    BY ReturnFacts DEF IInv, TypeOK, RowTypes, LockTypes, PlansKept, audit
<1> QED
    BY <1>1, <1>2, ReturnFacts, CallStep

LEMMA StartPlaceInv ==
    ASSUME IInv, NEW c \in Calls, NEW id \in Ids, StartPlace(c, id)
    PROVE  IInv'
<1> USE DEF StartPlace, Goto
<1>1. OthersKept(c) /\ CallTypes'
    BY DEF IInv, TypeOK, OthersKept, CallTypes, PC, Kind
<1>2. pc'[c] \in {"expire", "claim"} /\ kind'[c] = "place" /\ ids'[c] = <<id>>
    BY DEF IInv, TypeOK, CallTypes
<1>3. Owned(c)' = {}
    BY <1>2 DEF Owned, Owning
<1>4. LockTypes' /\ UNCHANGED <<audit, due, sent>> /\ PlansKept
    BY DEF PlansKept, IInv, TypeOK, RowTypes, LockTypes, locks
<1>5. ShapeOf(c)' /\ KnownRowsOf(c)'
    BY <1>2, RangeOfOne DEF ShapeOf, KnownRowsOf, IInv, AuditedBeforeUsable, audit
<1> QED
    BY <1>1, <1>2, <1>3, <1>4, <1>5, QuietStep

\* A batch is a non-empty sequence of approval ids.
LEMMA BatchesAreIds ==
    ASSUME NEW batch \in Batches
    PROVE  batch \in Seq(Ids) /\ batch # << >>
<1>1. PICK n \in 1..BatchLimit : batch \in [1..n -> Ids]
    BY DEF Batches
<1>2. n \in Nat \ {0}
    BY TradingAssumption
<1>3. batch \in Seq(Ids) /\ Len(batch) = n
    BY <1>1, <1>2
<1> QED
    BY <1>2, <1>3

LEMMA StartBatchInv ==
    ASSUME IInv, NEW c \in Calls, NEW batch \in Batches, StartBatch(c, batch)
    PROVE  IInv'
<1> USE DEF StartBatch, Goto
<1>1. OthersKept(c) /\ CallTypes'
    BY BatchesAreIds DEF IInv, TypeOK, OthersKept, CallTypes, PC, Kind
<1>2. pc'[c] = "check" /\ kind'[c] = "batch" /\ ids'[c] = batch
    BY DEF IInv, TypeOK, CallTypes
<1>3. Owned(c)' = {}
    BY <1>2 DEF Owned, Owning
<1>4. LockTypes' /\ UNCHANGED <<audit, due, sent>> /\ PlansKept
    BY DEF PlansKept, IInv, TypeOK, RowTypes, LockTypes
<1>5. ShapeOf(c)' /\ KnownRowsOf(c)'
    BY <1>2, BatchesAreIds DEF ShapeOf, KnownRowsOf
<1> QED
    BY <1>1, <1>2, <1>3, <1>4, <1>5, QuietStep

LEMMA StartAccountRequestInv ==
    ASSUME IInv, NEW c \in Calls, StartAccountRequest(c)
    PROVE  IInv'
<1> USE DEF StartAccountRequest, Goto
<1>1. OthersKept(c) /\ CallTypes'
    BY DEF IInv, TypeOK, OthersKept, CallTypes, PC, Kind
<1>2. ids[c] = << >>
    BY DEF IInv, TypeOK, CallTypes, Kind, ShapeOf
<1>3. pc'[c] = "enter" /\ kind'[c] = "account" /\ ids'[c] = << >>
    BY <1>2 DEF IInv, TypeOK, CallTypes
<1>4. Owned(c)' = {}
    BY <1>3, RangeOfEmpty DEF Owned
<1>5. LockTypes' /\ UNCHANGED <<audit, due, sent>> /\ PlansKept
    BY DEF PlansKept, IInv, TypeOK, RowTypes, LockTypes, locks
<1>6. ShapeOf(c)' /\ KnownRowsOf(c)'
    BY <1>3 DEF ShapeOf, KnownRowsOf
<1> QED
    BY <1>1, <1>3, <1>4, <1>5, <1>6, QuietStep

LEMMA RememberInv ==
    ASSUME IInv, NEW c \in Calls, Remember(c)
    PROVE  IInv'
<1>1. PlansKept /\ authenticated' \in BOOLEAN
    BY RangeOfIds DEF PlansKept, Remember, KnownRowsOf, IInv, TypeOK, RowTypes, LockTypes, CallTypes
<1> QED
    BY <1>1, QuietReturn DEF Remember

LEMMA CheckBatchInv ==
    ASSUME IInv, NEW c \in Calls, CheckBatch(c)
    PROVE  IInv'
<1>1. pc[c] = "check"
    BY DEF CheckBatch
<1>2. CASE RefuseBatch(c)
    BY <1>2, QuietReturn DEF RefuseBatch, PlansKept, IInv, TypeOK, RowTypes, LockTypes
<1>3. CASE FindExpired(c)
  <2>1. PICK i \in DOMAIN ids[c] : /\ ids[c][i] \in plans
                                   /\ ids' = [ids EXCEPT ![c] = <<ids[c][i]>>]
      BY <1>3 DEF FindExpired, Refused
  <2>2. ids[c][i] \in Ids
      BY <2>1 DEF IInv, TypeOK, CallTypes
  <2>3. OthersKept(c) /\ CallTypes' /\ pc'[c] = "expire" /\ kind'[c] = kind[c]
        /\ ids'[c] = <<ids[c][i]>>
      BY <1>3, <2>1, <2>2 DEF FindExpired, Goto, OthersKept, IInv, TypeOK, CallTypes, PC
  <2>4. Owned(c)' = {}
      BY <2>3 DEF Owned, Owning
  <2>5. LockTypes' /\ UNCHANGED <<audit, due, sent>> /\ PlansKept
      BY <1>3 DEF PlansKept, FindExpired, IInv, TypeOK, RowTypes, LockTypes, locks
  <2>6. kind[c] \in {"preview", "place", "batch"}
      BY <1>1 DEF IInv, TypeOK, CallTypes, Kind, ShapeOf
  <2>7. ShapeOf(c)' /\ KnownRowsOf(c)'
      BY <2>1, <2>3, <2>5, <2>6, RangeOfOne
      DEF ShapeOf, KnownRowsOf, IInv, AuditedBeforeUsable, audit
  <2> QED
      BY <1>1, <2>3, <2>4, <2>5, <2>7, QuietStep
<1>4. CASE AcceptBatch(c)
  <2>1. OthersKept(c) /\ CallTypes' /\ pc'[c] = "claim" /\ kind'[c] = kind[c]
        /\ ids'[c] = ids[c]
      BY <1>4, GotoFacts DEF AcceptBatch, PC
  <2>2. Owned(c)' = {}
      BY <2>1 DEF Owned, Owning
  <2>3. LockTypes' /\ UNCHANGED <<audit, due, sent>> /\ PlansKept
      BY <1>4 DEF PlansKept, AcceptBatch, IInv, TypeOK, RowTypes, LockTypes
  <2>4. ShapeOf(c)' /\ KnownRowsOf(c)'
      BY <1>1, <2>1 DEF ShapeOf, KnownRowsOf, IInv
  <2> QED
      BY <1>1, <2>1, <2>2, <2>3, <2>4, QuietStep
<1> QED
    BY <1>2, <1>3, <1>4 DEF CheckBatch

LEMMA MarkExpiredInv ==
    ASSUME IInv, NEW c \in Calls, MarkExpired(c)
    PROVE  IInv'
<1>1. CASE /\ SetStatus(Range(ids[c]), "expired")
           /\ orderIds' = orderIds \ Range(ids[c])
           /\ Return(c)
           /\ UNCHANGED <<plans, authenticated, due, sent>>
  <2>1. /\ status' \in [Ids -> Status]
        /\ \A id \in Ids : status'[id] = IF id \in Range(ids[c]) THEN "expired" ELSE status[id]
      BY <1>1, SetStatusTypes DEF Status
  <2>2. TypeOK'
      BY <1>1, <2>1, ReturnFacts DEF IInv, TypeOK, RowTypes, LockTypes
  <2>3. RowsKept(c) /\ PlansKept
      BY <1>1, <2>1 DEF RowsKept, PlansKept, IInv, TypeOK, RowTypes
  <2> QED
      BY <1>1, <2>2, <2>3, ReturnFacts, CallStep
<1> QED
    BY <1>1, WriteFailsInv DEF MarkExpired

\* A step that moves c between two labels at which it owns the same ids, or
\* none, and touches nothing but the locks.
LEMMA QuietGoto ==
    ASSUME IInv, NEW c \in Calls, NEW label \in PC, Goto(c, label), UNCHANGED work,
           LockTypes', UNCHANGED <<audit, plans, due, sent>>,
           pc[c] \in {"enter", "auth", "validate"},
           label \in {"auth", "validate", "release", "submit", "request"},
           label = "request" => kind[c] = "account",
           kind[c] = "account" => label \in {"auth", "request"}
    PROVE  IInv'
<1>1. OthersKept(c) /\ CallTypes' /\ pc'[c] = label /\ kind'[c] = kind[c]
      /\ ids'[c] = ids[c]
    BY GotoFacts
<1>2. Owned(c)' \subseteq Owned(c)
    BY <1>1 DEF Owned, Owning
<1>3. PlansKept
    BY DEF PlansKept, IInv, TypeOK, RowTypes
<1>4. ShapeOf(c)'
    BY <1>1 DEF IInv, ShapeOf
<1>5. KnownRowsOf(c)'
    BY <1>1 DEF KnownRowsOf
<1> QED
    BY <1>1, <1>2, <1>3, <1>4, <1>5, QuietStep

LEMMA EnterContextInv ==
    ASSUME IInv, NEW c \in Calls, EnterContext(c)
    PROVE  IInv'
<1>1. LockTypes'
    BY DEF EnterContext, IInv, TypeOK, LockTypes
<1> QED
    BY <1>1, QuietGoto DEF EnterContext, PC

LEMMA AuthenticateInv ==
    ASSUME IInv, NEW c \in Calls, Authenticate(c)
    PROVE  IInv'
<1>1. /\ pc[c] = "auth" /\ UNCHANGED <<audit, plans, due, sent>>
      /\ authenticated' \in BOOLEAN
    BY DEF Authenticate, IInv, TypeOK, LockTypes
<1>2. CASE Return(c)
    BY <1>1, <1>2, QuietReturn DEF PlansKept, IInv, TypeOK, RowTypes
<1>3. ASSUME NEW label \in {"request", "validate", "release"}, Goto(c, label),
             label = "request" <=> kind[c] = "account", UNCHANGED <<locks, work>>
      PROVE  IInv'
  <2>1. LockTypes'
      BY <1>1, <1>3 DEF IInv, TypeOK, LockTypes, locks
  <2> QED
      BY <1>1, <1>3, <2>1, QuietGoto DEF PC
<1> QED
    BY <1>2, <1>3 DEF Authenticate

LEMMA AccountRequestInv ==
    ASSUME IInv, NEW c \in Calls, AccountRequest(c)
    PROVE  IInv'
    BY QuietReturn DEF AccountRequest, PlansKept, IInv, TypeOK, RowTypes, LockTypes

LEMMA ValidateInv ==
    ASSUME IInv, NEW c \in Calls, Validate(c)
    PROVE  IInv'
<1>1. LockTypes' /\ kind[c] # "account"
    BY DEF Validate, IInv, TypeOK, LockTypes, locks, ShapeOf
<1> QED
    BY <1>1, QuietGoto DEF Validate, PC

LEMMA ReleaseInv ==
    ASSUME IInv, NEW c \in Calls, Release(c)
    PROVE  IInv'
<1>1. CASE /\ WriteStatus(c, "approved")
           /\ Return(c)
           /\ UNCHANGED <<plans, authenticated, due, sent>>
  <2>1. /\ status' \in [Ids -> Status] /\ orderIds' \subseteq Ids
        /\ \A id \in Ids : status'[id] = IF id \in Range(ids[c]) THEN "approved" ELSE status[id]
      BY <1>1, WriteStatusFacts DEF Status
  <2>2. TypeOK'
      BY <1>1, <2>1, ReturnFacts DEF IInv, TypeOK, RowTypes, LockTypes
  <2>3. Owned(c) = Range(ids[c])
      BY DEF Release, Owned, Owning
  <2>4. RowsKept(c) /\ PlansKept
      BY <1>1, <2>1, <2>3 DEF RowsKept, PlansKept, IInv, TypeOK, RowTypes
  <2> QED
      BY <1>1, <2>2, <2>4, ReturnFacts, CallStep
<1> QED
    BY <1>1, WriteFailsInv DEF Release

LEMMA SubmitInv ==
    ASSUME IInv, NEW c \in Calls, Submit(c)
    PROVE  IInv'
<1>1. CASE /\ WriteStatus(c, "submitting")
           /\ Goto(c, "post")
           /\ UNCHANGED <<plans, locks, authenticated, work, due, sent>>
  <2>1. /\ status' \in [Ids -> Status] /\ orderIds' \subseteq Ids
        /\ \A id \in Ids : status'[id] = IF id \in Range(ids[c]) THEN "submitting" ELSE status[id]
      BY <1>1, WriteStatusFacts DEF Status
  <2>2. OthersKept(c) /\ CallTypes' /\ pc'[c] = "post" /\ kind'[c] = kind[c]
        /\ ids'[c] = ids[c]
      BY <1>1, GotoFacts DEF PC
  <2>3. TypeOK'
      BY <1>1, <2>1, <2>2 DEF IInv, TypeOK, RowTypes, LockTypes, locks
  <2>4. Owned(c) = Range(ids[c]) /\ Owned(c)' = Range(ids[c]) /\ Range(ids[c]) \subseteq Ids
      BY <2>2, RangeOfIds DEF Submit, Owned, Owning, IInv, TypeOK, CallTypes
  <2>5. RowsKept(c) /\ PlansKept /\ ClaimsFairly(c)
      BY <1>1, <2>4, <2>1 DEF RowsKept, PlansKept, ClaimsFairly, IInv, TypeOK, RowTypes
  <2>6. OwnedRowsOf(c)'
      BY <1>1, <2>1, <2>2, <2>4 DEF OwnedRowsOf, IInv
  <2>7. ShapeOf(c)' /\ KnownRowsOf(c)'
      BY <2>2 DEF Submit, ShapeOf, KnownRowsOf, IInv
  <2> QED
      BY <2>2, <2>3, <2>5, <2>6, <2>7, CallStep
<1> QED
    BY <1>1, WriteFailsInv DEF Submit

LEMMA PostInv ==
    ASSUME IInv, NEW c \in Calls, Post(c)
    PROVE  IInv'
<1>1. OthersKept(c) /\ CallTypes' /\ pc'[c] = "await" /\ kind'[c] = kind[c]
      /\ ids'[c] = ids[c]
    BY GotoFacts DEF Post, PC
<1>2. Owned(c) = Range(ids[c]) /\ Owned(c)' = {} /\ Range(ids[c]) \subseteq Ids
    BY <1>1, RangeOfIds DEF Post, Owned, Owning, IInv, TypeOK, CallTypes
<1>3. \A id \in Range(ids[c]) : sent[id] = 0 /\ status[id] \in {"submitting", "expired"}
    BY <1>2 DEF Post, IInv, OwnedRowsOf
<1>4. \A id \in Ids : sent'[id] = IF id \in Range(ids[c]) THEN 1 ELSE sent[id]
    BY <1>3 DEF Post
<1>5. TypeOK'
    BY <1>1 DEF Post, IInv, TypeOK, RowTypes, LockTypes, audit, locks
<1>6. RowsKept(c) /\ PlansKept /\ ClaimsFairly(c) /\ OwnedRowsOf(c)'
    BY <1>2, <1>3, <1>4 DEF Post, PlansKept, IInv, TypeOK, RowTypes, RowsKept, ClaimsFairly, OwnedRowsOf, audit
<1>7. ShapeOf(c)'
    BY <1>1 DEF Post, ShapeOf, IInv
<1>8. KnownRowsOf(c)'
    BY <1>1, <1>2, <1>4 DEF KnownRowsOf
<1> QED
    BY <1>1, <1>5, <1>6, <1>7, <1>8, CallStep

LEMMA AnswerInv ==
    ASSUME IInv, NEW c \in Calls, Answer(c)
    PROVE  IInv'
<1> USE DEF Answer, Goto
<1>1. PICK n \in {NoAnswer} \cup 0..Len(ids[c]) : answered' = [answered EXCEPT ![c] = n]
    OBVIOUS
<1>2. n \in Int
    BY DEF NoAnswer, IInv, TypeOK, CallTypes
<1>3. OthersKept(c) /\ CallTypes'
    BY <1>1, <1>2 DEF OthersKept, IInv, TypeOK, CallTypes, PC
<1>4. pc'[c] = "forget" /\ kind'[c] = kind[c] /\ ids'[c] = ids[c] /\ at'[c] = 1
    BY DEF IInv, TypeOK, CallTypes
<1>5. Owned(c)' = {}
    BY <1>4 DEF Owned, Owning
<1>6. LockTypes' /\ PlansKept
    BY DEF PlansKept, IInv, TypeOK, RowTypes, LockTypes, locks
<1>7. ids[c] \in Seq(Ids) /\ ids[c] # << >>
    BY DEF IInv, TypeOK, CallTypes, Kind, ShapeOf
<1>8. ShapeOf(c)'
    BY <1>4, <1>7 DEF ShapeOf, IInv
<1>9. KnownRowsOf(c)'
    BY <1>4 DEF KnownRowsOf, IInv
<1> QED
    BY <1>3, <1>4, <1>5, <1>6, <1>8, <1>9, QuietStep

LEMMA ForgetInv ==
    ASSUME IInv, NEW c \in Calls, Forget(c)
    PROVE  IInv'
<1> USE DEF Forget, Goto, LastRound
<1>1. pc \in [Calls -> PC] /\ at \in [Calls -> Nat]
    BY DEF IInv, TypeOK, CallTypes
<1>2. pc' \in [Calls -> PC] /\ \A d \in Calls \ {c} : pc'[d] = pc[d]
    BY <1>1 DEF PC
<1>3. at' \in [Calls -> Nat] /\ \A d \in Calls \ {c} : at'[d] = at[d]
    BY <1>1
<1>4. OthersKept(c) /\ CallTypes'
    BY <1>2, <1>3 DEF OthersKept, IInv, TypeOK, CallTypes
<1>5. /\ kind'[c] = kind[c] /\ ids'[c] = ids[c]
      /\ \/ pc'[c] \in {"record", "settle"} /\ at'[c] = at[c]
         \/ pc'[c] = "forget" /\ at'[c] = at[c] + 1 /\ at[c] # Len(ids[c])
    BY DEF IInv, TypeOK, CallTypes
<1>6. Owned(c)' = {}
    BY <1>5 DEF Owned, Owning
<1>7. LockTypes' /\ PlansKept
    BY DEF PlansKept, IInv, TypeOK, RowTypes, LockTypes, locks
<1>8. at[c] \in 1..Len(ids[c]) /\ Len(ids[c]) \in Nat
    BY DEF IInv, TypeOK, CallTypes, ShapeOf
<1>9. at'[c] \in 1..Len(ids'[c]) /\ kind[c] \notin {"none", "account"}
    BY <1>5, <1>8 DEF ShapeOf, IInv
<1>10. ShapeOf(c)'
    BY <1>5, <1>9 DEF ShapeOf, IInv
<1>11. KnownRowsOf(c)'
    BY <1>5 DEF KnownRowsOf, IInv
<1> QED
    BY <1>4, <1>5, <1>6, <1>7, <1>10, <1>11, QuietStep

LEMMA SettleUnknownInv ==
    ASSUME IInv, NEW c \in Calls, SettleUnknown(c)
    PROVE  IInv'
<1>1. CASE /\ WriteStatus(c, "unknown")
           /\ Return(c)
           /\ UNCHANGED <<plans, authenticated, due, sent>>
  <2>1. /\ status' \in [Ids -> Status] /\ orderIds' \subseteq Ids
        /\ \A id \in Ids : status'[id] = IF id \in Range(ids[c]) THEN "unknown" ELSE status[id]
      BY <1>1, WriteStatusFacts DEF Status
  <2>2. TypeOK'
      BY <1>1, <2>1, ReturnFacts DEF IInv, TypeOK, RowTypes, LockTypes
  <2>3. \A id \in Range(ids[c]) : sent[id] = 1
      BY DEF SettleUnknown, IInv, KnownRowsOf
  <2>4. RowsKept(c) /\ PlansKept
      BY <1>1, <2>1, <2>3 DEF RowsKept, PlansKept, IInv, TypeOK, RowTypes
  <2> QED
      BY <1>1, <2>2, <2>4, ReturnFacts, CallStep
<1> QED
    BY <1>1, WriteFailsInv DEF SettleUnknown

LEMMA RecordResultInv ==
    ASSUME IInv, NEW c \in Calls, RecordResult(c)
    PROVE  IInv'
<1>1. pc[c] = "record"
    BY DEF RecordResult
<1>2. at[c] \in 1..Len(ids[c]) /\ Len(ids[c]) \in Nat /\ ids[c] \in Seq(Ids)
    BY <1>1 DEF IInv, TypeOK, CallTypes, ShapeOf
<1>3. ids[c][at[c]] \in Ids /\ sent[ids[c][at[c]]] = 1
    BY <1>1, <1>2, RangeOfIds DEF IInv, KnownRowsOf
<1>4. ASSUME WriteResult(c)
      PROVE  /\ status' \in [Ids -> Status] /\ orderIds' \subseteq Ids
             /\ \A id \in Ids :
                    \/ status'[id] = status[id]
                    \/ sent[id] = 1 /\ status'[id] \in {"submitted", "unknown"}
  <2> DEFINE this == ids[c][at[c]]
  <2>1. PICK new \in {"submitted", "unknown"} : SetStatus({this}, new)
      BY <1>4 DEF WriteResult
  <2>2. /\ status' \in [Ids -> Status]
        /\ \A i \in Ids : status'[i] = IF i \in {this} THEN new ELSE status[i]
      BY <2>1, SetStatusTypes DEF Status
  <2>3. orderIds' \subseteq Ids
      BY <1>3, <1>4 DEF WriteResult, IInv, TypeOK, RowTypes
  <2> QED
      BY <1>3, <2>2, <2>3
<1>5. CASE /\ WriteResult(c)
           /\ ~LastRound(c)
           /\ at' = [at EXCEPT ![c] = @ + 1]
           /\ Goto(c, "forget")
           /\ UNCHANGED <<plans, locks, authenticated, kind, ids, answered, due, sent>>
  <2>1. OthersKept(c) /\ CallTypes' /\ pc'[c] = "forget" /\ kind'[c] = kind[c]
        /\ ids'[c] = ids[c] /\ at'[c] = at[c] + 1
      BY <1>5 DEF Goto, OthersKept, IInv, TypeOK, CallTypes, PC
  <2>2. TypeOK'
      BY <1>4, <1>5, <2>1 DEF IInv, TypeOK, RowTypes, LockTypes, locks
  <2>3. Owned(c)' = {}
      BY <2>1 DEF Owned, Owning
  <2>4. RowsKept(c) /\ PlansKept /\ ClaimsFairly(c) /\ OwnedRowsOf(c)'
      BY <1>4, <1>5, <2>3 DEF PlansKept, IInv, TypeOK, RowTypes, RowsKept, ClaimsFairly, OwnedRowsOf
  <2>7. at'[c] \in 1..Len(ids'[c]) /\ kind[c] \notin {"none", "account"}
      BY <1>1, <1>2, <1>5, <2>1 DEF ShapeOf, IInv, LastRound
  <2>5. ShapeOf(c)'
      BY <1>1, <2>1, <2>7 DEF ShapeOf, IInv
  <2>6. KnownRowsOf(c)'
      BY <1>1, <1>5, <2>1 DEF KnownRowsOf, IInv
  <2> QED
      BY <2>1, <2>2, <2>4, <2>5, <2>6, CallStep
<1>6. CASE /\ WriteResult(c)
           /\ Return(c)
           /\ UNCHANGED <<plans, authenticated, due, sent>>
  <2>1. TypeOK'
      BY <1>4, <1>6, ReturnFacts DEF IInv, TypeOK, RowTypes, LockTypes
  <2>2. RowsKept(c) /\ PlansKept
      BY <1>4, <1>6 DEF RowsKept, PlansKept, IInv, TypeOK, RowTypes
  <2> QED
      BY <1>6, <2>1, <2>2, ReturnFacts, CallStep
<1> QED
    BY <1>5, <1>6, WriteFailsInv DEF RecordResult

LEMMA PassDeadlineInv ==
    ASSUME IInv, NEW id \in Ids, PassDeadline(id)
    PROVE  IInv'
<1> USE DEF PassDeadline, IInv, audit, locks, work
<1>1. TypeOK'
    BY DEF TypeOK, RowTypes, LockTypes, CallTypes
<1>2. \A c \in Calls : Owned(c)' = Owned(c)
    BY DEF Owned
<1>3. \A c \in Calls : ShapeOf(c)' /\ OwnedRowsOf(c)' /\ KnownRowsOf(c)'
    BY <1>2 DEF ShapeOf, OwnedRowsOf, KnownRowsOf
<1>4. OwnersDisjoint' /\ SentRows' /\ AuditedBeforeUsable'
    BY <1>2 DEF OwnersDisjoint, SentRows, AuditedBeforeUsable
<1> QED
    BY <1>1, <1>3, <1>4

LEMMA CrashInv ==
    ASSUME IInv, Crash
    PROVE  IInv'
<1> USE DEF Crash, IInv, audit
<1>1. RowTypes' /\ LockTypes'
    BY DEF TypeOK, RowTypes, LockTypes
<1>2. CallTypes'
    BY DEF CallTypes, PC, Kind, NoAnswer
<1>3. \A c \in Calls : Owned(c)' = {}
    BY DEF Owned, Owning
<1>4. \A c \in Calls : ShapeOf(c)' /\ OwnedRowsOf(c)' /\ KnownRowsOf(c)'
    BY <1>3 DEF ShapeOf, OwnedRowsOf, KnownRowsOf
<1>5. OwnersDisjoint' /\ SentRows' /\ AuditedBeforeUsable'
    BY <1>3 DEF OwnersDisjoint, SentRows, AuditedBeforeUsable
<1> QED
    BY <1>1, <1>2, <1>4, <1>5 DEF TypeOK

LEMMA StutterInv == IInv /\ UNCHANGED vars => IInv'
<1> SUFFICES ASSUME IInv, UNCHANGED vars PROVE IInv'
    OBVIOUS
<1> USE DEF vars, IInv
<1>1. TypeOK'
    BY DEF TypeOK, RowTypes, LockTypes, CallTypes
<1>2. \A c \in Calls : Owned(c)' = Owned(c)
    BY DEF Owned
<1>3. \A c \in Calls : ShapeOf(c)' /\ OwnedRowsOf(c)' /\ KnownRowsOf(c)'
    BY <1>2 DEF ShapeOf, OwnedRowsOf, KnownRowsOf
<1> QED
    BY <1>1, <1>2, <1>3 DEF OwnersDisjoint, SentRows, AuditedBeforeUsable

LEMMA StepInv == ASSUME IInv, NEW c \in Calls, Step(c) PROVE IInv'
    BY RememberInv, CheckBatchInv, MarkExpiredInv, ClaimInv, EnterContextInv,
       AuthenticateInv, AccountRequestInv, ValidateInv, ReleaseInv, SubmitInv,
       PostInv, AnswerInv, ForgetInv, SettleUnknownInv, RecordResultInv
    DEF Step

LEMMA StartInv == ASSUME IInv, NEW c \in Calls, Start(c) PROVE IInv'
    BY StartPreviewInv, StartPlaceInv, StartBatchInv, StartAccountRequestInv DEF Start

LEMMA NextInv == IInv /\ [Next]_vars => IInv'
    BY StepInv, StartInv, PassDeadlineInv, CrashInv, StutterInv DEF Next

-----------------------------------------------------------------------------
(* The theorems. *)

\* The inductive invariant holds in every reachable state.
THEOREM SpecIInv == Spec => []IInv
    BY InitInv, NextInv, PTL DEF Spec

\* Type correctness.
THEOREM SpecTypeOK == Spec => []TypeOK
<1>1. IInv => TypeOK
    BY DEF IInv
<1> QED
    BY <1>1, SpecIInv, PTL

\* No approval's order is handed to the exchange twice (place, place_batch).
THEOREM SpecSingleUse == Spec => []SingleUse
<1>1. IInv => SingleUse
    BY DEF IInv, SentRows, SingleUse
<1> QED
    BY <1>1, SpecIInv, PTL

\* A row whose order may exist never reads as open or not yet submitted.
THEOREM SpecSentNeverRetryable == Spec => []SentNeverRetryable
<1>1. IInv => SentNeverRetryable
    BY DEF IInv, TypeOK, RowTypes, SentRows, SentNeverRetryable
<1> QED
    BY <1>1, SpecIInv, PTL

\* No plan in the approvals map without a row in the audit table.
THEOREM SpecAuditedBeforeUsable == Spec => []AuditedBeforeUsable
<1>1. IInv => AuditedBeforeUsable
    BY DEF IInv
<1> QED
    BY <1>1, SpecIInv, PTL

\* One owner per approval in flight, and an owned approval is not open.
THEOREM SpecExclusiveClaim == Spec => []ExclusiveClaim
<1>1. IInv => ExclusiveClaim
    BY DEF IInv, OwnedRowsOf, OwnersDisjoint, ExclusiveClaim
<1> QED
    BY <1>1, SpecIInv, PTL

-----------------------------------------------------------------------------
(* The second layer: what a step gets hold of, and what is settled.          *)

\* A step of c lays its hands only on ids it works on past its checks, on ids
\* without a row and on ids in the approvals map; only a preview adds a plan.
KeepsOff(c) ==
    \A id \in Ids :
        LET works == pc[c] # "check" /\ id \in Range(ids[c]) IN
        /\ id \in plans' => id \in plans \/ (pc[c] = "remember" /\ works)
        /\ status'[id] = status[id] \/ status[id] = "none" \/ works
        /\ (id \in orderIds' <=> id \in orderIds) \/ works
        /\ pc'[c] # "check" /\ id \in Range(ids'[c]) =>
               works \/ status[id] = "none" \/ id \in plans

LEMMA ReturnOthers ==
    ASSUME TypeOK, NEW c \in Calls, Return(c)
    PROVE  OthersKept(c) /\ pc'[c] = "idle" /\ ids'[c] = << >> /\ Range(ids'[c]) = {}
    BY RangeOfEmpty DEF Return, OthersKept, TypeOK, CallTypes

\* A batch that has no first bad id has no refused id at all.
LEMMA NoFirstBad ==
    ASSUME NEW batch \in Seq(Ids), \A i \in DOMAIN batch : ~FirstBad(batch, i)
    PROVE  Range(batch) \subseteq plans
<1> DEFINE Bad == {i \in 1..Len(batch) : Refused(batch, i) \/ batch[i] \in due}
<1>1. CASE Bad # {}
  <2>1. Bad \in SUBSET Nat /\ Bad # {}
      BY <1>1
  <2>2. PICK i \in Bad : \A j \in Bad : i <= j
    <3> HIDE DEF Bad
    <3> QED
        BY <2>1, Smallest
  <2>3. i \in DOMAIN batch /\ FirstBad(batch, i)
      BY <2>2 DEF FirstBad
  <2> QED
      BY <2>3
<1>2. CASE Bad = {}
  <2>1. \A i \in 1..Len(batch) : batch[i] \in plans
      BY <1>2 DEF Refused
  <2> QED
      BY <2>1 DEF Range
<1> QED
    BY <1>1, <1>2

LEMMA ReturningKeepsOff ==
    ASSUME TypeOK, NEW c \in Calls, Return(c), plans' = plans,
           \A id \in Ids : \/ status'[id] = status[id] /\ (id \in orderIds' <=> id \in orderIds)
                           \/ pc[c] # "check" /\ id \in Range(ids[c])
    PROVE  OthersKept(c) /\ KeepsOff(c)
    BY ReturnOthers DEF KeepsOff

LEMMA FailingKeepsOff ==
    ASSUME TypeOK, NEW c \in Calls, WriteFails(c)
    PROVE  OthersKept(c) /\ KeepsOff(c)
    BY ReturningKeepsOff DEF WriteFails, audit

\* A step that stays with the same ids and leaves the map alone.
LEMMA MovingKeepsOff ==
    ASSUME TypeOK, NEW c \in Calls, NEW label, Goto(c, label), UNCHANGED <<kind, ids>>,
           at'= at \/ \E n : at' = [at EXCEPT ![c] = n], plans' \subseteq plans, pc[c] # "check",
           \A id \in Ids : \/ status'[id] = status[id] /\ (id \in orderIds' <=> id \in orderIds)
                           \/ id \in Range(ids[c])
    PROVE  OthersKept(c) /\ KeepsOff(c)
    BY DEF Goto, OthersKept, KeepsOff, TypeOK, CallTypes

LEMMA WritesKeepOff ==
    ASSUME TypeOK, NEW c \in Calls, NEW new, WriteStatus(c, new)
    PROVE  \A id \in Ids : \/ status'[id] = status[id] /\ (id \in orderIds' <=> id \in orderIds)
                           \/ id \in Range(ids[c])
    BY DEF WriteStatus, SetStatus

LEMMA StartKeepsOff ==
    ASSUME TypeOK, NEW c \in Calls, Start(c)
    PROVE  OthersKept(c) /\ KeepsOff(c)
<1>1. ASSUME NEW id \in Ids, StartPreview(c, id) PROVE OthersKept(c) /\ KeepsOff(c)
    BY <1>1, RangeOfOne
    DEF StartPreview, Goto, SetStatus, OthersKept, KeepsOff, TypeOK, CallTypes, RowTypes
<1>2. ASSUME NEW id \in Ids, StartPlace(c, id) PROVE OthersKept(c) /\ KeepsOff(c)
    BY <1>2, RangeOfOne
    DEF StartPlace, Goto, OthersKept, KeepsOff, TypeOK, CallTypes, audit
<1>3. ASSUME NEW batch \in Batches, StartBatch(c, batch) PROVE OthersKept(c) /\ KeepsOff(c)
    BY <1>3 DEF StartBatch, Goto, OthersKept, KeepsOff, TypeOK, CallTypes, audit
<1>4. CASE StartAccountRequest(c)
    BY <1>4 DEF StartAccountRequest, Goto, OthersKept, KeepsOff, TypeOK, CallTypes, audit
<1> QED
    BY <1>1, <1>2, <1>3, <1>4 DEF Start

LEMMA CheckBatchKeepsOff ==
    ASSUME TypeOK, NEW c \in Calls, CheckBatch(c)
    PROVE  OthersKept(c) /\ KeepsOff(c)
<1>1. pc[c] = "check"
    BY DEF CheckBatch
<1>2. CASE RefuseBatch(c)
    BY <1>2, ReturningKeepsOff DEF RefuseBatch, audit
<1>3. CASE FindExpired(c)
  <2>1. PICK i \in DOMAIN ids[c] : /\ ids[c][i] \in plans
                                   /\ ids' = [ids EXCEPT ![c] = <<ids[c][i]>>]
      BY <1>3 DEF FindExpired, Refused
  <2>2. Range(ids'[c]) = {ids[c][i]}
      BY <2>1, RangeOfOne DEF TypeOK, CallTypes
  <2> QED
      BY <1>3, <2>1, <2>2 DEF FindExpired, Goto, OthersKept, KeepsOff, TypeOK, CallTypes, audit
<1>4. CASE AcceptBatch(c)
  <2>1. Range(ids[c]) \subseteq plans
      BY <1>4, NoFirstBad DEF AcceptBatch, TypeOK, CallTypes
  <2> QED
      BY <1>4, <2>1 DEF AcceptBatch, Goto, OthersKept, KeepsOff, TypeOK, CallTypes, audit, work
<1> QED
    BY <1>2, <1>3, <1>4 DEF CheckBatch

LEMMA RecordKeepsOff ==
    ASSUME IInv, NEW c \in Calls, RecordResult(c)
    PROVE  OthersKept(c) /\ KeepsOff(c)
<1>1. TypeOK /\ pc[c] = "record" /\ ids[c] \in Seq(Ids) /\ at[c] \in 1..Len(ids[c])
    BY DEF RecordResult, IInv, TypeOK, CallTypes, ShapeOf
<1>2. ids[c][at[c]] \in Range(ids[c])
    BY <1>1, RangeOfIds
<1>3. ASSUME WriteResult(c)
      PROVE  \A id \in Ids : \/ status'[id] = status[id] /\ (id \in orderIds' <=> id \in orderIds)
                             \/ id \in Range(ids[c])
    BY <1>2, <1>3 DEF WriteResult, SetStatus
<1> QED
    BY <1>1, <1>3, ReturningKeepsOff, MovingKeepsOff, FailingKeepsOff DEF RecordResult

LEMMA StepKeepsOff ==
    ASSUME IInv, NEW c \in Calls, Step(c)
    PROVE  OthersKept(c) /\ KeepsOff(c)
<1> USE DEF audit, work, locks
<1>1. TypeOK
    BY DEF IInv
<1>2. CASE Remember(c)
    BY <1>1, <1>2, ReturnOthers DEF Remember, KeepsOff
<1>3. CASE MarkExpired(c)
    BY <1>1, <1>3, ReturningKeepsOff, FailingKeepsOff DEF MarkExpired, SetStatus
<1>4. CASE Claim(c)
    BY <1>1, <1>4, ReturningKeepsOff, MovingKeepsOff, FailingKeepsOff DEF Claim, SetStatus
<1>5. CASE EnterContext(c)
    BY <1>1, <1>5, MovingKeepsOff DEF EnterContext
<1>6. CASE Authenticate(c)
    BY <1>1, <1>6, ReturningKeepsOff, MovingKeepsOff DEF Authenticate
<1>7. CASE AccountRequest(c)
    BY <1>1, <1>7, ReturningKeepsOff DEF AccountRequest
<1>8. CASE Validate(c)
    BY <1>1, <1>8, MovingKeepsOff DEF Validate
<1>9. CASE Release(c)
    BY <1>1, <1>9, ReturningKeepsOff, WritesKeepOff, FailingKeepsOff DEF Release
<1>10. CASE Submit(c)
    BY <1>1, <1>10, MovingKeepsOff, WritesKeepOff, FailingKeepsOff DEF Submit
<1>11. CASE Post(c)
    BY <1>1, <1>11, MovingKeepsOff DEF Post
<1>12. CASE Answer(c)
    BY <1>1, <1>12, MovingKeepsOff DEF Answer
<1>13. CASE Forget(c)
  <2>1. PICK label \in {"record", "forget", "settle"} : Goto(c, label)
    <3>1. pc[c] = "forget" /\ (pc' = pc \/ Goto(c, "record") \/ Goto(c, "settle"))
        BY <1>13 DEF Forget
    <3>2. pc' = pc => Goto(c, "forget")
        BY <1>1, <3>1 DEF Goto, TypeOK, CallTypes
    <3> QED
        BY <3>1, <3>2
  <2>2. at' = at \/ \E n : at' = [at EXCEPT ![c] = n]
      BY <1>13 DEF Forget
  <2> QED
      BY <1>1, <1>13, <2>1, <2>2, MovingKeepsOff DEF Forget
<1>14. CASE SettleUnknown(c)
    BY <1>1, <1>14, ReturningKeepsOff, WritesKeepOff, FailingKeepsOff DEF SettleUnknown
<1> QED
    BY <1>1, <1>2, <1>3, <1>4, <1>5, <1>6, <1>7, <1>8, <1>9, <1>10, <1>11, <1>12, <1>13,
       <1>14, CheckBatchKeepsOff, RecordKeepsOff DEF Step

\* A row nobody can get at is not got at by a step of any call.
LEMMA FrozenStep ==
    ASSUME NEW c \in Calls, OthersKept(c), KeepsOff(c), TypeOK, NEW id \in Ids, Unreachable(id)
    PROVE  Unreachable(id)' /\ status'[id] = status[id] /\ (id \in orderIds' <=> id \in orderIds)
<1>1. \A d \in Calls \ {c} : pc'[d] = pc[d] /\ ids'[d] = ids[d]
    BY DEF OthersKept
<1>2. ~(pc[c] # "check" /\ id \in Range(ids[c]))
    BY DEF Unreachable, Range
<1>3. status'[id] = status[id] /\ (id \in orderIds' <=> id \in orderIds) /\ id \notin plans'
      /\ (pc'[c] # "check" => id \notin Range(ids'[c]))
    BY <1>2 DEF KeepsOff, Unreachable
<1>4. pc'[c] = "check" \/ \A i \in DOMAIN ids'[c] : ids'[c][i] # id
    BY <1>3 DEF Range
<1> QED
    BY <1>1, <1>3, <1>4 DEF Unreachable

LEMMA FrozenNext ==
    ASSUME IInv, [Next]_vars, NEW id \in Ids, Unreachable(id)
    PROVE  Unreachable(id)' /\ status'[id] = status[id] /\ (id \in orderIds' <=> id \in orderIds)
<1> USE DEF audit, work, locks
<1>1. ASSUME NEW c \in Calls, Start(c) \/ Step(c)
      PROVE  Unreachable(id)' /\ status'[id] = status[id] /\ (id \in orderIds' <=> id \in orderIds)
    BY <1>1, StartKeepsOff, StepKeepsOff, FrozenStep DEF IInv
<1>2. CASE \E other \in Ids : PassDeadline(other)
    BY <1>2 DEF PassDeadline, Unreachable
<1>3. CASE Crash
    BY <1>3 DEF Crash, Unreachable
<1>4. CASE UNCHANGED vars
    BY <1>4 DEF vars, Unreachable
<1> QED
    BY <1>1, <1>2, <1>3, <1>4 DEF Next

\* A row out of reach stays out of reach, and what it says never changes.
THEOREM SpecFrozenOnceUnreachable == Spec => FrozenOnceUnreachable
<1>1. IInv /\ [Next]_vars =>
          [\A id \in Ids : Unreachable(id) =>
              /\ Unreachable(id)'
              /\ status'[id] = status[id]
              /\ id \in orderIds' <=> id \in orderIds]_vars
    BY FrozenNext
<1> QED
    BY <1>1, SpecIInv, PTL DEF Spec, FrozenOnceUnreachable

-----------------------------------------------------------------------------
(* What is settled is forgotten: SInv on top of IInv.                       *)

\* What a step of c may do to the rows another call is settling: mark them
\* expired, and nothing else, unless c settles them itself or owns them.  No row
\* is ever taken out of the table.
SettlesOwn(c) ==
    \A id \in Ids :
        /\ status[id] # "none" => status'[id] # "none"
        /\ \/ status'[id] = status[id]
           \/ status'[id] = "expired"
           \/ status[id] \in {"none", "approved"}
           \/ id \in Owned(c)
           \/ id \in Handled(c)

AnswersKept(c) == \A d \in Calls \ {c} : answered'[d] = answered[d]

LEMMA SettleStep ==
    ASSUME IInv, SInv, IInv', NEW c \in Calls, OthersKept(c), KeepsOff(c), AnswersKept(c),
           SettlesOwn(c), Handled(c)' \subseteq Handled(c) \cup Owned(c),
           FreshOf(c)', ClaimingOf(c)', SettlingOf(c)', SettledForgotten'
    PROVE  SInv'
<1>1. ASSUME NEW d \in Calls, d # c
      PROVE  /\ pc'[d] = pc[d] /\ ids'[d] = ids[d] /\ at'[d] = at[d] /\ answered'[d] = answered[d]
             /\ Handled(d)' = Handled(d) /\ Range(ids[d]) \subseteq Ids
    BY <1>1, RangeOfIds DEF OthersKept, AnswersKept, Handled, IInv, TypeOK, CallTypes
<1>2. Range(ids[c]) \subseteq Ids
    BY RangeOfIds DEF IInv, TypeOK, CallTypes
<1>3. ASSUME NEW d \in Calls, d # c PROVE FreshOf(d)'
  <2>1. SUFFICES ASSUME pc[d] = "remember", NEW id \in Range(ids[d])
                 PROVE  /\ id \notin plans' /\ status'[id] = "approved"
                        /\ \A e \in Calls \ {d} : pc'[e] = "check" \/ id \notin Range(ids'[e])
      BY <1>1, <1>3 DEF FreshOf
  <2>2. /\ id \in Ids /\ id \notin plans /\ status[id] = "approved"
        /\ \A e \in Calls \ {d} : pc[e] = "check" \/ id \notin Range(ids[e])
      BY <1>1, <1>3, <2>1 DEF SInv, FreshOf
  <2>3. /\ id \notin plans' /\ status'[id] = "approved"
        /\ pc'[c] = "check" \/ id \notin Range(ids'[c])
      BY <1>3, <2>2 DEF KeepsOff
  <2> QED
      BY <1>1, <2>2, <2>3
<1>4. ASSUME NEW d \in Calls, d # c PROVE ClaimingOf(d)'
    BY <1>1, <1>4 DEF ClaimingOf, SInv, SettlesOwn
<1>5. ASSUME NEW d \in Calls, d # c PROVE SettlingOf(d)'
  <2>1. ASSUME pc[d] \in {"await", "forget", "record", "settle"}, NEW id \in Range(ids[d])
        PROVE  /\ id \notin plans => id \notin plans'
               /\ status[id] \in {"submitting", "expired"} => status'[id] \in {"submitting", "expired"}
    <3>1. id \in Ids /\ id \in Handled(d) /\ sent[id] = 1
        BY <1>1, <1>5, <2>1 DEF Handled, IInv, KnownRowsOf
    <3>2. id \notin Handled(c) /\ id \notin Owned(c)
        BY <1>5, <3>1 DEF SInv, HandlersDisjoint, IInv, OwnedRowsOf
    <3>3. pc[c] = "remember" => id \notin Range(ids[c])
        BY <1>5, <2>1 DEF SInv, FreshOf
    <3> QED
        BY <3>1, <3>2, <3>3 DEF KeepsOff, SettlesOwn
  <2>2. pc[d] \in {"forget", "record"} => /\ at[d] \in 1..Len(ids[d]) /\ ids[d] \in Seq(Ids)
                                          /\ \A i \in 1..at[d] : ids[d][i] \in Range(ids[d])
      BY RangeOfIds, <1>5 DEF IInv, TypeOK, CallTypes, ShapeOf
  <2>3. pc[d] = "record" => answered[d] # NoAnswer /\ ids[d][at[d]] \notin plans'
      BY <1>5, <2>1, <2>2 DEF SInv, SettlingOf
  <2>4. pc[d] = "settle" => answered[d] = NoAnswer /\ Range(ids[d]) \cap plans' = {}
      BY <1>5, <2>1 DEF SInv, SettlingOf
  <2>5. pc[d] = "forget" /\ answered[d] = NoAnswer =>
            \A i \in 1..(at[d] - 1) : ids[d][i] \notin plans'
      BY <1>5, <2>1, <2>2 DEF SInv, SettlingOf
  <2>6. (pc[d] = "await" \/ (pc[d] \in {"forget", "settle"} /\ answered[d] = NoAnswer)) =>
            \A id \in Range(ids[d]) : status'[id] \in {"submitting", "expired"}
      BY <1>5, <2>1 DEF SInv, SettlingOf
  <2> QED
      BY <1>1, <1>5, <2>3, <2>4, <2>5, <2>6 DEF SettlingOf
<1>6. HandlersDisjoint'
  <2> SUFFICES ASSUME NEW d \in Calls, NEW e \in Calls, d # e,
                      NEW id \in Handled(d)', id \in Handled(e)'
               PROVE  FALSE
      BY DEF HandlersDisjoint
  <2>1. ASSUME NEW f \in Calls, f # c, id \in Handled(f)
        PROVE  id \notin Handled(c) /\ id \notin Owned(c)
    <3>1. sent[id] = 1
        BY <2>1 DEF Handled, IInv, KnownRowsOf
    <3> QED
        BY <2>1, <3>1 DEF SInv, HandlersDisjoint, IInv, OwnedRowsOf
  <2> QED
      BY <1>1, <2>1 DEF SInv, HandlersDisjoint
<1> QED
    BY <1>3, <1>4, <1>5, <1>6 DEF SInv

LEMMA InitSettled == Init => SInv
<1> SUFFICES ASSUME Init PROVE SInv
    OBVIOUS
<1> USE DEF Init
<1>1. \A c \in Calls : FreshOf(c) /\ ClaimingOf(c) /\ SettlingOf(c) /\ Handled(c) = {}
    BY DEF FreshOf, ClaimingOf, SettlingOf, Handled
<1> QED
    BY <1>1 DEF SInv, HandlersDisjoint, SettledForgotten

\* A return leaves no trace of the call.
LEMMA ReturnSettled ==
    ASSUME IInv, NEW c \in Calls, Return(c)
    PROVE  /\ AnswersKept(c) /\ Handled(c)' = {}
           /\ FreshOf(c)' /\ ClaimingOf(c)' /\ SettlingOf(c)'
<1>1. pc'[c] = "idle" /\ AnswersKept(c)
    BY DEF Return, AnswersKept, IInv, TypeOK, CallTypes
<1> QED
    BY <1>1 DEF Handled, FreshOf, ClaimingOf, SettlingOf

\* A return that writes nothing and adds no plan.
LEMMA QuietReturnSettled ==
    ASSUME IInv, SInv, IInv', NEW c \in Calls, OthersKept(c), KeepsOff(c), Return(c),
           UNCHANGED <<audit, plans>>
    PROVE  SInv'
<1>1. SettlesOwn(c)
    BY DEF SettlesOwn, audit
<1>2. SettledForgotten'
    BY DEF SInv, SettledForgotten, audit
<1> QED
    BY <1>1, <1>2, ReturnSettled, SettleStep

LEMMA FailingSettled ==
    ASSUME IInv, SInv, IInv', NEW c \in Calls, WriteFails(c)
    PROVE  SInv'
    BY FailingKeepsOff, QuietReturnSettled DEF WriteFails, IInv

\* A step that goes on before the exchange is asked, writing nothing.
LEMMA QuietGotoSettled ==
    ASSUME IInv, SInv, IInv', NEW c \in Calls, OthersKept(c), KeepsOff(c),
           UNCHANGED <<audit, plans, answered>>,
           pc'[c] \notin {"remember", "await", "forget", "record", "settle"}, ClaimingOf(c)'
    PROVE  SInv'
<1>1. SettlesOwn(c) /\ AnswersKept(c)
    BY DEF SettlesOwn, AnswersKept, audit
<1>2. SettledForgotten'
    BY DEF SInv, SettledForgotten, audit
<1>3. FreshOf(c)' /\ SettlingOf(c)' /\ Handled(c)' = {}
    BY DEF FreshOf, SettlingOf, Handled
<1> QED
    BY <1>1, <1>2, <1>3, SettleStep

LEMMA StartSettled ==
    ASSUME IInv, SInv, IInv', NEW c \in Calls, Start(c)
    PROVE  SInv'
<1> USE DEF audit, locks, work
<1>1. OthersKept(c) /\ KeepsOff(c) /\ TypeOK
    BY StartKeepsOff DEF IInv
<1>2. ASSUME NEW id \in Ids, StartPreview(c, id) PROVE SInv'
  <2>1. pc'[c] = "remember" /\ ids'[c] = <<id>> /\ answered' = answered /\ status[id] = "none"
      BY <1>1, <1>2 DEF StartPreview, Goto, TypeOK, CallTypes
  <2>2. /\ \A i \in Ids : status'[i] = IF i = id THEN "approved" ELSE status[i]
        /\ UNCHANGED <<orderIds, plans>>
      BY <1>2 DEF StartPreview, SetStatus
  <2>3. \A d \in Calls \ {c} : pc[d] = "check" \/ id \notin Range(ids[d])
    <3> SUFFICES ASSUME NEW d \in Calls \ {c}, id \in Range(ids[d]), pc[d] # "check"
                 PROVE  FALSE
        OBVIOUS
    <3>1. sent[id] # 1 /\ status[id] \notin {"validating", "submitting", "expired"}
        BY <2>1 DEF IInv, SentRows
    <3>2. pc[d] \notin Owning
        BY <3>1 DEF IInv, OwnedRowsOf, Owned
    <3>3. ids[d] # << >>
        BY RangeOfEmpty
    <3> QED
        BY <2>1, <3>1, <3>2, <3>3 DEF IInv, TypeOK, CallTypes, PC, Owning, KnownRowsOf, ShapeOf,
            SInv, ClaimingOf
  <2>4. id \notin plans
      BY <2>1 DEF IInv, AuditedBeforeUsable
  <2>5. FreshOf(c)'
      BY <1>1, <2>1, <2>2, <2>3, <2>4, RangeOfOne DEF FreshOf, OthersKept
  <2>6. ClaimingOf(c)' /\ SettlingOf(c)' /\ Handled(c)' = {} /\ AnswersKept(c)
      BY <2>1 DEF ClaimingOf, SettlingOf, Handled, AnswersKept
  <2>7. SettlesOwn(c)
      BY <2>1, <2>2 DEF SettlesOwn
  <2>8. SettledForgotten'
    <3>1. \A i \in plans' : status'[i] \notin {"submitted", "unknown"}
        BY <1>1, <2>2, <2>4 DEF SInv, SettledForgotten, TypeOK, RowTypes
    <3>2. orderIds' = {i \in Ids : status'[i] = "submitted"}
        BY <2>1, <2>2 DEF SInv, SettledForgotten
    <3> QED
        BY <3>1, <3>2 DEF SettledForgotten
  <2> QED
      BY <1>1, <2>5, <2>6, <2>7, <2>8, SettleStep
<1>3. ASSUME NEW id \in Ids, StartPlace(c, id) PROVE SInv'
  <2>1. /\ pc'[c] \in {"expire", "claim"} /\ ids'[c] = <<id>> /\ status[id] # "none"
        /\ UNCHANGED <<audit, plans, answered>>
      BY <1>1, <1>3 DEF StartPlace, Goto, TypeOK, CallTypes, IInv, AuditedBeforeUsable
  <2>2. ClaimingOf(c)'
      BY <2>1, RangeOfOne DEF ClaimingOf
  <2> QED
      BY <1>1, <2>1, <2>2, QuietGotoSettled
<1>4. ASSUME NEW batch \in Batches, StartBatch(c, batch) PROVE SInv'
  <2>1. pc'[c] = "check" /\ UNCHANGED <<audit, plans, answered>>
      BY <1>1, <1>4 DEF StartBatch, Goto, TypeOK, CallTypes
  <2> QED
      BY <1>1, <2>1, QuietGotoSettled DEF ClaimingOf
<1>5. CASE StartAccountRequest(c)
  <2>1. pc'[c] = "enter" /\ UNCHANGED <<audit, plans, answered>>
      BY <1>1, <1>5 DEF StartAccountRequest, Goto, TypeOK, CallTypes
  <2> QED
      BY <1>1, <2>1, QuietGotoSettled DEF ClaimingOf
<1> QED
    BY <1>2, <1>3, <1>4, <1>5 DEF Start

LEMMA RememberSettled ==
    ASSUME IInv, SInv, IInv', NEW c \in Calls, Remember(c)
    PROVE  SInv'
<1>1. OthersKept(c) /\ KeepsOff(c)
    BY StepKeepsOff DEF Step
<1>2. SettlesOwn(c)
    BY DEF SettlesOwn, Remember, audit
<1>3. SettledForgotten'
    BY DEF SInv, SettledForgotten, FreshOf, Remember, audit
<1> QED
    BY <1>1, <1>2, <1>3, ReturnSettled, SettleStep DEF Remember

LEMMA CheckBatchSettled ==
    ASSUME IInv, SInv, IInv', NEW c \in Calls, CheckBatch(c)
    PROVE  SInv'
<1> USE DEF audit, locks, work
<1>1. OthersKept(c) /\ KeepsOff(c) /\ TypeOK /\ pc[c] = "check"
    BY StepKeepsOff DEF Step, IInv, CheckBatch
<1>2. CASE RefuseBatch(c)
    BY <1>1, <1>2, QuietReturnSettled DEF RefuseBatch
<1>3. CASE FindExpired(c)
  <2>1. pc'[c] = "expire" /\ UNCHANGED <<audit, plans, answered>>
      BY <1>1, <1>3 DEF FindExpired, Goto, TypeOK, CallTypes
  <2> QED
      BY <1>1, <2>1, QuietGotoSettled DEF ClaimingOf
<1>4. CASE AcceptBatch(c)
  <2>1. pc'[c] = "claim" /\ UNCHANGED <<audit, plans, answered, ids>>
      BY <1>1, <1>4 DEF AcceptBatch, Goto, TypeOK, CallTypes
  <2>2. Range(ids[c]) \subseteq plans
      BY <1>4, NoFirstBad DEF AcceptBatch, IInv, TypeOK, CallTypes
  <2>3. ClaimingOf(c)'
      BY <2>1, <2>2 DEF ClaimingOf, IInv, AuditedBeforeUsable
  <2> QED
      BY <1>1, <2>1, <2>3, QuietGotoSettled
<1> QED
    BY <1>2, <1>3, <1>4 DEF CheckBatch

LEMMA MarkExpiredSettled ==
    ASSUME IInv, SInv, IInv', NEW c \in Calls, MarkExpired(c)
    PROVE  SInv'
<1>1. OthersKept(c) /\ KeepsOff(c)
    BY StepKeepsOff DEF Step
<1>2. CASE /\ SetStatus(Range(ids[c]), "expired")
           /\ orderIds' = orderIds \ Range(ids[c])
           /\ Return(c)
           /\ UNCHANGED <<plans, authenticated, due, sent>>
  <2>1. SettlesOwn(c)
      BY <1>2 DEF SettlesOwn, SetStatus
  <2>2. SettledForgotten'
      BY <1>2 DEF SInv, SettledForgotten, SetStatus, IInv, TypeOK, RowTypes
  <2> QED
      BY <1>1, <1>2, <2>1, <2>2, ReturnSettled, SettleStep
<1> QED
    BY <1>2, FailingSettled DEF MarkExpired

LEMMA ClaimSettled ==
    ASSUME IInv, SInv, IInv', NEW c \in Calls, Claim(c)
    PROVE  SInv'
<1> USE DEF audit, locks, work
<1>1. OthersKept(c) /\ KeepsOff(c)
    BY StepKeepsOff DEF Step
<1>2. CASE /\ \A id \in Range(ids[c]) : Claimable(id)
           /\ SetStatus(Range(ids[c]), "validating")
           /\ Goto(c, "enter")
           /\ UNCHANGED <<orderIds, plans, locks, authenticated, work, due, sent>>
  <2>1. pc'[c] = "enter" /\ answered' = answered
      BY <1>2 DEF Goto, IInv, TypeOK, CallTypes
  <2>2. SettlesOwn(c) /\ SettledForgotten'
      BY <1>2 DEF SettlesOwn, SetStatus, Claimable, SInv, SettledForgotten, IInv, TypeOK, RowTypes
  <2>3. /\ AnswersKept(c) /\ Handled(c)' = {}
        /\ FreshOf(c)' /\ ClaimingOf(c)' /\ SettlingOf(c)'
      BY <2>1 DEF AnswersKept, Handled, FreshOf, ClaimingOf, SettlingOf
  <2> QED
      BY <1>1, <2>2, <2>3, SettleStep
<1> QED
    BY <1>1, <1>2, FailingSettled, QuietReturnSettled DEF Claim

LEMMA EnterContextSettled ==
    ASSUME IInv, SInv, IInv', NEW c \in Calls, EnterContext(c)
    PROVE  SInv'
<1>1. OthersKept(c) /\ KeepsOff(c)
    BY StepKeepsOff DEF Step
<1>2. pc'[c] = "auth" /\ UNCHANGED <<audit, plans, answered>>
    BY DEF EnterContext, Goto, IInv, TypeOK, CallTypes, work
<1> QED
    BY <1>1, <1>2, QuietGotoSettled DEF ClaimingOf

LEMMA AuthenticateSettled ==
    ASSUME IInv, SInv, IInv', NEW c \in Calls, Authenticate(c)
    PROVE  SInv'
<1>1. OthersKept(c) /\ KeepsOff(c) /\ UNCHANGED <<audit, plans>>
    BY StepKeepsOff DEF Step, Authenticate
<1>2. CASE Return(c)
    BY <1>1, <1>2, QuietReturnSettled
<1>3. ASSUME NEW label \in {"request", "validate", "release"}, Goto(c, label),
             UNCHANGED work
      PROVE  SInv'
  <2>1. pc'[c] = label /\ answered' = answered
      BY <1>3 DEF Goto, IInv, TypeOK, CallTypes, work
  <2> QED
      BY <1>1, <2>1, QuietGotoSettled DEF ClaimingOf
<1> QED
    BY <1>2, <1>3 DEF Authenticate

LEMMA ValidateSettled ==
    ASSUME IInv, SInv, IInv', NEW c \in Calls, Validate(c)
    PROVE  SInv'
<1>1. OthersKept(c) /\ KeepsOff(c)
    BY StepKeepsOff DEF Step
<1>2. pc'[c] \in {"submit", "release"} /\ UNCHANGED <<audit, plans, answered>>
    BY DEF Validate, Goto, IInv, TypeOK, CallTypes, work
<1> QED
    BY <1>1, <1>2, QuietGotoSettled DEF ClaimingOf

\* A status other than submitted, written to rows that are not submitted.
LEMMA WriteForgotten ==
    ASSUME IInv, SInv, NEW c \in Calls, NEW new \in Status \ {"submitted"}, WriteStatus(c, new),
           \A id \in Range(ids[c]) : status[id] # "submitted", plans' = plans,
           new = "unknown" => Range(ids[c]) \cap plans = {}
    PROVE  SettledForgotten'
<1>1. \A id \in Ids : status'[id] = IF id \in Range(ids[c]) THEN new ELSE status[id]
    BY DEF WriteStatus, SetStatus
<1>2. orderIds' = orderIds
    BY RangeOfIds DEF WriteStatus, SInv, SettledForgotten, IInv, TypeOK, CallTypes
<1> QED
    BY <1>1, <1>2 DEF SInv, SettledForgotten, IInv, TypeOK, RowTypes

LEMMA ReleaseSettled ==
    ASSUME IInv, SInv, IInv', NEW c \in Calls, Release(c)
    PROVE  SInv'
<1>1. OthersKept(c) /\ KeepsOff(c)
    BY StepKeepsOff DEF Step
<1>2. Owned(c) = Range(ids[c]) /\ \A id \in Owned(c) : status[id] # "submitted"
    BY DEF Release, Owned, Owning, IInv, OwnedRowsOf
<1>3. CASE /\ WriteStatus(c, "approved")
           /\ Return(c)
           /\ UNCHANGED <<plans, authenticated, due, sent>>
  <2>1. SettlesOwn(c)
      BY <1>2, <1>3 DEF SettlesOwn, WriteStatus, SetStatus
  <2>2. SettledForgotten'
      BY <1>2, <1>3, WriteForgotten DEF Status
  <2> QED
      BY <1>1, <1>3, <2>1, <2>2, ReturnSettled, SettleStep
<1> QED
    BY <1>3, FailingSettled DEF Release

LEMMA SubmitSettled ==
    ASSUME IInv, SInv, IInv', NEW c \in Calls, Submit(c)
    PROVE  SInv'
<1>1. OthersKept(c) /\ KeepsOff(c)
    BY StepKeepsOff DEF Step
<1>2. Owned(c) = Range(ids[c]) /\ \A id \in Owned(c) : status[id] # "submitted"
    BY DEF Submit, Owned, Owning, IInv, OwnedRowsOf
<1>3. CASE /\ WriteStatus(c, "submitting")
           /\ Goto(c, "post")
           /\ UNCHANGED <<plans, locks, authenticated, work, due, sent>>
  <2>1. SettlesOwn(c)
      BY <1>2, <1>3 DEF SettlesOwn, WriteStatus, SetStatus
  <2>2. SettledForgotten'
      BY <1>2, <1>3, WriteForgotten DEF Status
  <2>3. pc'[c] = "post" /\ answered' = answered
      BY <1>3 DEF Goto, IInv, TypeOK, CallTypes, work
  <2>4. /\ AnswersKept(c) /\ Handled(c)' = {}
        /\ FreshOf(c)' /\ ClaimingOf(c)' /\ SettlingOf(c)'
      BY <2>3 DEF AnswersKept, Handled, FreshOf, ClaimingOf, SettlingOf
  <2> QED
      BY <1>1, <2>1, <2>2, <2>4, SettleStep
<1> QED
    BY <1>3, FailingSettled DEF Submit

LEMMA PostSettled ==
    ASSUME IInv, SInv, IInv', NEW c \in Calls, Post(c)
    PROVE  SInv'
<1>1. OthersKept(c) /\ KeepsOff(c)
    BY StepKeepsOff DEF Step
<1>2. pc'[c] = "await" /\ UNCHANGED <<audit, plans, answered, ids, at>>
    BY DEF Post, Goto, IInv, TypeOK, CallTypes, work
<1>3. Owned(c) = Range(ids[c])
      /\ \A id \in Range(ids[c]) : status[id] \in {"submitting", "expired"}
    BY DEF Post, Owned, Owning, IInv, OwnedRowsOf
<1>4. SettlesOwn(c) /\ AnswersKept(c) /\ SettledForgotten'
    BY <1>2 DEF SettlesOwn, AnswersKept, SInv, SettledForgotten, audit
<1>5. FreshOf(c)' /\ ClaimingOf(c)' /\ Handled(c)' = Owned(c)
    BY <1>2, <1>3 DEF FreshOf, ClaimingOf, Handled
<1>6. SettlingOf(c)'
    BY <1>2, <1>3 DEF SettlingOf, audit
<1> QED
    BY <1>1, <1>4, <1>5, <1>6, SettleStep

LEMMA AnswerSettled ==
    ASSUME IInv, SInv, IInv', NEW c \in Calls, Answer(c)
    PROVE  SInv'
<1>1. OthersKept(c) /\ KeepsOff(c)
    BY StepKeepsOff DEF Step
<1>2. pc[c] = "await" /\ pc'[c] = "forget" /\ at'[c] = 1 /\ UNCHANGED <<audit, plans, ids>>
    BY DEF Answer, Goto, IInv, TypeOK, CallTypes
<1>3. AnswersKept(c)
    BY DEF Answer, AnswersKept, IInv, TypeOK, CallTypes
<1>4. SettlesOwn(c) /\ SettledForgotten'
    BY <1>2 DEF SettlesOwn, SInv, SettledForgotten, audit
<1>5. FreshOf(c)' /\ ClaimingOf(c)' /\ Handled(c)' = Handled(c)
    BY <1>2 DEF FreshOf, ClaimingOf, Handled
<1>6. SettlingOf(c)'
    BY <1>2 DEF SettlingOf, SInv, audit
<1> QED
    BY <1>1, <1>3, <1>4, <1>5, <1>6, SettleStep

LEMMA ForgetSettled ==
    ASSUME IInv, SInv, IInv', NEW c \in Calls, Forget(c)
    PROVE  SInv'
<1>1. OthersKept(c) /\ KeepsOff(c)
    BY StepKeepsOff DEF Step
<1>2. /\ pc[c] = "forget" /\ plans' = plans \ {ids[c][at[c]]}
      /\ UNCHANGED <<audit, ids, answered>>
    BY DEF Forget
<1>3. /\ at[c] \in 1..Len(ids[c]) /\ Len(ids[c]) \in Nat
      /\ Range(ids[c]) = {ids[c][i] : i \in 1..Len(ids[c])}
    BY <1>2 DEF IInv, TypeOK, CallTypes, ShapeOf, Range
<1>4. \/ answered[c] # NoAnswer /\ pc'[c] = "record" /\ at'[c] = at[c]
      \/ answered[c] = NoAnswer /\ pc'[c] = "forget" /\ at'[c] = at[c] + 1
      \/ answered[c] = NoAnswer /\ pc'[c] = "settle" /\ at'[c] = at[c] /\ at[c] = Len(ids[c])
    BY <1>2 DEF Forget, Goto, LastRound, IInv, TypeOK, CallTypes
<1>5. SettlesOwn(c) /\ AnswersKept(c) /\ SettledForgotten'
    BY <1>2 DEF SettlesOwn, AnswersKept, SInv, SettledForgotten, audit
<1>6. FreshOf(c)' /\ ClaimingOf(c)' /\ Handled(c)' = Handled(c)
    BY <1>2, <1>4 DEF FreshOf, ClaimingOf, Handled
<1>7. answered[c] = NoAnswer => /\ \A i \in 1..at[c] : ids[c][i] \notin plans'
                                /\ \A id \in Range(ids[c]) : status[id] \in {"submitting", "expired"}
    BY <1>2, <1>3 DEF SInv, SettlingOf
<1>8. SettlingOf(c)'
    BY <1>2, <1>3, <1>4, <1>7 DEF SettlingOf, audit
<1> QED
    BY <1>1, <1>5, <1>6, <1>8, SettleStep

LEMMA SettleUnknownSettled ==
    ASSUME IInv, SInv, IInv', NEW c \in Calls, SettleUnknown(c)
    PROVE  SInv'
<1>1. OthersKept(c) /\ KeepsOff(c)
    BY StepKeepsOff DEF Step
<1>2. Handled(c) = Range(ids[c]) /\ Range(ids[c]) \cap plans = {}
      /\ \A id \in Range(ids[c]) : status[id] # "submitted"
    BY DEF SettleUnknown, Handled, SInv, SettlingOf
<1>3. CASE /\ WriteStatus(c, "unknown")
           /\ Return(c)
           /\ UNCHANGED <<plans, authenticated, due, sent>>
  <2>1. SettlesOwn(c)
      BY <1>2, <1>3 DEF SettlesOwn, WriteStatus, SetStatus
  <2>2. SettledForgotten'
      BY <1>2, <1>3, WriteForgotten DEF Status
  <2> QED
      BY <1>1, <1>3, <2>1, <2>2, ReturnSettled, SettleStep
<1> QED
    BY <1>3, FailingSettled DEF SettleUnknown

LEMMA RecordResultSettled ==
    ASSUME IInv, SInv, IInv', NEW c \in Calls, RecordResult(c)
    PROVE  SInv'
<1> USE DEF audit, locks, work
<1>1. OthersKept(c) /\ KeepsOff(c) /\ pc[c] = "record"
    BY StepKeepsOff DEF Step, RecordResult
<1>2. /\ ids[c][at[c]] \in Handled(c) /\ ids[c][at[c]] \in Ids
      /\ ids[c][at[c]] \notin plans /\ answered[c] # NoAnswer
    BY <1>1, RangeOfIds DEF IInv, TypeOK, CallTypes, ShapeOf, Handled, SInv, SettlingOf
<1>3. ASSUME WriteResult(c), plans' = plans
      PROVE  SettlesOwn(c) /\ SettledForgotten'
  <2> DEFINE this == ids[c][at[c]]
  <2>1. \/ /\ \A id \in Ids : status'[id] = IF id = this THEN "submitted" ELSE status[id]
           /\ orderIds' = orderIds \cup {this}
        \/ /\ \A id \in Ids : status'[id] = IF id = this THEN "unknown" ELSE status[id]
           /\ orderIds' = orderIds \ {this}
      BY <1>3 DEF WriteResult, SetStatus
  <2>2. SettlesOwn(c)
      BY <1>2, <2>1 DEF SettlesOwn
  <2>3. \A id \in plans' : status'[id] \notin {"submitted", "unknown"}
      BY <1>2, <1>3, <2>1 DEF SInv, SettledForgotten, IInv, TypeOK, RowTypes
  <2>4. orderIds' = {id \in Ids : status'[id] = "submitted"}
      BY <1>2, <2>1 DEF SInv, SettledForgotten
  <2> QED
      BY <2>2, <2>3, <2>4 DEF SettledForgotten
<1>4. CASE /\ WriteResult(c)
           /\ ~LastRound(c)
           /\ at' = [at EXCEPT ![c] = @ + 1]
           /\ Goto(c, "forget")
           /\ UNCHANGED <<plans, locks, authenticated, kind, ids, answered, due, sent>>
  <2>1. pc'[c] = "forget" /\ UNCHANGED <<answered, ids>>
      BY <1>4 DEF Goto, IInv, TypeOK, CallTypes
  <2>2. /\ AnswersKept(c) /\ Handled(c)' = Handled(c)
        /\ FreshOf(c)' /\ ClaimingOf(c)' /\ SettlingOf(c)'
      BY <1>1, <1>2, <2>1 DEF AnswersKept, Handled, FreshOf, ClaimingOf, SettlingOf
  <2> QED
      BY <1>1, <1>3, <1>4, <2>2, SettleStep
<1>5. CASE /\ WriteResult(c)
           /\ LastRound(c)
           /\ Return(c)
           /\ UNCHANGED <<plans, authenticated, due, sent>>
    BY <1>1, <1>3, <1>5, ReturnSettled, SettleStep
<1> QED
    BY <1>4, <1>5, FailingSettled DEF RecordResult

LEMMA StepSettled ==
    ASSUME IInv, SInv, IInv', NEW c \in Calls, Step(c)
    PROVE  SInv'
<1>1. CASE AccountRequest(c)
    BY <1>1, StepKeepsOff, QuietReturnSettled DEF AccountRequest
<1> QED
    BY <1>1, RememberSettled, CheckBatchSettled, MarkExpiredSettled, ClaimSettled,
       EnterContextSettled, AuthenticateSettled, ValidateSettled, ReleaseSettled,
       SubmitSettled, PostSettled, AnswerSettled, ForgetSettled, SettleUnknownSettled,
       RecordResultSettled
    DEF Step

LEMMA NextSettled == IInv /\ SInv /\ [Next]_vars => SInv'
<1> SUFFICES ASSUME IInv, SInv, [Next]_vars PROVE SInv'
    OBVIOUS
<1> USE DEF audit, locks, work
<1>1. IInv'
    BY NextInv
<1>2. ASSUME UNCHANGED <<status, orderIds, plans, pc, ids, at, answered>> PROVE SInv'
  <2>1. \A c \in Calls : Handled(c)' = Handled(c)
      BY <1>2 DEF Handled
  <2>2. \A c \in Calls : FreshOf(c)' /\ ClaimingOf(c)' /\ SettlingOf(c)'
      BY <1>2 DEF SInv, FreshOf, ClaimingOf, SettlingOf
  <2> QED
      BY <1>2, <2>1, <2>2 DEF SInv, HandlersDisjoint, SettledForgotten
<1>3. CASE \E id \in Ids : PassDeadline(id)
    BY <1>2, <1>3 DEF PassDeadline
<1>4. CASE Crash
  <2>1. \A c \in Calls : Handled(c)' = {} /\ FreshOf(c)' /\ ClaimingOf(c)' /\ SettlingOf(c)'
      BY <1>4 DEF Crash, Handled, FreshOf, ClaimingOf, SettlingOf
  <2> QED
      BY <1>4, <2>1 DEF Crash, SInv, HandlersDisjoint, SettledForgotten
<1>5. CASE UNCHANGED vars
    BY <1>2, <1>5 DEF vars
<1> QED
    BY <1>1, <1>3, <1>4, <1>5, StartSettled, StepSettled DEF Next

\* What is settled is out of memory, and exactly the accepted orders' rows
\* name their order ids.
THEOREM SpecSettledForgotten == Spec => []SettledForgotten
<1>1. SInv => SettledForgotten
    BY DEF SInv
<1> QED
    BY <1>1, InitInv, NextInv, InitSettled, NextSettled, PTL DEF Spec

-----------------------------------------------------------------------------
(* No claim is abandoned while nothing fails.                               *)

\* Whatever a step of c leaves in "validating" c owns after it, or it was in
\* "validating" before and not c's.
KeepsClaims(c) ==
    \A id \in Ids : status'[id] = "validating" =>
        id \in Owned(c)' \/ (status[id] = "validating" /\ id \notin Owned(c))

LEMMA ClaimsOfOthersKept ==
    ASSUME NoAbandonedClaim, ~DbMayFail, ~MayCrash, NEW c \in Calls, OthersKept(c), KeepsClaims(c)
    PROVE  NoAbandonedClaim'
<1>1. \A d \in Calls \ {c} : Owned(d)' = Owned(d)
    BY DEF OthersKept, Owned
<1> QED
    BY <1>1 DEF NoAbandonedClaim, KeepsClaims

\* A step to a label at which c owns the same ids, or owned none before.
LEMMA OwningKeepsClaims ==
    ASSUME NEW c \in Calls, Owned(c) \subseteq Owned(c)', status' = status
    PROVE  KeepsClaims(c)
    BY DEF KeepsClaims

LEMMA StepKeepsClaims ==
    ASSUME IInv, ~DbMayFail, NEW c \in Calls, Step(c)
    PROVE  KeepsClaims(c)
<1> USE DEF audit, work, locks
<1>1. pc \in [Calls -> PC] /\ Range(ids[c]) \subseteq Ids
    BY RangeOfIds DEF IInv, TypeOK, CallTypes
<1>2. CASE Remember(c)
    BY <1>2, OwningKeepsClaims DEF Remember, Owned, Owning
<1>3. CASE CheckBatch(c)
    BY <1>3, OwningKeepsClaims DEF CheckBatch, RefuseBatch, FindExpired, AcceptBatch, Owned, Owning
<1>4. CASE MarkExpired(c)
    BY <1>4 DEF MarkExpired, WriteFails, SetStatus, KeepsClaims, Owned, Owning
<1>5. CASE Claim(c)
  <2>1. Owned(c) = {}
      BY <1>5 DEF Claim, Owned, Owning
  <2>2. CASE SetStatus(Range(ids[c]), "validating") /\ Goto(c, "enter") /\ ids' = ids
    <3>1. Owned(c)' = Range(ids[c])
        BY <1>1, <2>2 DEF Goto, Owned, Owning
    <3> QED
        BY <2>1, <2>2, <3>1 DEF SetStatus, KeepsClaims
  <2> QED
      BY <1>5, <2>1, <2>2, OwningKeepsClaims DEF Claim, WriteFails
<1>6. CASE EnterContext(c)
    BY <1>1, <1>6, OwningKeepsClaims DEF EnterContext, Goto, Owned, Owning
<1>7. CASE Authenticate(c)
  <2>1. CASE kind[c] = "account"
    <3>1. Owned(c) = {}
        BY <2>1, RangeOfEmpty DEF IInv, ShapeOf, Owned
    <3> QED
        BY <1>7, <3>1, OwningKeepsClaims DEF Authenticate
  <2>2. CASE kind[c] # "account"
    <3>1. pc[c] = "auth" /\ ids' = ids /\ status' = status
          /\ (Goto(c, "validate") \/ Goto(c, "release"))
        BY <1>7, <2>2 DEF Authenticate
    <3>2. Owned(c)' = Owned(c)
        BY <1>1, <3>1 DEF Goto, Owned, Owning
    <3> QED
        BY <3>1, <3>2, OwningKeepsClaims
  <2> QED
      BY <2>1, <2>2
<1>8. CASE AccountRequest(c)
    BY <1>8, OwningKeepsClaims DEF AccountRequest, Owned, Owning
<1>9. CASE Validate(c)
    BY <1>1, <1>9, OwningKeepsClaims DEF Validate, Goto, Owned, Owning
<1>10. CASE Release(c)
    BY <1>10 DEF Release, WriteFails, WriteStatus, SetStatus, KeepsClaims, Owned, Owning
<1>11. CASE Submit(c)
    BY <1>11 DEF Submit, WriteFails, WriteStatus, SetStatus, KeepsClaims, Owned, Owning
<1>12. CASE Post(c)
  <2>1. \A id \in Owned(c) : status[id] # "validating"
      BY <1>12 DEF Post, IInv, OwnedRowsOf
  <2> QED
      BY <1>12, <2>1 DEF Post, KeepsClaims
<1>13. CASE Answer(c)
    BY <1>13, OwningKeepsClaims DEF Answer, Owned, Owning
<1>14. CASE Forget(c)
    BY <1>14, OwningKeepsClaims DEF Forget, Owned, Owning
<1>15. CASE SettleUnknown(c)
    BY <1>15 DEF SettleUnknown, WriteFails, WriteStatus, SetStatus, KeepsClaims, Owned, Owning
<1>16. CASE RecordResult(c)
  <2>1. WriteResult(c) /\ Owned(c) = {}
      BY <1>16 DEF RecordResult, WriteFails, Owned, Owning
  <2> QED
      BY <2>1 DEF WriteResult, SetStatus, KeepsClaims
<1> QED
    BY <1>2, <1>3, <1>4, <1>5, <1>6, <1>7, <1>8, <1>9, <1>10, <1>11, <1>12, <1>13, <1>14,
       <1>15, <1>16 DEF Step

LEMMA StartKeepsClaims ==
    ASSUME IInv, NEW c \in Calls, Start(c)
    PROVE  KeepsClaims(c)
<1>1. pc[c] = "idle" /\ Owned(c) = {}
    BY DEF Start, StartPreview, StartPlace, StartBatch, StartAccountRequest, Owned, Owning
<1>2. ASSUME NEW id \in Ids, StartPreview(c, id) PROVE KeepsClaims(c)
    BY <1>1, <1>2 DEF StartPreview, SetStatus, KeepsClaims
<1>3. CASE status' = status
    BY <1>1, <1>3, OwningKeepsClaims
<1> QED
    BY <1>2, <1>3 DEF Start, StartPlace, StartBatch, StartAccountRequest, audit

LEMMA NextKeepsClaims == IInv /\ NoAbandonedClaim /\ [Next]_vars => NoAbandonedClaim'
<1> SUFFICES ASSUME IInv, NoAbandonedClaim, [Next]_vars, ~DbMayFail, ~MayCrash
             PROVE  NoAbandonedClaim'
    BY DEF NoAbandonedClaim
<1>1. ASSUME NEW c \in Calls, Start(c) \/ Step(c) PROVE NoAbandonedClaim'
  <2>1. OthersKept(c) /\ KeepsClaims(c)
      BY <1>1, StartKeepsOff, StepKeepsOff, StartKeepsClaims, StepKeepsClaims DEF IInv
  <2> QED
      BY <2>1, ClaimsOfOthersKept
<1>2. ASSUME UNCHANGED <<status, pc, ids>> PROVE NoAbandonedClaim'
  <2>1. \A c \in Calls : Owned(c)' = Owned(c)
      BY <1>2 DEF Owned
  <2> QED
      BY <1>2, <2>1 DEF NoAbandonedClaim
<1>3. CASE \E id \in Ids : PassDeadline(id)
    BY <1>2, <1>3 DEF PassDeadline, audit, work
<1>4. CASE UNCHANGED vars
    BY <1>2, <1>4 DEF vars
<1> QED
    BY <1>1, <1>3, <1>4 DEF Next, Crash

\* Unless a write fails or the process stops, no row stays claimed by nobody.
THEOREM SpecNoAbandonedClaim == Spec => []NoAbandonedClaim
<1>1. Init => NoAbandonedClaim
    BY DEF Init, NoAbandonedClaim
<1> QED
    BY <1>1, InitInv, NextInv, NextKeepsClaims, PTL DEF Spec

-----------------------------------------------------------------------------
(* Trading implements SingleUseApproval: every step of the code's protocol  *)
(* is a legal step of the abstract approvals, or changes nothing they speak *)
(* of.                                                                      *)

LEMMA InitRefines == Init => Approval!AInit
<1> SUFFICES ASSUME Init PROVE Approval!AInit
    OBVIOUS
<1>1. Issued = {} /\ Open = {}
    BY DEF Init, Issued, Open
<1>2. Taken = [c \in Calls |-> {}]
    BY DEF Init, Taken, Owned, Owning
<1> QED
    BY <1>1, <1>2 DEF Init, Approval!AInit

\* A step of c changes what c has taken, and nobody else's.
LEMMA TakenByOthers ==
    ASSUME NEW c \in Calls, OthersKept(c)
    PROVE  Taken' = [Taken EXCEPT ![c] = Owned(c)']
<1>1. \A d \in Calls \ {c} : Owned(d)' = Owned(d)
    BY DEF OthersKept, Owned
<1> QED
    BY <1>1 DEF Taken

\* A row may move between the states that are neither unissued nor open.
HiddenRows ==
    \A id \in Ids : \/ status'[id] = status[id]
                    \/ {status[id], status'[id]} \cap {"none", "approved"} = {}

LEMMA HiddenStep ==
    ASSUME NEW c \in Calls, OthersKept(c), Owned(c)' = Owned(c), HiddenRows, sent' = sent
    PROVE  UNCHANGED Approval!avars
<1>1. Taken' = Taken
    BY TakenByOthers DEF Taken
<1>2. Issued' = Issued /\ Open' = Open
    BY DEF HiddenRows, Issued, Open
<1> QED
    BY <1>1, <1>2 DEF Approval!avars

\* A call that returns without a write loses what it has taken, if anything.
LEMMA LosingReturn ==
    ASSUME IInv, NEW c \in Calls, Return(c), UNCHANGED <<audit, sent>>
    PROVE  Approval!Lose(c)
<1>1. OthersKept(c) /\ Owned(c)' = {}
    BY ReturnFacts
<1>2. Taken' = [Taken EXCEPT ![c] = {}]
    BY <1>1, TakenByOthers
<1>3. Issued' = Issued /\ Open' = Open
    BY DEF Issued, Open, audit
<1> QED
    BY <1>2, <1>3 DEF Approval!Lose

LEMMA FailingWriteLoses ==
    ASSUME IInv, NEW c \in Calls, WriteFails(c)
    PROVE  Approval!Lose(c)
    BY LosingReturn DEF WriteFails

\* Unchanged rows are hidden moves.
LEMMA QuietRefines ==
    ASSUME NEW c \in Calls, OthersKept(c), Owned(c)' = Owned(c), UNCHANGED <<audit, sent>>
    PROVE  UNCHANGED Approval!avars
    BY HiddenStep DEF HiddenRows, audit

LEMMA GotoRefines ==
    ASSUME IInv, NEW c \in Calls, NEW label \in PC, Goto(c, label), UNCHANGED work,
           pc[c] \in Owning <=> label \in Owning
    PROVE  OthersKept(c) /\ Owned(c)' = Owned(c)
    BY GotoFacts DEF Owned

-----------------------------------------------------------------------------
(* One lemma per kind of step. *)

LEMMA StartRefines ==
    ASSUME IInv, NEW c \in Calls, Start(c)
    PROVE  Approval!ANext \/ UNCHANGED Approval!avars
<1>1. ASSUME NEW id \in Ids, StartPreview(c, id)
      PROVE  Approval!Issue(id)
  <2>1. /\ OthersKept(c) /\ Owned(c)' = {} /\ Owned(c) = {}
        /\ \A i \in Ids : status'[i] = IF i = id THEN "approved" ELSE status[i]
      BY <1>1, SetStatusTypes
      DEF StartPreview, Goto, OthersKept, Owned, Owning, IInv, TypeOK, CallTypes, Status
  <2>2. Taken' = Taken
      BY <2>1, TakenByOthers DEF Taken
  <2>3. id \notin Issued /\ Issued' = Issued \cup {id} /\ Open' = Open \cup {id}
      BY <1>1, <2>1 DEF StartPreview, Issued, Open
  <2> QED
      BY <1>1, <2>2, <2>3 DEF StartPreview, Approval!Issue
<1>2. ASSUME NEW id \in Ids, StartPlace(c, id)
      PROVE  UNCHANGED Approval!avars
  <2>1. OthersKept(c) /\ Owned(c)' = {} /\ Owned(c) = {} /\ UNCHANGED <<audit, sent>>
      BY <1>2 DEF StartPlace, Goto, OthersKept, Owned, Owning, IInv, TypeOK, CallTypes
  <2> QED
      BY <2>1, QuietRefines
<1>3. ASSUME NEW batch \in Batches, StartBatch(c, batch)
      PROVE  UNCHANGED Approval!avars
  <2>1. OthersKept(c) /\ Owned(c)' = {} /\ Owned(c) = {} /\ UNCHANGED <<audit, sent>>
      BY <1>3 DEF StartBatch, Goto, OthersKept, Owned, Owning, IInv, TypeOK, CallTypes
  <2> QED
      BY <2>1, QuietRefines
<1>4. ASSUME StartAccountRequest(c)
      PROVE  UNCHANGED Approval!avars
  <2>1. ids[c] = << >> /\ UNCHANGED <<audit, ids, sent>> /\ OthersKept(c)
      BY <1>4 DEF StartAccountRequest, Goto, OthersKept, IInv, TypeOK, CallTypes, Kind, ShapeOf
  <2>2. Owned(c)' = {} /\ Owned(c) = {}
      BY <2>1, RangeOfEmpty DEF Owned
  <2> QED
      BY <2>1, <2>2, QuietRefines
<1> QED
    BY <1>1, <1>2, <1>3, <1>4 DEF Start, Approval!ANext

LEMMA RememberRefines ==
    ASSUME IInv, NEW c \in Calls, Remember(c)
    PROVE  Approval!Lose(c)
    BY LosingReturn DEF Remember

LEMMA CheckBatchRefines ==
    ASSUME IInv, NEW c \in Calls, CheckBatch(c)
    PROVE  Approval!Lose(c) \/ UNCHANGED Approval!avars
<1>1. CASE RefuseBatch(c)
    BY <1>1, LosingReturn DEF RefuseBatch
<1>2. CASE FindExpired(c)
  <2>1. OthersKept(c)
      BY <1>2 DEF FindExpired, Goto, OthersKept, IInv, TypeOK, CallTypes
  <2>2. pc[c] = "check" /\ pc'[c] = "expire"
      BY <1>2 DEF CheckBatch, FindExpired, Goto, IInv, TypeOK, CallTypes
  <2>3. Owned(c)' = Owned(c)
      BY <2>2 DEF Owned, Owning
  <2> QED
      BY <1>2, <2>1, <2>3, QuietRefines DEF FindExpired
<1>3. CASE AcceptBatch(c)
    BY <1>3, GotoRefines, QuietRefines DEF CheckBatch, AcceptBatch, PC, Owning
<1> QED
    BY <1>1, <1>2, <1>3 DEF CheckBatch

LEMMA MarkExpiredRefines ==
    ASSUME IInv, NEW c \in Calls, MarkExpired(c)
    PROVE  (\E S \in SUBSET Ids : Approval!Lapse(S)) \/ Approval!Lose(c)
<1>1. CASE /\ SetStatus(Range(ids[c]), "expired")
           /\ orderIds' = orderIds \ Range(ids[c])
           /\ Return(c)
           /\ UNCHANGED <<plans, authenticated, due, sent>>
  <2> DEFINE S == Range(ids[c])
  <2>1. /\ S \subseteq Ids
        /\ \A id \in Ids : status'[id] = IF id \in S THEN "expired" ELSE status[id]
      BY <1>1, SetStatusTypes, RangeOfIds DEF Status, IInv, TypeOK, CallTypes
  <2>2. OthersKept(c) /\ Owned(c)' = {} /\ Owned(c) = {}
      BY <1>1, ReturnFacts DEF MarkExpired, Owned, Owning
  <2>3. Taken' = Taken
      BY <2>2, TakenByOthers DEF Taken
  <2>4. S \subseteq Issued
      BY <2>1 DEF MarkExpired, IInv, KnownRowsOf, Issued
  <2>5. Issued' = Issued /\ Open' = Open \ S
      BY <2>1, <2>4 DEF Issued, Open
  <2> QED
      BY <1>1, <2>1, <2>3, <2>5 DEF Approval!Lapse
<1> QED
    BY <1>1, FailingWriteLoses DEF MarkExpired

LEMMA ClaimRefines ==
    ASSUME IInv, NEW c \in Calls, Claim(c)
    PROVE  (\E S \in SUBSET Ids : Approval!Take(c, S)) \/ Approval!Lose(c)
<1>1. CASE /\ \A id \in Range(ids[c]) : Claimable(id)
           /\ SetStatus(Range(ids[c]), "validating")
           /\ Goto(c, "enter")
           /\ UNCHANGED <<orderIds, plans, locks, authenticated, work, due, sent>>
  <2> DEFINE S == Range(ids[c])
  <2>1. /\ S \subseteq Ids
        /\ \A id \in Ids : status'[id] = IF id \in S THEN "validating" ELSE status[id]
      BY <1>1, SetStatusTypes, RangeOfIds DEF Status, IInv, TypeOK, CallTypes
  <2>2. OthersKept(c) /\ pc'[c] = "enter" /\ ids'[c] = ids[c]
      BY <1>1, GotoFacts DEF PC
  <2>3. Owned(c)' = S /\ Owned(c) = {}
      BY <2>2 DEF Claim, Owned, Owning
  <2>4. Taken' = [Taken EXCEPT ![c] = S] /\ Taken[c] = {}
      BY <2>2, <2>3, TakenByOthers DEF Taken
  <2>5. S \subseteq Open
      BY <1>1, <2>1 DEF Claimable, Open
  <2>6. Issued' = Issued /\ Open' = Open \ S
      BY <2>1, <2>5 DEF Issued, Open
  <2> QED
      BY <1>1, <2>1, <2>4, <2>5, <2>6 DEF Approval!Take
<1>2. CASE Return(c) /\ UNCHANGED <<audit, plans, authenticated, due, sent>>
    BY <1>2, LosingReturn
<1> QED
    BY <1>1, <1>2, FailingWriteLoses DEF Claim

\* The steps under the context mutex that write no row.
LEMMA ContextRefines ==
    ASSUME IInv, NEW c \in Calls,
           EnterContext(c) \/ Authenticate(c) \/ AccountRequest(c) \/ Validate(c)
    PROVE  Approval!Lose(c) \/ UNCHANGED Approval!avars
<1>1. CASE EnterContext(c)
    BY <1>1, GotoRefines, QuietRefines DEF EnterContext, PC, Owning
<1>2. CASE Authenticate(c)
  <2>1. CASE Return(c)
      BY <1>2, <2>1, LosingReturn DEF Authenticate
  <2>2. CASE Goto(c, "request") /\ UNCHANGED <<locks, work>> /\ kind[c] = "account"
    <3>1. OthersKept(c) /\ pc'[c] = "request" /\ ids'[c] = ids[c]
        BY <2>2, GotoFacts DEF PC
    <3>2. ids[c] = << >>
        BY <2>2 DEF IInv, ShapeOf
    <3>3. Owned(c)' = {} /\ Owned(c) = {}
        BY <3>1, <3>2, RangeOfEmpty DEF Owned
    <3> QED
        BY <1>2, <3>1, <3>3, QuietRefines DEF Authenticate
  <2>3. ASSUME NEW label \in {"validate", "release"}, Goto(c, label), UNCHANGED work
        PROVE  UNCHANGED Approval!avars
      BY <1>2, <2>3, GotoRefines, QuietRefines DEF Authenticate, PC, Owning
  <2> QED
      BY <1>2, <2>1, <2>2, <2>3 DEF Authenticate
<1>3. CASE AccountRequest(c)
    BY <1>3, LosingReturn DEF AccountRequest
<1>4. CASE Validate(c)
    BY <1>4, GotoRefines, QuietRefines DEF Validate, PC, Owning
<1> QED
    BY <1>1, <1>2, <1>3, <1>4

LEMMA ReleaseRefines ==
    ASSUME IInv, NEW c \in Calls, Release(c)
    PROVE  Approval!GiveBack(c) \/ Approval!Lose(c)
<1>1. CASE /\ WriteStatus(c, "approved")
           /\ Return(c)
           /\ UNCHANGED <<plans, authenticated, due, sent>>
  <2> DEFINE S == Range(ids[c])
  <2>1. /\ S \subseteq Ids
        /\ \A id \in Ids : status'[id] = IF id \in S THEN "approved" ELSE status[id]
      BY <1>1, WriteStatusFacts, RangeOfIds DEF Status, IInv, TypeOK, CallTypes
  <2>2. OthersKept(c) /\ Owned(c)' = {} /\ Owned(c) = S
      BY <1>1, ReturnFacts DEF Release, Owned, Owning
  <2>3. Taken' = [Taken EXCEPT ![c] = {}] /\ Taken[c] = S
      BY <2>2, TakenByOthers DEF Taken
  <2>4. \A id \in S : status[id] # "none"
      BY <2>2 DEF IInv, OwnedRowsOf
  <2>5. Issued' = Issued /\ Open' = Open \cup S
      BY <2>1, <2>4 DEF Issued, Open
  <2> QED
      BY <1>1, <2>3, <2>5 DEF Approval!GiveBack
<1> QED
    BY <1>1, FailingWriteLoses DEF Release

LEMMA SubmitRefines ==
    ASSUME IInv, NEW c \in Calls, Submit(c)
    PROVE  Approval!Lose(c) \/ UNCHANGED Approval!avars
<1>1. CASE /\ WriteStatus(c, "submitting")
           /\ Goto(c, "post")
           /\ UNCHANGED <<plans, locks, authenticated, work, due, sent>>
  <2>1. OthersKept(c) /\ Owned(c)' = Owned(c)
      BY <1>1, GotoRefines DEF Submit, PC, Owning
  <2>2. \A id \in Ids : status'[id] = IF id \in Range(ids[c]) THEN "submitting" ELSE status[id]
      BY <1>1, WriteStatusFacts DEF Status
  <2>3. \A id \in Range(ids[c]) : status[id] \in {"validating", "expired"}
      BY DEF Submit, IInv, OwnedRowsOf, Owned, Owning
  <2>4. HiddenRows
      BY <2>2, <2>3 DEF HiddenRows
  <2> QED
      BY <1>1, <2>1, <2>4, HiddenStep
<1> QED
    BY <1>1, FailingWriteLoses DEF Submit

LEMMA PostRefines ==
    ASSUME IInv, NEW c \in Calls, Post(c)
    PROVE  Approval!Use(c)
<1>1. OthersKept(c) /\ pc'[c] = "await"
    BY GotoFacts DEF Post, PC
<1>2. Owned(c)' = {} /\ Owned(c) = Range(ids[c])
    BY <1>1 DEF Post, Owned, Owning
<1>3. Taken' = [Taken EXCEPT ![c] = {}] /\ Taken[c] = Range(ids[c])
    BY <1>1, <1>2, TakenByOthers DEF Taken
<1>4. Issued' = Issued /\ Open' = Open
    BY DEF Post, Issued, Open, audit
<1> QED
    BY <1>3, <1>4 DEF Post, Approval!Use

LEMMA AnswerRefines ==
    ASSUME IInv, NEW c \in Calls, Answer(c) \/ Forget(c)
    PROVE  UNCHANGED Approval!avars
<1>1. pc[c] \in {"await", "forget"} /\ UNCHANGED <<audit, ids, kind, sent>>
    BY DEF Answer, Forget
<1>2. /\ \A d \in Calls \ {c} : pc'[d] = pc[d] /\ at'[d] = at[d]
      /\ pc'[c] \in {"forget", "record", "settle"}
    BY DEF Answer, Forget, Goto, IInv, TypeOK, CallTypes
<1>3. OthersKept(c) /\ Owned(c)' = {} /\ Owned(c) = {}
    BY <1>1, <1>2 DEF OthersKept, Owned, Owning
<1> QED
    BY <1>1, <1>3, QuietRefines

LEMMA SettleRefines ==
    ASSUME IInv, NEW c \in Calls, SettleUnknown(c) \/ RecordResult(c)
    PROVE  Approval!Lose(c) \/ UNCHANGED Approval!avars
<1>1. CASE WriteFails(c)
    BY <1>1, FailingWriteLoses
<1>2. ASSUME ~WriteFails(c)
      PROVE  UNCHANGED Approval!avars
  <2>1. pc[c] \in {"settle", "record"} /\ sent' = sent
      BY <1>2 DEF SettleUnknown, RecordResult
  <2>2. \A id \in Range(ids[c]) : id \in Ids /\ sent[id] = 1
      BY <2>1, RangeOfIds DEF IInv, KnownRowsOf, TypeOK, CallTypes
  <2>3. OthersKept(c) /\ Owned(c)' = {}
    <3>1. CASE Return(c)
        BY <3>1, ReturnFacts
    <3>2. CASE /\ Goto(c, "forget") /\ at' = [at EXCEPT ![c] = @ + 1]
               /\ UNCHANGED <<kind, ids>>
        BY <3>2 DEF Goto, OthersKept, Owned, Owning, IInv, TypeOK, CallTypes
    <3> QED
        BY <1>2, <3>1, <3>2 DEF SettleUnknown, RecordResult
  <2>4. \E S \in SUBSET Range(ids[c]) : \E new \in {"submitted", "unknown"} : SetStatus(S, new)
    <3>1. CASE SettleUnknown(c)
        BY <1>2, <3>1 DEF SettleUnknown, WriteStatus
    <3>2. CASE RecordResult(c)
      <4>1. at[c] \in 1..Len(ids[c]) /\ ids[c] \in Seq(Ids)
          BY <3>2 DEF RecordResult, IInv, ShapeOf, TypeOK, CallTypes
      <4>2. ids[c][at[c]] \in Range(ids[c])
          BY <4>1, RangeOfIds
      <4> QED
          BY <1>2, <3>2, <4>2 DEF RecordResult, WriteResult
    <3> QED
        BY <3>1, <3>2
  <2>5. PICK S \in SUBSET Range(ids[c]), new \in {"submitted", "unknown"} : SetStatus(S, new)
      BY <2>4
  <2>6. \A id \in Ids : status'[id] = IF id \in S THEN new ELSE status[id]
      BY <2>5, SetStatusTypes DEF Status
  <2>7. HiddenRows
      BY <2>2, <2>6 DEF HiddenRows, IInv, SentRows
  <2>8. Owned(c) = {}
      BY <2>1 DEF Owned, Owning
  <2> QED
      BY <2>1, <2>3, <2>7, <2>8, HiddenStep
<1> QED
    BY <1>1, <1>2

LEMMA CrashRefines ==
    ASSUME Crash
    PROVE  Approval!LoseAll
<1>1. Taken' = [c \in Calls |-> {}]
    BY DEF Crash, Taken, Owned, Owning
<1> QED
    BY <1>1 DEF Crash, Approval!LoseAll, Issued, Open, audit

LEMMA SilentRefines ==
    ASSUME UNCHANGED <<status, sent, pc, ids>>
    PROVE  UNCHANGED Approval!avars
<1>1. Taken' = Taken /\ Issued' = Issued /\ Open' = Open
    BY DEF Taken, Owned, Issued, Open
<1> QED
    BY <1>1 DEF Approval!avars

LEMMA StepRefines ==
    ASSUME IInv, NEW c \in Calls, Step(c)
    PROVE  Approval!ANext \/ UNCHANGED Approval!avars
<1>1. \/ \E S \in SUBSET Ids : Approval!Take(c, S)
      \/ Approval!GiveBack(c) \/ Approval!Lose(c) \/ Approval!Use(c)
      \/ \E S \in SUBSET Ids : Approval!Lapse(S)
      \/ UNCHANGED Approval!avars
    BY RememberRefines, CheckBatchRefines, MarkExpiredRefines, ClaimRefines,
       ContextRefines, ReleaseRefines, SubmitRefines, PostRefines, AnswerRefines,
       SettleRefines DEF Step
<1> QED
    BY <1>1 DEF Approval!ANext

LEMMA NextRefines ==
    IInv /\ [Next]_vars => [Approval!ANext]_(Approval!avars)
<1> SUFFICES ASSUME IInv, [Next]_vars
             PROVE  Approval!ANext \/ UNCHANGED Approval!avars
    OBVIOUS
<1>1. ASSUME NEW id \in Ids, PassDeadline(id)
      PROVE  UNCHANGED Approval!avars
    BY <1>1, SilentRefines DEF PassDeadline, audit, work
<1>2. CASE Crash
    BY <1>2, CrashRefines DEF Approval!ANext
<1>3. CASE UNCHANGED vars
    BY <1>3, SilentRefines DEF vars
<1> QED
    BY <1>1, <1>2, <1>3, StartRefines, StepRefines DEF Next

\* place, place_batch and preview with all their failures and restarts
\* implement single-use approvals.
THEOREM SpecImplementsSingleUse == Spec => ImplementsSingleUse
    BY InitRefines, NextRefines, SpecIInv, PTL DEF Spec, ImplementsSingleUse, Approval!ASpec

-----------------------------------------------------------------------------
(* The abstract approvals keep their promise.                               *)

LEMMA AInitInv == Approval!AInit => Approval!AInv
    BY DEF Approval!AInit, Approval!AInv, Approval!ATypeOK, Approval!UsedOnce

LEMMA ANextInv == Approval!AInv /\ [Approval!ANext]_(Approval!avars) => Approval!AInv'
<1> SUFFICES ASSUME Approval!AInv, [Approval!ANext]_(Approval!avars) PROVE Approval!AInv'
    OBVIOUS
<1> USE DEF Approval!AInv, Approval!ATypeOK, Approval!UsedOnce
<1>1. ASSUME NEW id \in Ids, Approval!Issue(id) PROVE Approval!AInv'
    BY <1>1 DEF Approval!Issue
<1>2. ASSUME NEW c \in Calls, NEW S \in SUBSET Ids, Approval!Take(c, S) PROVE Approval!AInv'
    BY <1>2 DEF Approval!Take
<1>3. ASSUME NEW c \in Calls, Approval!GiveBack(c) PROVE Approval!AInv'
    BY <1>3 DEF Approval!GiveBack
<1>4. ASSUME NEW c \in Calls, Approval!Lose(c) PROVE Approval!AInv'
    BY <1>4 DEF Approval!Lose
<1>5. ASSUME NEW c \in Calls, Approval!Use(c) PROVE Approval!AInv'
    BY <1>5 DEF Approval!Use
<1>6. ASSUME NEW S \in SUBSET Ids, Approval!Lapse(S) PROVE Approval!AInv'
    BY <1>6 DEF Approval!Lapse
<1>7. CASE Approval!LoseAll
    BY <1>7 DEF Approval!LoseAll
<1>8. CASE UNCHANGED Approval!avars
    BY <1>8 DEF Approval!avars
<1> QED
    BY <1>1, <1>2, <1>3, <1>4, <1>5, <1>6, <1>7, <1>8 DEF Approval!ANext

\* The promise of preview_order and place_order in the abstract: single use.
THEOREM ASpecUsedOnce == Approval!ASpec => []Approval!UsedOnce
<1>1. Approval!AInv => Approval!UsedOnce
    BY DEF Approval!AInv
<1> QED
    BY <1>1, AInitInv, ANextInv, PTL DEF Approval!ASpec

=============================================================================
