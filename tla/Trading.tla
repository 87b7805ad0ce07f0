------------------------------ MODULE Trading ------------------------------
(***************************************************************************)
(* The approval lifecycle of TradingService (src/src/trading.rs): preview, *)
(* place, place_batch and the account requests that share the              *)
(* authenticated client, running concurrently in one process over a SQLite *)
(* audit table that outlives the process.                                  *)
(*                                                                         *)
(* One step is one access to shared state: a tokio mutex, the audit        *)
(* database or the exchange.  A call rejected by require_enabled,          *)
(* require_signer, its confirmation or an argument check returns before it *)
(* reads any of that state, and is not a step.                             *)
(***************************************************************************)
EXTENDS Integers, Sequences, Functions, FiniteSetsExt

CONSTANTS
    Calls,        \* concurrent tool calls
    Ids,          \* approval ids; each stands for one previewed order
    Nobody,       \* the owner of a free mutex
    Notional,     \* the maximum notional of each previewed order
    MaxNotional,  \* POLYMARKET_MAX_ORDER_PUSD
    BatchLimit,   \* most ids in one batch (10 in the code)
    DbMayFail,    \* may an audit write fail?
    MayCrash      \* may the process stop and start again?

ASSUME TradingAssumption ==
    /\ Nobody \notin Calls
    /\ Notional \in [Ids -> Nat]
    /\ MaxNotional \in Nat
    /\ BatchLimit \in Nat \ {0}
    /\ DbMayFail \in BOOLEAN
    /\ MayCrash \in BOOLEAN

VARIABLES
    \* the audit table on disk
    status,         \* order_approval_audit.status, "none" for no row
    orderIds,       \* ids whose row carries the exchange's order ids
    \* the process
    plans,          \* keys of the approvals map
    approvalsLock,  \* holder of the approvals mutex
    contextLock,    \* holder of the context mutex
    authenticated,  \* is the context Some(AuthContext)?
    \* the calls
    pc,             \* what each call does next
    kind,           \* which handler it runs
    ids,            \* the approval ids a call works on
    at,             \* position of the loop over ids after the exchange answered
    answered,       \* how many of ids the exchange answered, or NoAnswer
    \* the environment
    due,            \* ids whose expires_at_ms lies in the past
    sent            \* how often an order was handed to the exchange

audit == <<status, orderIds>>
locks == <<approvalsLock, contextLock>>
work  == <<kind, ids, at, answered>>
vars  == <<status, orderIds, plans, approvalsLock, contextLock, authenticated,
           pc, kind, ids, at, answered, due, sent>>

Status == {"none", "approved", "validating", "submitting",
           "submitted", "unknown", "expired"}

\* Program counters, in the order an order placement goes through them.
PC == {"idle", "remember", "check", "expire", "claim", "enter", "auth",
       "validate", "release", "submit", "post", "await", "forget",
       "record", "settle", "request"}

\* Between the claim and the hand-over to the exchange a call owns its ids.
Owning == {"enter", "auth", "validate", "release", "submit", "post"}

NoAnswer == -1

Kind == {"none", "preview", "place", "batch", "account"}

Owned(c) == IF pc[c] \in Owning THEN Range(ids[c]) ELSE {}

Batches == UNION {[1..n -> Ids] : n \in 1..BatchLimit}

TotalNotional(S) == MapThenSumSet(LAMBDA id : Notional[id], S)

RowTypes ==
    /\ status \in [Ids -> Status]
    /\ orderIds \subseteq Ids
    /\ plans \subseteq Ids
    /\ due \subseteq Ids
    /\ sent \in [Ids -> Nat]

LockTypes ==
    /\ approvalsLock \in Calls \cup {Nobody}
    /\ contextLock \in Calls \cup {Nobody}
    /\ authenticated \in BOOLEAN

CallTypes ==
    /\ pc \in [Calls -> PC]
    /\ kind \in [Calls -> Kind]
    /\ ids \in [Calls -> Seq(Ids)]
    /\ at \in [Calls -> Nat]
    /\ answered \in [Calls -> Int]

\* Every variable has its type.
TypeOK == RowTypes /\ LockTypes /\ CallTypes

Init ==
    /\ status = [id \in Ids |-> "none"]
    /\ orderIds = {}
    /\ plans = {}
    /\ approvalsLock = Nobody
    /\ contextLock = Nobody
    /\ authenticated = FALSE
    /\ pc = [c \in Calls |-> "idle"]
    /\ kind = [c \in Calls |-> "none"]
    /\ ids = [c \in Calls |-> << >>]
    /\ at = [c \in Calls |-> 0]
    /\ answered = [c \in Calls |-> NoAnswer]
    /\ due = {}
    /\ sent = [id \in Ids |-> 0]

-----------------------------------------------------------------------------
(* Building blocks of the handlers. *)

Goto(c, label) == pc' = [pc EXCEPT ![c] = label]

\* A handler returns: its locals go and the guards it holds are dropped.
Return(c) ==
    /\ pc' = [pc EXCEPT ![c] = "idle"]
    /\ kind' = [kind EXCEPT ![c] = "none"]
    /\ ids' = [ids EXCEPT ![c] = << >>]
    /\ at' = [at EXCEPT ![c] = 0]
    /\ answered' = [answered EXCEPT ![c] = NoAnswer]
    /\ approvalsLock' = IF approvalsLock = c THEN Nobody ELSE approvalsLock
    /\ contextLock' = IF contextLock = c THEN Nobody ELSE contextLock

\* The `?` on an audit write: the row keeps its value and the handler returns.
WriteFails(c) ==
    /\ DbMayFail
    /\ Return(c)
    /\ UNCHANGED <<audit, plans, authenticated, due, sent>>

\* UPDATE ... SET status, for the rows of S.
SetStatus(S, new) ==
    status' = [id \in Ids |-> IF id \in S THEN new ELSE status[id]]

\* set_approval_audit (a single order) empties order_ids_json as well;
\* set_approval_batch leaves that column alone.
WriteStatus(c, new) ==
    /\ SetStatus(Range(ids[c]), new)
    /\ orderIds' = IF kind[c] = "place" THEN orderIds \ Range(ids[c]) ELSE orderIds

\* Is the loop over the ids at its last round?
LastRoundEarly(c) == at[c] >= Len(ids[c]) - 1   \* mutant: off by one
LastRound(c) == at[c] = Len(ids[c])

-----------------------------------------------------------------------------
(* preview: one audit row, then one plan in memory. *)

\* mutant: the plan goes into memory before its row is written
StartPreviewUnaudited(c, id) ==
    /\ pc[c] = "idle"
    /\ status[id] = "none"
    /\ plans' = plans \cup {id}
    /\ kind' = [kind EXCEPT ![c] = "preview"]
    /\ ids' = [ids EXCEPT ![c] = <<id>>]
    /\ Goto(c, "remember")
    /\ UNCHANGED <<audit, locks, authenticated, at, answered, due, sent>>

\* insert_approval_audit: the primary key refuses an id that has a row.
StartPreview(c, id) ==
    /\ pc[c] = "idle"
    /\ Notional[id] <= MaxNotional
    /\ status[id] = "none"
    /\ SetStatus({id}, "approved")
    /\ kind' = [kind EXCEPT ![c] = "preview"]
    /\ ids' = [ids EXCEPT ![c] = <<id>>]
    /\ Goto(c, "remember")
    /\ UNCHANGED <<orderIds, plans, locks, authenticated, at, answered, due, sent>>

\* self.approvals.lock().await.insert(...)
Remember(c) ==
    /\ pc[c] = "remember"
    /\ approvalsLock = Nobody
    /\ plans' = plans \cup Range(ids[c])
    /\ Return(c)
    /\ UNCHANGED <<audit, authenticated, due, sent>>

-----------------------------------------------------------------------------
(* place and place_batch up to the claim. *)

\* mutant: the audit row stands in for the plan in memory
StartPlaceUnlisted(c, id) ==
    /\ pc[c] = "idle"
    /\ approvalsLock = Nobody
    /\ status[id] # "none"
    /\ kind' = [kind EXCEPT ![c] = "place"]
    /\ ids' = [ids EXCEPT ![c] = <<id>>]
    /\ Goto(c, IF id \in due THEN "expire" ELSE "claim")
    /\ UNCHANGED <<audit, plans, locks, authenticated, at, answered, due, sent>>

\* place clones the plan under a lock it gives back at once, then looks at the
\* clock.  An unknown id is an error that changes nothing.
StartPlace(c, id) ==
    /\ pc[c] = "idle"
    /\ approvalsLock = Nobody
    /\ id \in plans
    /\ kind' = [kind EXCEPT ![c] = "place"]
    /\ ids' = [ids EXCEPT ![c] = <<id>>]
    /\ Goto(c, IF id \in due THEN "expire" ELSE "claim")
    /\ UNCHANGED <<audit, plans, locks, authenticated, at, answered, due, sent>>

\* place_batch keeps the approvals mutex while it looks at all its ids.
StartBatch(c, batch) ==
    /\ pc[c] = "idle"
    /\ approvalsLock = Nobody
    /\ approvalsLock' = c
    /\ kind' = [kind EXCEPT ![c] = "batch"]
    /\ ids' = [ids EXCEPT ![c] = batch]
    /\ Goto(c, "check")
    /\ UNCHANGED <<audit, plans, contextLock, authenticated, at, answered, due, sent>>

Refused(batch, i) ==
    \/ \E j \in 1..(i - 1) : batch[j] = batch[i]
    \/ batch[i] \notin plans

FirstBad(batch, i) ==
    /\ Refused(batch, i) \/ batch[i] \in due
    /\ \A j \in 1..(i - 1) : ~Refused(batch, j) /\ batch[j] \notin due

OverCap(batch) == TotalNotional(Range(batch)) > MaxNotional

\* A duplicate or unknown id, or too much notional: an error, nothing written.
RefuseBatch(c) ==
    /\ \/ \E i \in DOMAIN ids[c] : FirstBad(ids[c], i) /\ Refused(ids[c], i)
       \/ /\ \A i \in DOMAIN ids[c] : ~FirstBad(ids[c], i)
          /\ OverCap(ids[c])
    /\ Return(c)
    /\ UNCHANGED <<audit, plans, authenticated, due, sent>>

\* An expired id is written down while the approvals mutex is still held.
FindExpired(c) ==
    /\ \E i \in DOMAIN ids[c] :
          /\ FirstBad(ids[c], i) /\ ~Refused(ids[c], i)
          /\ ids' = [ids EXCEPT ![c] = <<ids[c][i]>>]
    /\ Goto(c, "expire")
    /\ UNCHANGED <<audit, plans, locks, authenticated, kind, at, answered, due, sent>>

\* drop(approvals) comes before the claim and the wait for the context.
AcceptBatch(c) ==
    /\ \A i \in DOMAIN ids[c] : ~FirstBad(ids[c], i)
    /\ ~OverCap(ids[c])
    /\ approvalsLock' = Nobody
    /\ Goto(c, "claim")
    /\ UNCHANGED <<audit, plans, contextLock, authenticated, work, due, sent>>

CheckBatch(c) ==
    /\ pc[c] = "check"
    /\ RefuseBatch(c) \/ FindExpired(c) \/ AcceptBatch(c)

\* set_approval_audit(..., "expired", &[], ...): whatever the row says now.
MarkExpired(c) ==
    /\ pc[c] = "expire"
    /\ \/ /\ SetStatus(Range(ids[c]), "expired")
          /\ orderIds' = orderIds \ Range(ids[c])
          /\ Return(c)
          /\ UNCHANGED <<plans, authenticated, due, sent>>
       \/ WriteFails(c)

ClaimableHeld(id) == status[id] \in {"approved", "validating"}   \* mutant
Claimable(id) == status[id] = "approved"

\* mutant: the updates before the refused one are not rolled back
ClaimPiecemeal(c) ==
    /\ pc[c] = "claim"
    /\ SetStatus({id \in Range(ids[c]) : Claimable(id)}, "validating")
    /\ \/ /\ \A id \in Range(ids[c]) : Claimable(id)
          /\ Goto(c, "enter")
          /\ UNCHANGED <<locks, work>>
       \/ /\ \E id \in Range(ids[c]) : ~Claimable(id)
          /\ Return(c)
    /\ UNCHANGED <<orderIds, plans, authenticated, due, sent>>

\* transition_approval_audit and transition_approval_batch: all rows move from
\* "approved" to "validating" in one transaction, or none does.
Claim(c) ==
    /\ pc[c] = "claim"
    /\ \/ /\ \A id \in Range(ids[c]) : Claimable(id)
          /\ SetStatus(Range(ids[c]), "validating")
          /\ Goto(c, "enter")
          /\ UNCHANGED <<orderIds, plans, locks, authenticated, work, due, sent>>
       \/ /\ \E id \in Range(ids[c]) : ~Claimable(id)
          /\ Return(c)
          /\ UNCHANGED <<audit, plans, authenticated, due, sent>>
       \/ WriteFails(c)

-----------------------------------------------------------------------------
(* Work under the context mutex, shared with the account requests. *)

\* order, open_orders, account_trades, balance_allowance, cancel_*.
StartAccountRequest(c) ==
    /\ pc[c] = "idle"
    /\ kind' = [kind EXCEPT ![c] = "account"]
    /\ Goto(c, "enter")
    /\ UNCHANGED <<audit, plans, locks, authenticated, ids, at, answered, due, sent>>

EnterContext(c) ==
    /\ pc[c] = "enter"
    /\ contextLock = Nobody
    /\ contextLock' = c
    /\ Goto(c, "auth")
    /\ UNCHANGED <<audit, plans, approvalsLock, authenticated, work, due, sent>>

\* ensure_authenticated: memoised; only a first authentication can fail.
\* watch_user_events wants the credentials only and returns with them.
Authenticate(c) ==
    /\ pc[c] = "auth"
    /\ \/ /\ authenticated' = TRUE
          /\ \/ /\ Goto(c, IF kind[c] = "account" THEN "request" ELSE "validate")
                /\ UNCHANGED <<locks, work>>
             \/ /\ kind[c] = "account"
                /\ Return(c)
       \/ /\ ~authenticated
          /\ UNCHANGED authenticated
          /\ \/ /\ kind[c] # "account"
                /\ Goto(c, "release")
                /\ UNCHANGED <<locks, work>>
             \/ /\ kind[c] = "account"
                /\ Return(c)
    /\ UNCHANGED <<audit, plans, due, sent>>

\* An account request is answered or fails, and returns.
AccountRequest(c) ==
    /\ pc[c] = "request"
    /\ Return(c)
    /\ UNCHANGED <<audit, plans, authenticated, due, sent>>

\* mutant: a failed validation starts over instead of giving up
ValidateRetrying(c) ==
    /\ pc[c] = "validate"
    /\ Goto(c, "submit") \/ Goto(c, "auth")
    /\ UNCHANGED <<audit, plans, locks, authenticated, work, due, sent>>

\* ensure_not_geoblocked, building and signing: each may fail, none looks at
\* the approval again.
Validate(c) ==
    /\ pc[c] = "validate"
    /\ Goto(c, "submit") \/ Goto(c, "release")
    /\ UNCHANGED <<audit, plans, locks, authenticated, work, due, sent>>

\* A failed validation gives the approval back: "approved", whatever the row
\* says now.
Release(c) ==
    /\ pc[c] = "release"
    /\ \/ /\ WriteStatus(c, "approved")
          /\ Return(c)
          /\ UNCHANGED <<plans, authenticated, due, sent>>
       \/ WriteFails(c)

Submit(c) ==
    /\ pc[c] = "submit"
    /\ \/ /\ WriteStatus(c, "submitting")
          /\ Goto(c, "post")
          /\ UNCHANGED <<plans, locks, authenticated, work, due, sent>>
       \/ WriteFails(c)

-----------------------------------------------------------------------------
(* The exchange, and what is done with its answer. *)

\* post_order / post_orders leaves the process.
Post(c) ==
    /\ pc[c] = "post"
    /\ sent' = [id \in Ids |-> IF id \in Range(ids[c]) THEN sent[id] + 1 ELSE sent[id]]
    /\ Goto(c, "await")
    /\ UNCHANGED <<audit, plans, locks, authenticated, work, due>>

\* The answer: an error (the orders may or may not exist), or results for the
\* first n ids of a batch.  A single order is answered by exactly one result.
Answer(c) ==
    /\ pc[c] = "await"
    /\ \E n \in {NoAnswer} \cup 0..Len(ids[c]) :
          /\ kind[c] = "place" => n # 0
          /\ answered' = [answered EXCEPT ![c] = n]
    /\ at' = [at EXCEPT ![c] = 1]
    /\ Goto(c, "forget")
    /\ UNCHANGED <<audit, plans, locks, authenticated, kind, ids, due, sent>>

\* self.approvals.lock().await.remove(id).  After an error every id is removed
\* before one write; after an answer each removal is followed by its write.
Forget(c) ==
    /\ pc[c] = "forget"
    /\ approvalsLock = Nobody
    /\ plans' = plans \ {ids[c][at[c]]}
    /\ \/ /\ answered[c] # NoAnswer
          /\ Goto(c, "record")
          /\ UNCHANGED at
       \/ /\ answered[c] = NoAnswer
          /\ ~LastRound(c)
          /\ at' = [at EXCEPT ![c] = @ + 1]
          /\ UNCHANGED pc
       \/ /\ answered[c] = NoAnswer
          /\ LastRound(c)
          /\ Goto(c, "settle")
          /\ UNCHANGED at
    /\ UNCHANGED <<audit, locks, authenticated, kind, ids, answered, due, sent>>

\* mutant: an error answer gives the approval back
SettleApproved(c) ==
    /\ pc[c] = "settle"
    /\ WriteStatus(c, "approved")
    /\ Return(c)
    /\ UNCHANGED <<plans, authenticated, due, sent>>

\* mutant: the error is returned with `?`, before the write
SettleUnwritten(c) ==
    /\ pc[c] = "settle"
    /\ Return(c)
    /\ UNCHANGED <<audit, plans, authenticated, due, sent>>

\* set_approval_audit / set_approval_batch(..., "unknown", ...).
SettleUnknown(c) ==
    /\ pc[c] = "settle"
    /\ \/ /\ WriteStatus(c, "unknown")
          /\ Return(c)
          /\ UNCHANGED <<plans, authenticated, due, sent>>
       \/ WriteFails(c)

\* "submitted" with its order ids, or "unknown" when the response was short.
WriteResult(c) ==
    LET id == ids[c][at[c]] IN
    IF at[c] <= answered[c]
    THEN SetStatus({id}, "submitted") /\ orderIds' = orderIds \cup {id}
    ELSE SetStatus({id}, "unknown") /\ orderIds' = orderIds \ {id}

RecordResult(c) ==
    /\ pc[c] = "record"
    /\ \/ /\ WriteResult(c)
          /\ ~LastRound(c)
          /\ at' = [at EXCEPT ![c] = @ + 1]
          /\ Goto(c, "forget")
          /\ UNCHANGED <<plans, locks, authenticated, kind, ids, answered, due, sent>>
       \/ /\ WriteResult(c)
          /\ LastRound(c)
          /\ Return(c)
          /\ UNCHANGED <<plans, authenticated, due, sent>>
       \/ WriteFails(c)

-----------------------------------------------------------------------------
(* The environment. *)

\* Five minutes after the preview.  Of an approval that is not in memory nobody looks at
\* the deadline.
PassDeadline(id) ==
    /\ id \in plans
    /\ id \notin due
    /\ due' = due \cup {id}
    /\ UNCHANGED <<audit, plans, locks, authenticated, pc, work, sent>>

\* The process stops with calls in flight and starts again on the same database.
Crash ==
    /\ MayCrash
    /\ plans' = {}
    /\ approvalsLock' = Nobody
    /\ contextLock' = Nobody
    /\ authenticated' = FALSE
    /\ pc' = [c \in Calls |-> "idle"]
    /\ kind' = [c \in Calls |-> "none"]
    /\ ids' = [c \in Calls |-> << >>]
    /\ at' = [c \in Calls |-> 0]
    /\ answered' = [c \in Calls |-> NoAnswer]
    /\ UNCHANGED <<audit, due, sent>>

Start(c) ==
    \/ \E id \in Ids : StartPreview(c, id) \/ StartPlace(c, id)
    \/ \E batch \in Batches : StartBatch(c, batch)
    \/ StartAccountRequest(c)

Step(c) ==
    \/ Remember(c)
    \/ CheckBatch(c)
    \/ MarkExpired(c)
    \/ Claim(c)
    \/ EnterContext(c)
    \/ Authenticate(c)
    \/ AccountRequest(c)
    \/ Validate(c)
    \/ Release(c)
    \/ Submit(c)
    \/ Post(c)
    \/ Answer(c)
    \/ Forget(c)
    \/ SettleUnknown(c)
    \/ RecordResult(c)

Next ==
    \/ \E c \in Calls : Start(c) \/ Step(c)
    \/ \E id \in Ids : PassDeadline(id)
    \/ Crash

Spec == Init /\ [][Next]_vars

\* tokio's mutexes queue their waiters first come first served, the runtime
\* polls every ready task, and the network is assumed to answer.
Fairness == \A c \in Calls : SF_vars(Step(c))

FairSpec == Spec /\ Fairness

-----------------------------------------------------------------------------
(* Safety. *)

\* An approval is single-use: its order is handed to the exchange at most once,
\* however many calls name it, however they interleave with audit failures and
\* restarts (README.md:120, "consumes that approval").
SingleUse == \A id \in Ids : sent[id] <= 1

\* Once an order may exist on the exchange its row is never again in a state
\* that a later call can claim or that reads as not yet submitted, so an
\* ambiguous outcome is never shown as safe to retry.
SentNeverRetryable ==
    \A id \in Ids : sent[id] > 0 => status[id] \notin {"none", "approved", "validating"}

\* Two calls in flight never own the same approval, and an approval that some
\* call owns is never open to a third: the compare-and-set in the database is
\* the only thing that serialises place and place_batch before the context mutex.
ExclusiveClaim ==
    \A c \in Calls : \A id \in Owned(c) :
        /\ status[id] # "approved"
        /\ \A d \in Calls \ {c} : id \notin Owned(d)

\* No approval can be placed from memory that the audit table does not know.
AuditedBeforeUsable == \A id \in plans : status[id] # "none"

\* A settled row (the exchange answered) is out of the approvals map, so the map cannot
\* offer it again: every way out of the batch loops removes its ids.  And the row of an
\* accepted order names its order ids, as no other row does, though status and
\* order_ids_json are written by different calls at different times.
SettledForgotten ==
    /\ \A id \in plans : status[id] \notin {"submitted", "unknown"}
    /\ orderIds = {id \in Ids : status[id] = "submitted"}

\* While nothing fails, a row in "validating" belongs to a call in flight: a
\* refused or failed call never leaves an approval claimed with no owner.
\* (A crash or a failed audit write does; the row is then stuck for good.)
NoAbandonedClaim ==
    ~DbMayFail /\ ~MayCrash =>
        \A id \in Ids : status[id] = "validating" => \E c \in Calls : id \in Owned(c)

\* A row without a plan in memory, which no call past its checks works on, as
\* every row after a restart, is out of reach for good: neither a restart nor
\* any later call gets hold of it, and what it says never changes again.
Unreachable(id) ==
    /\ status[id] # "none"
    /\ id \notin plans
    /\ \A c \in Calls : pc[c] = "check" \/ \A i \in DOMAIN ids[c] : ids[c][i] # id

FrozenOnceUnreachable ==
    [][\A id \in Ids : Unreachable(id) =>
          /\ Unreachable(id)'
          /\ status'[id] = status[id]
          /\ id \in orderIds' <=> id \in orderIds]_vars

-----------------------------------------------------------------------------
(* The inductive invariant behind SingleUse, SentNeverRetryable and          *)
(* ExclusiveClaim.  Its parts say what each call may rely on between its     *)
(* steps: an owned row was not handed over, nobody else owns it, and a row   *)
(* handed over has left the states a call can own.                           *)

\* Account requests stay within their three steps; every other call has ids,
\* and its loop over them stays inside.
ShapeOf(c) ==
    /\ kind[c] = "account" => pc[c] \in {"enter", "auth", "request"}
    /\ kind[c] = "none" <=> pc[c] = "idle"
    /\ pc[c] = "request" => kind[c] = "account"
    /\ kind[c] \in {"preview", "place", "batch"} => ids[c] # << >>
    /\ kind[c] \notin {"preview", "place", "batch"} => ids[c] = << >>
    /\ pc[c] \in {"forget", "record"} => at[c] \in 1..Len(ids[c])

OwnedRowsOf(c) ==
    \A id \in Owned(c) :
        /\ sent[id] = 0
        /\ status[id] \in IF pc[c] = "post" THEN {"submitting", "expired"}
                                            ELSE {"validating", "expired"}

\* What a call knows of rows it does not own: they exist, or were sent.
KnownRowsOf(c) ==
    \A id \in Range(ids[c]) :
        /\ pc[c] \in {"remember", "expire"} => status[id] # "none"
        /\ pc[c] \in {"await", "forget", "record", "settle"} => sent[id] = 1

OwnersDisjoint ==
    \A c, d \in Calls : c # d => Owned(c) \cap Owned(d) = {}

SentRows ==
    \A id \in Ids :
        /\ sent[id] \in {0, 1}
        /\ sent[id] = 1 => status[id] \in {"submitting", "submitted", "unknown", "expired"}

IInv ==
    /\ TypeOK
    /\ \A c \in Calls : ShapeOf(c) /\ OwnedRowsOf(c) /\ KnownRowsOf(c)
    /\ OwnersDisjoint
    /\ SentRows
    /\ AuditedBeforeUsable

-----------------------------------------------------------------------------
(* The second layer, behind SettledForgotten: what a call relies on when it  *)
(* puts a plan into memory and when it settles rows one by one.              *)

Handled(c) ==
    IF pc[c] \in {"await", "forget", "record", "settle"} THEN Range(ids[c]) ELSE {}

\* preview waits for the approvals mutex with an id that nobody can know yet;
\* a batch under check may name anything, but gets no further with it.
FreshOf(c) ==
    pc[c] = "remember" => \A id \in Range(ids[c]) :
        /\ id \notin plans
        /\ status[id] = "approved"
        /\ \A d \in Calls \ {c} : pc[d] = "check" \/ id \notin Range(ids[d])

\* What is claimed has a row.
ClaimingOf(c) == pc[c] = "claim" => \A id \in Range(ids[c]) : status[id] # "none"

\* An id leaves memory before its outcome is written, and after an error
\* answer no outcome is written before all ids have left.
SettlingOf(c) ==
    /\ pc[c] = "record" => answered[c] # NoAnswer /\ ids[c][at[c]] \notin plans
    /\ pc[c] = "settle" => answered[c] = NoAnswer /\ Range(ids[c]) \cap plans = {}
    /\ pc[c] = "forget" /\ answered[c] = NoAnswer =>
           \A i \in 1..(at[c] - 1) : ids[c][i] \notin plans
    /\ (pc[c] = "await" \/ (pc[c] \in {"forget", "settle"} /\ answered[c] = NoAnswer)) =>
           \A id \in Range(ids[c]) : status[id] \in {"submitting", "expired"}

HandlersDisjoint ==
    \A c, d \in Calls : c # d => Handled(c) \cap Handled(d) = {}

SInv ==
    /\ \A c \in Calls : FreshOf(c) /\ ClaimingOf(c) /\ SettlingOf(c)
    /\ HandlersDisjoint
    /\ SettledForgotten

-----------------------------------------------------------------------------
(* Liveness, under FairSpec. *)

\* Every call returns: no set of calls waits on each other's mutexes for good.
EveryCallReturns == \A c \in Calls : pc[c] # "idle" ~> pc[c] = "idle"

\* While nothing fails, an approval in the middle of a submission ends in a row
\* that says how it ended.
SubmissionSettles ==
    \A id \in Ids :
        status[id] = "submitting" ~> status[id] \in {"submitted", "unknown", "expired"}

-----------------------------------------------------------------------------
(* What the documentation says and the code does not do. *)

\* trading.rs:373, "approval expired before submission": a row that says so was
\* not submitted.
ExpiredMeansUnsent == \A id \in Ids : status[id] = "expired" => sent[id] = 0

=============================================================================
