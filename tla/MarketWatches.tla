--------------------------- MODULE MarketWatches ---------------------------
(***************************************************************************)
(* The registry of market watches and the task behind each watch           *)
(* (src/src/realtime.rs): watch_markets, stop, stop_all and                *)
(* WatchTask::run, with any number of concurrent tool calls.               *)
(*                                                                         *)
(* Every critical section of the RwLock `watches` is free of awaits, so it *)
(* is one step; everything between two of them is open to interleaving.    *)
(* What a watch receives is left to MarketFeed and EventLog.               *)
(***************************************************************************)
EXTENDS Naturals, FiniteSets, Functions

CONSTANTS
    Callers,      \* concurrent tool calls
    TokenLists,   \* the token lists they ask for
    Unasked,      \* no token list
    MaxActive,    \* MAX_ACTIVE_WATCHES (16 in the code)
    MaxId,        \* bound: watch ids handed out
    MaxFailures   \* bound: failed connections

ASSUME WatchAssumption ==
    /\ Unasked \notin TokenLists
    /\ MaxActive \in Nat
    /\ MaxId \in Nat
    /\ MaxFailures \in Nat

Ids == 1..MaxId

VARIABLES
    watches,     \* the registry: a record for each registered id
    nextId,
    pc,          \* what each call does next
    tokens,      \* the token list a watch_markets call asks for
    mine,        \* the id it drew
    doomed,      \* ids a stop removed whose cancellation it has yet to send
    task,        \* where the task of each id is
    cancelled,   \* ids whose cancel channel says true
    grown,       \* ids whose backoff is past its first second
    failures     \* failed connections so far

calls == <<pc, tokens, mine, doomed>>
tasks == <<task, grown, failures>>
vars  == <<watches, nextId, pc, tokens, mine, doomed, task, cancelled, grown, failures>>

Health == {"Connecting", "Connected", "Reconnecting"}

Watch == [tokens : TokenLists, state : Health, lastError : BOOLEAN,
          errors : Nat, reconnects : Nat]

TaskPC == {"none", "top", "connecting", "receiving", "failed", "marking",
           "sleeping", "done"}

Registered == DOMAIN watches

TypeOK ==
    /\ Registered \subseteq Ids
    /\ \A id \in Registered : watches[id] \in Watch
    /\ nextId \in 1..(MaxId + 1)
    /\ pc \in [Callers -> {"idle", "insert", "spawn", "signal"}]
    /\ tokens \in [Callers -> TokenLists \cup {Unasked}]
    /\ mine \in [Callers -> 0..MaxId]
    /\ doomed \in [Callers -> SUBSET Ids]
    /\ task \in [Ids -> TaskPC]
    /\ cancelled \subseteq Ids
    /\ grown \subseteq Ids
    /\ failures \in 0..MaxFailures

Init ==
    /\ watches = << >>
    /\ nextId = 1
    /\ pc = [c \in Callers |-> "idle"]
    /\ tokens = [c \in Callers |-> Unasked]
    /\ mine = [c \in Callers |-> 0]
    /\ doomed = [c \in Callers |-> {}]
    /\ task = [id \in Ids |-> "none"]
    /\ cancelled = {}
    /\ grown = {}
    /\ failures = 0

-----------------------------------------------------------------------------
(* watch_markets. *)

Watched(ts) == \E id \in Registered : watches[id].tokens = ts

Full == Cardinality(Registered) >= MaxActive

NewWatch(ts) ==
    [tokens |-> ts, state |-> "Connecting", lastError |-> FALSE,
     errors |-> 0, reconnects |-> 0]

Register(id, w) ==
    watches' = [i \in Registered \cup {id} |-> IF i = id THEN w ELSE watches[i]]

Unregister(S) == watches' = Restrict(watches, Registered \ S)

\* The check under the read lock, and fetch_add.  A call that finds its tokens
\* watched, or the registry full, returns here and changes nothing.
StartWatch(c, ts) ==
    /\ pc[c] = "idle"
    /\ nextId <= MaxId
    /\ ~Watched(ts) /\ ~Full
    /\ pc' = [pc EXCEPT ![c] = "insert"]
    /\ tokens' = [tokens EXCEPT ![c] = ts]
    /\ mine' = [mine EXCEPT ![c] = nextId]
    /\ nextId' = nextId + 1
    /\ UNCHANGED <<watches, doomed, tasks, cancelled>>

\* watch_markets returns.
Return(c) ==
    /\ pc' = [pc EXCEPT ![c] = "idle"]
    /\ tokens' = [tokens EXCEPT ![c] = Unasked]
    /\ mine' = [mine EXCEPT ![c] = 0]

\* mutant: the second check looks for the tokens only
InsertUncapped(c) ==
    /\ pc[c] = "insert"
    /\ \/ /\ Watched(tokens[c])
          /\ Return(c)
          /\ UNCHANGED watches
       \/ /\ ~Watched(tokens[c])
          /\ Register(mine[c], NewWatch(tokens[c]))
          /\ pc' = [pc EXCEPT ![c] = "spawn"]
          /\ UNCHANGED <<tokens, mine>>
    /\ UNCHANGED <<nextId, doomed, tasks, cancelled>>

\* The check again, under the write lock, and the insertion.
Insert(c) ==
    /\ pc[c] = "insert"
    /\ \/ /\ Watched(tokens[c]) \/ Full
          /\ Return(c)
          /\ UNCHANGED watches
       \/ /\ ~Watched(tokens[c]) /\ ~Full
          /\ Register(mine[c], NewWatch(tokens[c]))
          /\ pc' = [pc EXCEPT ![c] = "spawn"]
          /\ UNCHANGED <<tokens, mine>>
    /\ UNCHANGED <<nextId, doomed, tasks, cancelled>>

\* tokio::spawn(task.run()).  A stop may have come in between.
Spawn(c) ==
    /\ pc[c] = "spawn"
    /\ task' = [task EXCEPT ![mine[c]] = "top"]
    /\ Return(c)
    /\ UNCHANGED <<watches, nextId, doomed, grown, failures, cancelled>>

-----------------------------------------------------------------------------
(* stop and stop_all: remove under the lock, then signal. *)

RemoveWatches(c, S) ==
    /\ pc[c] = "idle"
    /\ S # {}
    /\ Unregister(S)
    /\ doomed' = [doomed EXCEPT ![c] = S]
    /\ pc' = [pc EXCEPT ![c] = "signal"]
    /\ UNCHANGED <<nextId, tokens, mine, tasks, cancelled>>

Stop(c, id) == id \in Registered /\ RemoveWatches(c, {id})

StopAll(c) == RemoveWatches(c, Registered)

\* mutant: stop_all signals one watch and returns
SignalOne(c, id) ==
    /\ pc[c] = "signal"
    /\ id \in doomed[c]
    /\ cancelled' = cancelled \cup {id}
    /\ doomed' = [doomed EXCEPT ![c] = {}]
    /\ pc' = [pc EXCEPT ![c] = "idle"]
    /\ UNCHANGED <<watches, nextId, tokens, mine, tasks>>

\* state.cancel.send(true), one removed watch at a time.
Signal(c, id) ==
    /\ pc[c] = "signal"
    /\ id \in doomed[c]
    /\ cancelled' = cancelled \cup {id}
    /\ doomed' = [doomed EXCEPT ![c] = @ \ {id}]
    /\ pc' = [pc EXCEPT ![c] = IF doomed[c] = {id} THEN "idle" ELSE "signal"]
    /\ UNCHANGED <<watches, nextId, tokens, mine, tasks>>

-----------------------------------------------------------------------------
(* WatchTask::run. *)

At(id, here, there) ==
    /\ task[id] = here
    /\ task' = [task EXCEPT ![id] = there]

\* mutant: entry(id).or_insert(...), then the update
UpdateOrInsert(id, w) ==
    Register(id, IF id \in Registered THEN w ELSE NewWatch(CHOOSE ts \in TokenLists : TRUE))

\* get_mut(&self.watch_id): the watch, if it is still there, becomes w.
Update(id, w) ==
    watches' = IF id \in Registered THEN [watches EXCEPT ![id] = w] ELSE watches

Quit(id) ==
    /\ task' = [task EXCEPT ![id] = "done"]
    /\ UNCHANGED <<watches, nextId, calls, cancelled, grown, failures>>

\* The head of the loop.
Begin(id) ==
    /\ id \notin cancelled
    /\ At(id, "top", "connecting")
    /\ Update(id, [watches[id] EXCEPT !.state =
                      IF id \in grown THEN "Reconnecting" ELSE "Connecting"])
    /\ UNCHANGED <<nextId, calls, cancelled, grown, failures>>

\* connect_once up to the subscription; it does not look at the cancellation.
Connect(id) ==
    /\ At(id, "connecting", "receiving")
    /\ Update(id, [watches[id] EXCEPT !.state = "Connected"])
    /\ UNCHANGED <<nextId, calls, cancelled, grown, failures>>

\* A failed connection attempt, or a connection that fails, ends or times out.
Fail(id) ==
    /\ task[id] \in {"connecting", "receiving"}
    /\ failures < MaxFailures
    /\ failures' = failures + 1
    /\ task' = [task EXCEPT ![id] = "failed"]
    /\ UNCHANGED <<watches, nextId, calls, cancelled, grown>>

\* Any book or price change that is applied takes the error off the record.
Receive(id) ==
    /\ task[id] = "receiving"
    /\ Update(id, [watches[id] EXCEPT !.lastError = FALSE])
    /\ UNCHANGED <<nextId, calls, cancelled, tasks>>

\* record_connection_error, unless the watch was cancelled meanwhile.
RecordError(id) ==
    /\ id \notin cancelled
    /\ At(id, "failed", "marking")
    /\ Update(id, [watches[id] EXCEPT !.errors = @ + 1, !.lastError = TRUE])
    /\ UNCHANGED <<nextId, calls, cancelled, grown, failures>>

\* mutant: the health is left to the next attempt
MarkReconnects(id) ==
    /\ id \in Registered
    /\ At(id, "marking", "sleeping")
    /\ Update(id, [watches[id] EXCEPT !.reconnects = @ + 1])
    /\ UNCHANGED <<nextId, calls, cancelled, grown, failures>>

\* "Reconnecting" and the wait.
Mark(id) ==
    /\ id \in Registered
    /\ At(id, "marking", "sleeping")
    /\ Update(id, [watches[id] EXCEPT !.state = "Reconnecting", !.reconnects = @ + 1])
    /\ UNCHANGED <<nextId, calls, cancelled, grown, failures>>

\* The backoff has run out; it doubles.
Wake(id) ==
    /\ At(id, "sleeping", "top")
    /\ grown' = grown \cup {id}
    /\ UNCHANGED <<watches, nextId, calls, cancelled, failures>>

\* mutant: the first failed connection ends the task
BreakOnFailure(id) ==
    /\ \/ task[id] \in {"top", "receiving", "sleeping"} /\ id \in cancelled
       \/ task[id] = "failed"
       \/ task[id] = "marking" /\ id \notin Registered
    /\ Quit(id)

\* The ways out of the loop: a cancellation that is seen, or a watch that is gone.
Break(id) ==
    /\ \/ task[id] \in {"top", "receiving", "failed", "sleeping"} /\ id \in cancelled
       \/ task[id] = "marking" /\ id \notin Registered
    /\ Quit(id)

TaskStep(id) ==
    \/ Begin(id) \/ Connect(id) \/ RecordError(id) \/ Mark(id) \/ Wake(id) \/ Break(id)

CallStep(c) == Insert(c) \/ Spawn(c) \/ \E id \in Ids : Signal(c, id)

Next ==
    \/ \E c \in Callers :
          \/ \E ts \in TokenLists : StartWatch(c, ts)
          \/ \E id \in Ids : Stop(c, id)
          \/ StopAll(c)
          \/ CallStep(c)
    \/ \E id \in Ids : TaskStep(id) \/ Fail(id) \/ Receive(id)

Spec == Init /\ [][Next]_vars

\* The runtime polls every ready task and call, a connection attempt ends, and a
\* connection that ends is noticed.  Nothing makes a connection fail or a message come.
Fairness ==
    /\ \A c \in Callers : WF_vars(CallStep(c))
    /\ \A id \in Ids : WF_vars(TaskStep(id))

FairSpec == Spec /\ Fairness

-----------------------------------------------------------------------------
(* Safety. *)

\* At most MAX_ACTIVE_WATCHES watches are registered, however many calls passed
\* the check under the read lock together.
AtMostMax == Cardinality(Registered) <= MaxActive

\* A token list has one watch: two calls for the same tokens share it.
OnePerTokens ==
    \A i, j \in Registered : watches[i].tokens = watches[j].tokens => i = j

\* What the second check, under the write lock, keeps of the promises of the first.
Admitted == AtMostMax /\ OnePerTokens

\* A registered watch has a task that is still going, or its creator is about to
\* spawn it: a watch never sits in the registry with nobody to feed it.
Attended ==
    \A id \in Registered :
        \/ task[id] \notin {"none", "done"}
        \/ \E c \in Callers : pc[c] = "spawn" /\ mine[c] = id

\* What the health of a watch says about its task, and the other way round.
HealthOf(id) ==
    LET w == watches[id] IN
    /\ task[id] = "receiving" => w.state = "Connected"
    /\ w.state = "Connected" => task[id] \in {"receiving", "failed", "marking"}
    /\ w.state = "Reconnecting" => w.lastError
    /\ w.errors = w.reconnects + (IF task[id] = "marking" THEN 1 ELSE 0)

\* The health a watch reports is true: "Connected" only between a subscription
\* and the bookkeeping of its loss; "Reconnecting" only with the reason on record
\* and one error counted for each reconnect (README.md:93, connection state,
\* reconnects and errors "remain explicit").
HealthTruthful == \A id \in Registered : HealthOf(id)

\* An id that was handed out and is not registered, nor about to be.
Retired(id) ==
    /\ id < nextId
    /\ id \notin Registered
    /\ \A c \in Callers : ~(pc[c] = "insert" /\ mine[c] = id)

\* A stopped watch stays stopped: its task, which may be connecting or receiving
\* for a while yet, never brings it back, and no new watch gets its id.
RetiredForGood == [][\A id \in Ids : Retired(id) => Retired(id)']_vars

-----------------------------------------------------------------------------
(* The inductive invariant behind the safety properties.                     *)

Drawn(c) == pc[c] \in {"insert", "spawn"}

\* An id belongs to the call that drew it until its task is spawned.
DrawnIds ==
    \A c \in Callers : Drawn(c) =>
        /\ tokens[c] \in TokenLists
        /\ mine[c] \in Ids /\ mine[c] < nextId
        /\ task[mine[c]] = "none" /\ mine[c] \notin grown
        /\ \A d \in Callers \ {c} : Drawn(d) => mine[d] # mine[c]

\* What a call is about to insert was neither registered nor stopped before.
FreshIds ==
    \A c \in Callers : pc[c] = "insert" =>
        /\ mine[c] \notin Registered \cup cancelled
        /\ \A d \in Callers : mine[c] \notin doomed[d]

\* Stopping removes before it cancels.
StoppedIds ==
    \A id \in Ids :
        (id \in cancelled \/ \E c \in Callers : id \in doomed[c]) =>
            id \notin Registered /\ id < nextId

KnownIds == \A id \in Ids : id \in Registered \/ task[id] # "none" => id < nextId

GrownIds == \A id \in Ids : id \in grown => id < nextId

\* What the task of a registered watch relies on when it reports its health.
ReasonOf(id) ==
    \/ task[id] \in {"marking", "sleeping"}
    \/ task[id] = "top" /\ id \in grown
    => watches[id].lastError

ReasonKept == \A id \in Registered : ReasonOf(id)

WInv ==
    /\ TypeOK
    /\ AtMostMax /\ OnePerTokens /\ Attended /\ HealthTruthful
    /\ DrawnIds /\ FreshIds /\ StoppedIds /\ KnownIds /\ GrownIds /\ ReasonKept

-----------------------------------------------------------------------------
(* Liveness, under FairSpec. *)

\* The task of a stopped watch ends, wherever it was when the stop came.
StoppedTaskEnds ==
    \A id \in Ids : task[id] # "none" /\ id \notin Registered ~> task[id] = "done"

\* When connections stop failing, a watch that is not stopped gets connected.
WatchConnects ==
    \A id \in Ids :
        id \in Registered ~> id \notin Registered \/ watches[id].state = "Connected"

=============================================================================
