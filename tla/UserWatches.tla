---------------------------- MODULE UserWatches ----------------------------
(***************************************************************************)
(* The registry of authenticated user watches and the task behind each     *)
(* (src/src/user_realtime.rs): watch, stop, stop_all, events and the       *)
(* spawned loop, with any number of concurrent tool calls.                 *)
(*                                                                         *)
(* Ids and events are counted per watch, so EventLog, which this module    *)
(* extends, stands for the events of one watch, Followed.  No critical     *)
(* section of the RwLock `watches` awaits: each is one step.  Of the       *)
(* errors of a watch its state is kept, not their count and last text.     *)
(***************************************************************************)
EXTENDS EventLog, Functions

CONSTANTS
    Callers,         \* concurrent calls of watch
    Conditions,      \* condition ids
    MaxConditions,   \* conditions of one watch (50 in the code)
    MaxWatches,      \* MAX_USER_WATCHES (4 in the code)
    MaxId,           \* bound: watch ids handed out
    Followed         \* the watch id whose events are modelled

ASSUME UserAssumption ==
    /\ {MaxConditions, MaxWatches, MaxId} \subseteq Nat
    /\ Followed \in 1..MaxId

Ids == 1..MaxId

VARIABLES
    watches,   \* the registry: a record for each registered id
    nextId,
    wanted,    \* the conditions each call in progress asks for
    mine,      \* the id it drew once it had a stream
    task       \* the loop spawned for each id

calls    == <<wanted, mine>>
userVars == <<watches, nextId, calls, task, eventLog>>

\* What connection_state reports of the client.
ClientStates == {"Connecting", "Connected", "Reconnecting", "Disconnected"}

UserWatch == [conditions : SUBSET Conditions,
              state : ClientStates \cup {"Error"}]

Registered == DOMAIN watches

UserTypeOK ==
    /\ LogTypeOK
    /\ Registered \subseteq Ids
    /\ \A id \in Registered : watches[id] \in UserWatch
    /\ nextId \in 1..(MaxId + 1)
    /\ wanted \in [Callers -> SUBSET Conditions]
    /\ mine \in [Callers -> 0..MaxId]
    /\ task \in [Ids -> {"none", "running", "ended"}]

UserInit ==
    /\ LogInit
    /\ watches = << >>
    /\ nextId = 1
    /\ wanted = [c \in Callers |-> {}]
    /\ mine = [c \in Callers |-> 0]
    /\ task = [id \in Ids |-> "none"]

-----------------------------------------------------------------------------
(* watch.  A call that is refused, or finds its conditions watched, answers at
   once: only what it leaves behind is a step. *)

Valid(conds) == Cardinality(conds) \in 1..MaxConditions

Watched(conds) == \E id \in Registered : watches[id].conditions = conds

Full == Cardinality(Registered) >= MaxWatches

\* sort, dedup and the check under the read lock.
Ask(c, conds) ==
    /\ wanted[c] = {}
    /\ Valid(conds) /\ ~Watched(conds) /\ ~Full
    /\ wanted' = [wanted EXCEPT ![c] = conds]
    /\ UNCHANGED <<watches, nextId, mine, task, eventLog>>

\* authenticate and subscribe_user_events, either of which may fail, and fetch_add.
Open(c) ==
    /\ wanted[c] # {} /\ mine[c] = 0
    /\ \/ /\ nextId <= MaxId
          /\ mine' = [mine EXCEPT ![c] = nextId]
          /\ nextId' = nextId + 1
          /\ UNCHANGED wanted
       \/ wanted' = [wanted EXCEPT ![c] = {}] /\ UNCHANGED <<mine, nextId>>
    /\ UNCHANGED <<watches, task, eventLog>>

Put(id, w) ==
    watches' = [i \in Registered \cup {id} |-> IF i = id THEN w ELSE watches[i]]

NewWatch(conds) == [conditions |-> conds, state |-> "Connecting"]

\* mutant: the second check looks at the cap only
InsertUnmatched(c) ==
    /\ mine[c] # 0
    /\ IF Full THEN UNCHANGED <<watches, task>>
       ELSE /\ Put(mine[c], NewWatch(wanted[c]))
            /\ task' = [task EXCEPT ![mine[c]] = "running"]
    /\ wanted' = [wanted EXCEPT ![c] = {}]
    /\ mine' = [mine EXCEPT ![c] = 0]
    /\ UNCHANGED <<nextId, eventLog>>

\* The check again under the write lock, the insertion and the spawn.  A call that
\* another one has overtaken drops its stream, and the id is never used.
Insert(c) ==
    /\ mine[c] # 0
    /\ IF Watched(wanted[c]) \/ Full THEN UNCHANGED <<watches, task>>
       ELSE /\ Put(mine[c], NewWatch(wanted[c]))
            /\ task' = [task EXCEPT ![mine[c]] = "running"]
    /\ wanted' = [wanted EXCEPT ![c] = {}]
    /\ mine' = [mine EXCEPT ![c] = 0]
    /\ UNCHANGED <<nextId, eventLog>>

-----------------------------------------------------------------------------
(* stop and stop_all: removed first, cancelled after.  A task whose watch is
   removed finds nothing to change, so both are one step. *)

Remove(S) == watches' = Restrict(watches, Registered \ S)

Stop(id) ==
    /\ id \in Registered
    /\ Remove({id})
    /\ UNCHANGED <<nextId, calls, task, eventLog>>

StopAll ==
    /\ Registered # {}
    /\ Remove(Registered)
    /\ UNCHANGED <<nextId, calls, task, eventLog>>

-----------------------------------------------------------------------------
(* The loop of a watch: select! takes any branch that is ready.  What it does to a
   watch no longer registered is nothing. *)

\* mutant: the loop looks for its watch when an event has come
CancelledLate(id) ==
    /\ task[id] = "running" /\ id \notin Registered /\ nextSequence > 1
    /\ task' = [task EXCEPT ![id] = "ended"]
    /\ UNCHANGED <<watches, nextId, calls, eventLog>>

\* cancel_rx.changed()
Cancelled(id) ==
    /\ task[id] = "running" /\ id \notin Registered
    /\ task' = [task EXCEPT ![id] = "ended"]
    /\ UNCHANGED <<watches, nextId, calls, eventLog>>

SetState(id, state) == watches' = [watches EXCEPT ![id].state = state]

\* connection_poll.tick(): whatever the client reports, an error included, is replaced.
PollConnection(id, state) ==
    /\ task[id] = "running" /\ id \in Registered
    /\ SetState(id, state)
    /\ UNCHANGED <<nextId, calls, task, eventLog>>

\* push_message of an order or a trade; other messages leave no trace.
Receive ==
    /\ task[Followed] = "running" /\ Followed \in Registered
    /\ nextSequence <= MaxEvents /\ Push
    /\ UNCHANGED <<watches, nextId, calls, task>>

\* record_error
StreamError(id) ==
    /\ task[id] = "running" /\ id \in Registered
    /\ SetState(id, "Error")
    /\ UNCHANGED <<nextId, calls, task, eventLog>>

\* mutant: the loop ends without a word
StreamEndsSilently(id) ==
    /\ task[id] = "running"
    /\ task' = [task EXCEPT ![id] = "ended"]
    /\ UNCHANGED <<watches, nextId, calls, eventLog>>

\* None: the loop ends, the watch stays registered.
StreamEnds(id) ==
    /\ task[id] = "running"
    /\ task' = [task EXCEPT ![id] = "ended"]
    /\ IF id \in Registered THEN SetState(id, "Disconnected") ELSE UNCHANGED watches
    /\ UNCHANGED <<nextId, calls, eventLog>>

\* events, while the id is known.
PollEvents(p, limit) ==
    /\ Followed \in Registered
    /\ Poll(p, limit)
    /\ UNCHANGED <<watches, nextId, calls, task>>

-----------------------------------------------------------------------------

UserNext ==
    \/ \E c \in Callers :
          \/ \E conds \in SUBSET Conditions : Ask(c, conds)
          \/ Open(c)
          \/ Insert(c)
    \/ \E id \in Ids :
          \/ Stop(id)
          \/ Cancelled(id)
          \/ \E state \in ClientStates : PollConnection(id, state)
          \/ StreamError(id)
          \/ StreamEnds(id)
    \/ StopAll
    \/ Receive
    \/ \E p \in Pollers, limit \in Limits : PollEvents(p, limit)

UserSpec == UserInit /\ [][UserNext]_userVars

\* A spawned loop is scheduled, and its cancellation, once sent, stays ready; the
\* clients go on polling.  Nothing makes a client stop a watch or a stream go on.
FairUserSpec ==
    /\ UserSpec
    /\ \A id \in Ids : WF_userVars(Cancelled(id))
    /\ \A p \in Pollers : WF_userVars(\E limit \in Limits : PollEvents(p, limit))

-----------------------------------------------------------------------------
(* Properties. *)

\* watch checks under the read lock, connects, and checks again under the write lock:
\* two calls that both passed the first check never register the same conditions
\* twice, nor a watch beyond the limit.
OnePerConditions ==
    /\ Cardinality(Registered) <= MaxWatches
    /\ \A i, j \in Registered : watches[i].conditions = watches[j].conditions => i = j

\* A registered watch whose loop has ended, which a repeated watch returns as if it
\* were alive and which holds its place until it is stopped, says "Disconnected": no
\* poll of the connection, event or error comes after the last word of the loop.
DeadSaysSo ==
    \A id \in Registered : task[id] # "running" => watches[id].state = "Disconnected"

\* stop removes the watch before it cancels: the loop, with no watch to write to, ends
\* all the same and lets go of its stream.
StoppedLoopEnds ==
    \A id \in Ids : (task[id] = "running" /\ id \notin Registered) ~> task[id] = "ended"

\* A client that goes on polling gets past every event, unless the watch is stopped.
CaughtUpOrStopped ==
    \A p \in Pollers, n \in 1..MaxEvents :
        nextSequence > n ~> (cursor[p] >= n \/ Followed \notin Registered)

=============================================================================
