------------------------------ MODULE Recorder ------------------------------
(***************************************************************************)
(* Recording a watch (src/src/recorder.rs, RecorderService, and            *)
(* App::start_recording): the broadcast of a watch's updates, the task     *)
(* that forwards them into a bounded channel, the thread that writes them, *)
(* start, stop and stop_all calls, crashes and restarts.                   *)
(*                                                                         *)
(* One watch of one token is recorded; what other watches broadcast shows  *)
(* as Foreign.  An update is known by its number in its stream and by its  *)
(* position in the broadcast.                                              *)
(***************************************************************************)
EXTENDS Naturals, Sequences, FiniteSets, Functions

CONSTANTS
    Recordings,    \* recording ids
    Callers,       \* concurrent stop and stop_all calls
    Streams,       \* "book", "event", or both
    BroadcastCap,  \* capacity of broadcast::channel (4096 in the code)
    QueueCap,      \* capacity of mpsc::channel (1024 in the code)
    MaxSent,       \* bound: updates broadcast in each stream
    MaxFaults,     \* bound: failed database writes
    MaxCrashes,    \* bound: crashes
    Shared         \* whether another process opens the same database

ASSUME RecorderAssumption ==
    /\ Streams \subseteq {"book", "event"}
    /\ BroadcastCap \in Nat \ {0}
    /\ QueueCap \in Nat \ {0}
    /\ {MaxSent, MaxFaults, MaxCrashes} \subseteq Nat
    /\ Shared \in BOOLEAN

Foreign == 0

VARIABLES
    applied,     \* updates of the watch put into its books or its event ring, of each stream
    sent,        \* what was broadcast, of each stream: the number of the update, or Foreign
    phase,       \* how far the start call of each recording is
    since,       \* the last update the recording need not be told of
    cursor,      \* the position up to which each receiver has read
    task,        \* the forwarding task of each recording
    queue,       \* the channel of each recording, and behind QueueCap who waits to send
    writer,      \* the writer thread of each recording
    writing,     \* the command it took off the channel, in a sequence of at most one
    rows,        \* table `recordings`
    saved,       \* the commands written: inserts are rows of `book_snapshots` and
                 \* `realtime_events`, in the order of their ids; gaps are counts in rows
    failed,      \* the commands whose write failed
    active,      \* the map `active`
    cancelled,   \* recordings whose cancel channel says true
    ack,         \* what the writer answered the stop of each recording
    atStop,      \* for each recording, what its task had read when it was told to stop
    pc,          \* what each stop call does next
    todo,        \* recordings it is yet to stop; the first is not fixed
    target,      \* the recording it is stopping
    answer,      \* what it returned
    faults, crashes, up

env      == <<applied, sent>>
start    == <<phase, since>>
pipeline == <<cursor, task, queue, writer, writing, cancelled, ack>>
database == <<rows, saved, failed>>
calls    == <<pc, todo, target, answer>>
bounds   == <<faults, crashes, up>>
vars     == <<env, start, pipeline, database, active, atStop, calls, bounds>>

Positions == 0..MaxSent

Seeding == [kind |-> "seed"]
Insert(s, p) == [kind |-> "insert", stream |-> s, at |-> p]
Gap(s, p, q) == [kind |-> "gap", stream |-> s, after |-> p, upto |-> q]
Stopping == [kind |-> "stop"]

Command ==
    {Seeding, Stopping} \cup {Insert(s, p) : s \in Streams, p \in Positions}
    \cup {Gap(s, p, q) : s \in Streams, p \in Positions, q \in Positions}

Row == [status : {"none", "active", "stopped"}, dropped : [Streams -> Nat],
        errors : Nat, interrupted : BOOLEAN]

NoRow == [status |-> "none", dropped |-> [s \in Streams |-> 0], errors |-> 0,
          interrupted |-> FALSE]

TypeOK ==
    /\ applied \in [Streams -> Positions]
    /\ sent \in [Streams -> Seq(Positions)]
    /\ phase \in [Recordings -> {"none", "subscribed", "seen", "opened", "described",
                                 "spawned", "recording", "failed", "dead"}]
    /\ since \in [Recordings -> [Streams -> Positions]]
    /\ cursor \in [Recordings -> [Streams -> Positions]]
    /\ task \in [Recordings -> {"none", "receiving", "done"}]
    /\ queue \in [Recordings -> Seq(Command)]
    /\ writer \in [Recordings -> {"none", "receiving", "writing", "done"}]
    /\ writing \in [Recordings -> Seq(Command)]
    /\ rows \in [Recordings -> Row]
    /\ saved \in [Recordings -> Seq(Command)]
    /\ failed \in [Recordings -> SUBSET Command]
    /\ active \subseteq Recordings
    /\ cancelled \subseteq Recordings
    /\ ack \in [Recordings -> {"none", "ok", "failed"}]
    /\ atStop \in [Recordings -> [Streams -> Positions]]
    /\ pc \in [Callers -> {"idle", "locking", "flushing", "reading"}]
    /\ todo \in [Callers -> SUBSET Recordings]
    /\ target \in [Callers -> Recordings]
    /\ answer \in [Callers -> {"none", "active", "final", "error"}]
    /\ faults \in 0..MaxFaults
    /\ crashes \in 0..MaxCrashes
    /\ up \in BOOLEAN

Zero == [s \in Streams |-> 0]

Init ==
    /\ applied = Zero
    /\ sent = [s \in Streams |-> << >>]
    /\ phase = [r \in Recordings |-> "none"]
    /\ since = [r \in Recordings |-> Zero]
    /\ cursor = [r \in Recordings |-> Zero]
    /\ task = [r \in Recordings |-> "none"]
    /\ queue = [r \in Recordings |-> << >>]
    /\ writer = [r \in Recordings |-> "none"]
    /\ writing = [r \in Recordings |-> << >>]
    /\ rows = [r \in Recordings |-> NoRow]
    /\ saved = [r \in Recordings |-> << >>]
    /\ failed = [r \in Recordings |-> {}]
    /\ active = {}
    /\ cancelled = {}
    /\ ack = [r \in Recordings |-> "none"]
    /\ atStop = [r \in Recordings |-> Zero]
    /\ pc = [c \in Callers |-> "idle"]
    /\ todo = [c \in Callers |-> {}]
    /\ target \in [Callers -> Recordings]
    /\ answer = [c \in Callers |-> "none"]
    /\ faults = 0 /\ crashes = 0 /\ up = TRUE

-----------------------------------------------------------------------------
(* The watch: publish_book, apply_price_change and push_event change its     *)
(* state under the lock and broadcast after it.                              *)

LastSent(s) == Cardinality({p \in 1..Len(sent[s]) : sent[s][p] # Foreign})

Change(s) ==
    /\ up
    /\ Len(sent[s]) + applied[s] - LastSent(s) < MaxSent
    /\ applied[s] = LastSent(s)
    /\ applied' = [applied EXCEPT ![s] = @ + 1]
    /\ UNCHANGED <<sent, start, pipeline, database, active, atStop, calls, bounds>>

Broadcast(s) ==
    /\ up
    /\ applied[s] > LastSent(s)
    /\ sent' = [sent EXCEPT ![s] = Append(@, applied[s])]
    /\ UNCHANGED <<applied, start, pipeline, database, active, atStop, calls, bounds>>

\* An update of another watch, or of a token this one does not list.
BroadcastForeign(s) ==
    /\ up
    /\ Len(sent[s]) + applied[s] - LastSent(s) < MaxSent
    /\ sent' = [sent EXCEPT ![s] = Append(@, Foreign)]
    /\ UNCHANGED <<applied, start, pipeline, database, active, atStop, calls, bounds>>

-----------------------------------------------------------------------------
(* App::start_recording and RecorderService::start, await by await.          *)

Advance(r, here, there) ==
    /\ up
    /\ phase[r] = here
    /\ phase' = [phase EXCEPT ![r] = there]

\* subscribe_updates and subscribe_events.
Subscribe(r) ==
    /\ Advance(r, "none", "subscribed")
    /\ cursor' = [cursor EXCEPT ![r] = [s \in Streams |-> Len(sent[s])]]
    /\ since' = [since EXCEPT ![r] = [s \in Streams |-> LastSent(s)]]
    /\ UNCHANGED <<env, task, queue, writer, writing, cancelled, ack, database, active, atStop,
                   calls, bounds>>

\* realtime.snapshot: the books as they are, and with them every change so far.
Snapshot(r) ==
    /\ Advance(r, "subscribed", "seen")
    /\ since' = [since EXCEPT ![r] =
                    [s \in Streams |-> IF s = "book" THEN applied[s] ELSE @[s]]]
    /\ UNCHANGED <<env, pipeline, database, active, atStop, calls, bounds>>

\* The writer thread opens the database.
Open(r) ==
    /\ Advance(r, "seen", "opened")
    /\ writer' = [writer EXCEPT ![r] = "receiving"]
    /\ UNCHANGED <<env, since, cursor, task, queue, writing, cancelled, ack, database, active,
                   atStop, calls, bounds>>

\* INSERT INTO recordings.
Describe(r) ==
    /\ Advance(r, "opened", "described")
    /\ rows' = [rows EXCEPT ![r].status = "active"]
    /\ UNCHANGED <<env, since, pipeline, saved, failed, active, atStop, calls, bounds>>

\* Either fails, the call returns, and the thread ends with the last sender.
StartFails(r) ==
    /\ faults < MaxFaults
    /\ faults' = faults + 1
    /\ \/ Advance(r, "seen", "failed")
       \/ Advance(r, "opened", "failed")
    /\ writer' = [writer EXCEPT ![r] = "done"]
    /\ UNCHANGED <<env, since, cursor, task, queue, writing, cancelled, ack, database, active,
                   atStop, calls, crashes, up>>

\* mutant: the receivers are made when the task is, after the snapshot
SpawnSubscribes(r) ==
    /\ Advance(r, "described", "spawned")
    /\ queue' = [queue EXCEPT ![r] = Append(@, Seeding)]
    /\ task' = [task EXCEPT ![r] = "receiving"]
    /\ cursor' = [cursor EXCEPT ![r] = [s \in Streams |-> Len(sent[s])]]
    /\ UNCHANGED <<env, since, writer, writing, cancelled, ack, database, active,
                   atStop, calls, bounds>>

\* The snapshot goes ahead of what the receivers hold; then tokio::spawn.
Spawn(r) ==
    /\ Advance(r, "described", "spawned")
    /\ queue' = [queue EXCEPT ![r] = Append(@, Seeding)]
    /\ task' = [task EXCEPT ![r] = "receiving"]
    /\ UNCHANGED <<env, since, cursor, writer, writing, cancelled, ack, database, active,
                   atStop, calls, bounds>>

\* A stop keeps the mutex `active` to its end: the guard is a temporary of its `if let`.
Locked == \E c \in Callers : pc[c] = "flushing"

Register(r) ==
    /\ ~Locked
    /\ Advance(r, "spawned", "recording")
    /\ active' = active \cup {r}
    /\ UNCHANGED <<env, since, pipeline, database, atStop, calls, bounds>>

-----------------------------------------------------------------------------
(* The forwarding task. *)

\* It waits in send while a command of its own is behind the capacity.
Waiting(r) ==
    \E i \in (QueueCap + 1)..Len(queue[r]) : queue[r][i].kind \in {"insert", "gap"}

\* recv returns Lagged when more than the capacity is unread.
Lag(r, s) ==
    IF Len(sent[s]) - cursor[r][s] > BroadcastCap
    THEN Len(sent[s]) - BroadcastCap - cursor[r][s] ELSE 0

Enqueue(r, cmd) == queue' = [queue EXCEPT ![r] = Append(@, cmd)]

\* mutant: the update behind the gap is read once more
ForwardAgain(r, s) ==
    /\ up
    /\ task[r] = "receiving" /\ ~Waiting(r) /\ writer[r] # "done"
    /\ cursor[r][s] < Len(sent[s])
    /\ LET next == cursor[r][s] + 1
           skip == cursor[r][s] + Lag(r, s)
       IN \/ /\ Lag(r, s) > 0
             /\ Enqueue(r, Gap(s, cursor[r][s], skip))
             /\ cursor' = [cursor EXCEPT ![r][s] = skip - 1]
          \/ /\ Lag(r, s) = 0
             /\ IF sent[s][next] # Foreign THEN Enqueue(r, Insert(s, next)) ELSE UNCHANGED queue
             /\ cursor' = [cursor EXCEPT ![r][s] = next]
    /\ UNCHANGED <<env, start, task, writer, writing, cancelled, ack, database, active, atStop,
                   calls, bounds>>

\* mutant: the task ends when it lags
ForwardBreaks(r, s) ==
    /\ up
    /\ task[r] = "receiving" /\ ~Waiting(r) /\ writer[r] # "done"
    /\ cursor[r][s] < Len(sent[s])
    /\ LET next == cursor[r][s] + 1
           skip == cursor[r][s] + Lag(r, s)
       IN \/ /\ Lag(r, s) > 0
             /\ Enqueue(r, Gap(s, cursor[r][s], skip))
             /\ cursor' = [cursor EXCEPT ![r][s] = skip]
             /\ task' = [task EXCEPT ![r] = "done"]
          \/ /\ Lag(r, s) = 0
             /\ IF sent[s][next] # Foreign THEN Enqueue(r, Insert(s, next)) ELSE UNCHANGED queue
             /\ cursor' = [cursor EXCEPT ![r][s] = next]
             /\ UNCHANGED task
    /\ UNCHANGED <<env, start, writer, writing, cancelled, ack, database, active, atStop,
                   calls, bounds>>

\* A branch of select!.  Once the writer is gone no send succeeds, and the task only ends.
Forward(r, s) ==
    /\ up
    /\ task[r] = "receiving" /\ ~Waiting(r) /\ writer[r] # "done"
    /\ cursor[r][s] < Len(sent[s])
    /\ LET next == cursor[r][s] + 1
           skip == cursor[r][s] + Lag(r, s)
       IN \/ /\ Lag(r, s) > 0
             /\ Enqueue(r, Gap(s, cursor[r][s], skip))
             /\ cursor' = [cursor EXCEPT ![r][s] = skip]
          \/ /\ Lag(r, s) = 0
             /\ IF sent[s][next] # Foreign THEN Enqueue(r, Insert(s, next)) ELSE UNCHANGED queue
             /\ cursor' = [cursor EXCEPT ![r][s] = next]
    /\ UNCHANGED <<env, start, task, writer, writing, cancelled, ack, database, active, atStop,
                   calls, bounds>>

\* It sees the cancellation.
EndTask(r) ==
    /\ up
    /\ task[r] = "receiving" /\ ~Waiting(r) /\ r \in cancelled
    /\ task' = [task EXCEPT ![r] = "done"]
    /\ UNCHANGED <<env, start, cursor, queue, writer, writing, cancelled, ack, database, active,
                   atStop, calls, bounds>>

-----------------------------------------------------------------------------
(* The writer thread. *)

Take(r) ==
    /\ up
    /\ writer[r] = "receiving" /\ queue[r] # << >>
    /\ writing' = [writing EXCEPT ![r] = << Head(queue[r]) >>]
    /\ queue' = [queue EXCEPT ![r] = Tail(@)]
    /\ writer' = [writer EXCEPT ![r] = "writing"]
    /\ UNCHANGED <<env, start, cursor, task, cancelled, ack, database, active, atStop, calls,
                   bounds>>

\* mutant: the count of the last gap replaces that of those before
ExecuteSets(r, cmd) ==
    /\ saved' = [saved EXCEPT ![r] = Append(@, cmd)]
    /\ rows' = CASE cmd.kind = "gap"  -> [rows EXCEPT ![r].dropped[cmd.stream] = cmd.upto - cmd.after]
                 [] cmd.kind = "stop" -> [rows EXCEPT ![r].status = "stopped"]
                 [] OTHER             -> rows
    /\ UNCHANGED <<failed, faults>>

\* What the command leaves in the database.
Execute(r, cmd) ==
    /\ saved' = [saved EXCEPT ![r] = Append(@, cmd)]
    /\ rows' = CASE cmd.kind = "gap"  -> [rows EXCEPT ![r].dropped[cmd.stream] =
                                              @ + (cmd.upto - cmd.after)]
                 [] cmd.kind = "stop" -> [rows EXCEPT ![r].status = "stopped"]
                 [] OTHER             -> rows
    /\ UNCHANGED <<failed, faults>>

\* The write fails, and it may be that not even the error can be counted.
ExecuteFails(r, cmd) ==
    /\ faults < MaxFaults
    /\ faults' = faults + 1
    /\ failed' = [failed EXCEPT ![r] = @ \cup {cmd}]
    /\ rows' \in {rows, [rows EXCEPT ![r].errors = @ + 1]}
    /\ UNCHANGED saved

\* mutant: the thread goes on after a stop
FinishOpen(r, cmd) ==
    /\ writing' = [writing EXCEPT ![r] = << >>]
    /\ writer' = [writer EXCEPT ![r] = "receiving"]
    /\ ack' = IF cmd.kind = "stop" THEN [ack EXCEPT ![r] = "ok"] ELSE ack
    /\ UNCHANGED queue

\* After a stop, written or not, the thread ends; what is left in the channel is gone.
Finish(r, cmd) ==
    /\ writing' = [writing EXCEPT ![r] = << >>]
    /\ IF cmd.kind = "stop"
       THEN /\ writer' = [writer EXCEPT ![r] = "done"]
            /\ queue' = [queue EXCEPT ![r] = << >>]
            /\ ack' = [ack EXCEPT ![r] = IF failed' = failed THEN "ok" ELSE "failed"]
       ELSE /\ writer' = [writer EXCEPT ![r] = "receiving"]
            /\ UNCHANGED <<queue, ack>>

Write(r) ==
    /\ up
    /\ writer[r] = "writing"
    /\ LET cmd == writing[r][1] IN
         /\ Execute(r, cmd) \/ ExecuteFails(r, cmd)
         /\ Finish(r, cmd)
    /\ UNCHANGED <<env, start, cursor, task, cancelled, active, atStop, calls, crashes, up>>

-----------------------------------------------------------------------------
(* stop and stop_all. *)

\* A client knows the id from start_recording or from list_recordings.
StopCall(c, r) ==
    /\ up
    /\ pc[c] = "idle"
    /\ rows[r].status # "none"
    /\ pc' = [pc EXCEPT ![c] = "locking"]
    /\ todo' = [todo EXCEPT ![c] = {r}]
    /\ answer' = [answer EXCEPT ![c] = "none"]
    /\ UNCHANGED <<env, start, pipeline, database, active, atStop, target, bounds>>

StopAllCall(c) ==
    /\ up
    /\ pc[c] = "idle"
    /\ ~Locked
    /\ active # {}
    /\ pc' = [pc EXCEPT ![c] = "locking"]
    /\ todo' = [todo EXCEPT ![c] = active]
    /\ answer' = [answer EXCEPT ![c] = "none"]
    /\ UNCHANGED <<env, start, pipeline, database, active, atStop, target, bounds>>

\* mutant: the stop overtakes what waits in the channel
LockUrgent(c, r) ==
    /\ up
    /\ pc[c] = "locking" /\ r \in todo[c]
    /\ ~Locked
    /\ todo' = [todo EXCEPT ![c] = @ \ {r}]
    /\ target' = [target EXCEPT ![c] = r]
    /\ \/ /\ r \in active
          /\ active' = active \ {r}
          /\ cancelled' = cancelled \cup {r}
          /\ queue' = [queue EXCEPT ![r] = << Stopping >> \o @]
          /\ atStop' = [atStop EXCEPT ![r] = cursor[r]]
          /\ pc' = [pc EXCEPT ![c] = "flushing"]
       \/ /\ r \notin active
          /\ pc' = [pc EXCEPT ![c] = "reading"]
          /\ UNCHANGED <<active, cancelled, queue, atStop>>
    /\ UNCHANGED <<env, start, cursor, task, writer, writing, ack, database, answer, bounds>>

\* The recording is taken off the map, its task cancelled, and the writer told to stop.
Lock(c, r) ==
    /\ up
    /\ pc[c] = "locking" /\ r \in todo[c]
    /\ ~Locked
    /\ todo' = [todo EXCEPT ![c] = @ \ {r}]
    /\ target' = [target EXCEPT ![c] = r]
    /\ \/ /\ r \in active
          /\ active' = active \ {r}
          /\ cancelled' = cancelled \cup {r}
          /\ Enqueue(r, Stopping)
          /\ atStop' = [atStop EXCEPT ![r] = cursor[r]]
          /\ pc' = [pc EXCEPT ![c] = "flushing"]
       \/ /\ r \notin active
          /\ pc' = [pc EXCEPT ![c] = "reading"]
          /\ UNCHANGED <<active, cancelled, queue, atStop>>
    /\ UNCHANGED <<env, start, cursor, task, writer, writing, ack, database, answer, bounds>>

Resume(c) == IF todo[c] = {} THEN "idle" ELSE "locking"

\* mutant: only a success ends the wait
FlushedOk(c) ==
    /\ up
    /\ pc[c] = "flushing"
    /\ ack[target[c]] = "ok"
    /\ pc' = [pc EXCEPT ![c] = "reading"]
    /\ UNCHANGED <<env, start, pipeline, database, active, atStop, todo, target, answer, bounds>>

\* The answer of the writer ends the wait, and the critical section.
Flushed(c) ==
    /\ up
    /\ pc[c] = "flushing"
    /\ \/ /\ ack[target[c]] = "ok"
          /\ pc' = [pc EXCEPT ![c] = "reading"]
          /\ UNCHANGED answer
       \/ /\ ack[target[c]] = "failed"
          /\ pc' = [pc EXCEPT ![c] = Resume(c)]
          /\ answer' = [answer EXCEPT ![c] = "error"]
    /\ UNCHANGED <<env, start, pipeline, database, active, atStop, todo, target, bounds>>

\* self.recording(recording_id).
Read(c) ==
    /\ up
    /\ pc[c] = "reading"
    /\ pc' = [pc EXCEPT ![c] = Resume(c)]
    /\ answer' = [answer EXCEPT ![c] =
                     IF rows[target[c]].status = "active" THEN "active" ELSE "final"]
    /\ UNCHANGED <<env, start, pipeline, database, active, atStop, todo, target, bounds>>

-----------------------------------------------------------------------------
(* The process ends at any point, without the stop_all of App::shutdown, and starts again. *)

Crash ==
    /\ up
    /\ crashes < MaxCrashes
    /\ crashes' = crashes + 1
    /\ up' = FALSE
    /\ phase' = [r \in Recordings |-> IF phase[r] = "none" THEN "none" ELSE "dead"]
    /\ task' = [r \in Recordings |-> IF task[r] = "none" THEN "none" ELSE "done"]
    /\ writer' = [r \in Recordings |-> IF writer[r] = "none" THEN "none" ELSE "done"]
    /\ queue' = [r \in Recordings |-> << >>]
    /\ writing' = [r \in Recordings |-> << >>]
    /\ active' = {}
    /\ pc' = [c \in Callers |-> "idle"]
    /\ todo' = [c \in Callers |-> {}]
    /\ answer' = [c \in Callers |-> "none"]
    /\ UNCHANGED <<env, since, cursor, cancelled, ack, database, atStop, target, faults>>

\* mutant: the interruption is counted, and the row left active
RecoverCounts ==
    /\ rows' = [r \in Recordings |->
                   IF rows[r].status = "active"
                   THEN [rows[r] EXCEPT !.errors = @ + 1, !.interrupted = TRUE]
                   ELSE rows[r]]
    /\ UNCHANGED <<env, start, pipeline, saved, failed, active, atStop, calls, faults, crashes>>

\* RecorderService::new: every active row was interrupted.
Recover ==
    /\ rows' = [r \in Recordings |->
                   IF rows[r].status = "active"
                   THEN [rows[r] EXCEPT !.status = "stopped", !.errors = @ + 1,
                                        !.interrupted = TRUE]
                   ELSE rows[r]]
    /\ UNCHANGED <<env, start, pipeline, saved, failed, active, atStop, calls, faults, crashes>>

Restart == ~up /\ up' = TRUE /\ Recover

\* RecorderService::new in another process: a second server, or `doctor`.
NeighbourStarts == Shared /\ Recover /\ UNCHANGED up

StartStep(r) ==
    Snapshot(r) \/ Open(r) \/ Describe(r) \/ Spawn(r) \/ Register(r)

CallStep(c) == (\E r \in Recordings : Lock(c, r)) \/ Flushed(c) \/ Read(c)

Next ==
    \/ \E s \in Streams : Change(s) \/ Broadcast(s) \/ BroadcastForeign(s)
    \/ \E r \in Recordings :
          \/ Subscribe(r) \/ StartFails(r) \/ StartStep(r)
          \/ \E s \in Streams : Forward(r, s)
          \/ EndTask(r) \/ Take(r) \/ Write(r)
    \/ \E c \in Callers :
          \/ \E r \in Recordings : StopCall(c, r)
          \/ StopAllCall(c)
          \/ CallStep(c)
    \/ Crash \/ Restart \/ NeighbourStarts

Spec == Init /\ [][Next]_vars

\* The runtime polls what is ready, select! picks every ready branch some time, mutexes
\* and channels are fair, and the database answers.  Nothing makes an update come.
Fairness ==
    /\ \A s \in Streams : WF_vars(Broadcast(s))
    /\ \A r \in Recordings :
          /\ WF_vars(StartStep(r))
          /\ \A s \in Streams : WF_vars(Forward(r, s))
          /\ WF_vars(EndTask(r)) /\ WF_vars(Take(r)) /\ WF_vars(Write(r))
    /\ \A c \in Callers : WF_vars(CallStep(c))

FairSpec == Spec /\ Fairness

-----------------------------------------------------------------------------
(* Safety. *)

\* The positions a command speaks for.
Carries(cmd, s, p) ==
    \/ cmd.kind = "insert" /\ cmd.stream = s /\ cmd.at = p
    \/ cmd.kind = "gap" /\ cmd.stream = s /\ cmd.after < p /\ p <= cmd.upto

InFlight(r, s, p) == \E cmd \in Range(queue[r] \o writing[r]) : Carries(cmd, s, p)

Settled(r, s, p) == \E cmd \in Range(saved[r]) \cup failed[r] : Carries(cmd, s, p)

\* An update of the watch that the recording owes its reader.
Owed(r, s, p) == p \in 1..Len(sent[s]) /\ sent[s][p] > since[r][s]

\* Whatever the watch changes after the snapshot is still to be read, or on its
\* way, or recorded, or counted as dropped: subscribing before the snapshot leaves
\* no hole, and overtaking the task leaves none that is not counted.
NoSilentGap ==
    \A r \in Recordings : task[r] = "receiving" /\ writer[r] # "done" =>
        \A s \in Streams, p \in Positions : Owed(r, s, p) =>
            p > cursor[r][s] \/ InFlight(r, s, p) \/ Settled(r, s, p)

First(cmd) == IF cmd.kind = "gap" THEN cmd.after + 1 ELSE cmd.at
Last(cmd)  == IF cmd.kind = "gap" THEN cmd.upto ELSE cmd.at

\* The tables hold the snapshot first and then each stream in the order in which it was
\* broadcast; nothing is recorded twice, or both recorded and counted as dropped.
RecordedInOrder ==
    \A r \in Recordings : \A i, j \in 1..Len(saved[r]) : i < j =>
        LET a == saved[r][i]
            b == saved[r][j]
        IN /\ b # Seeding /\ a # Stopping
           /\ a # Seeding /\ b # Stopping /\ a.stream = b.stream => Last(a) < First(b)

\* dropped_update_count and dropped_event_count are exact: they count every update
\* that went by unread, of this watch or another, once.
DroppedExact ==
    \A r \in Recordings, s \in Streams :
        rows[r].dropped[s] =
            Cardinality({p \in Positions : \E cmd \in Range(saved[r]) :
                            cmd.kind = "gap" /\ Carries(cmd, s, p)})

\* Stopping flushes: once the writer has said so, all that the task had read when the
\* stop came is in the database, or its write failed.
FlushedAtStop ==
    \A r \in Recordings : ack[r] = "ok" =>
        \A s \in Streams, p \in Positions :
            Owed(r, s, p) /\ p <= atStop[r][s] => Settled(r, s, p)

\* A row says "active" only while somebody writes the recording, unless the stop of it
\* failed; after a restart nothing is active that is not recorded.
ActiveIsAttended ==
    \A r \in Recordings : up /\ rows[r].status = "active" =>
        writer[r] # "done" \/ ack[r] = "failed"

\* Once the writer has acknowledged the stop of a recording nothing of it changes any
\* more, whatever the task still sends, and whoever restarts.
StoppedForGood ==
    [][\A r \in Recordings : ack[r] = "ok" =>
          rows'[r] = rows[r] /\ saved'[r] = saved[r]]_vars

-----------------------------------------------------------------------------
(* Liveness, under FairSpec. *)

\* Every stop and stop_all returns, although it keeps the mutex while it flushes.
StopReturns == \A c \in Callers : pc[c] # "idle" ~> pc[c] = "idle"

\* What is broadcast gets into the database, or counted, unless the recording ends.
Delivered ==
    \A r \in Recordings, s \in Streams, p \in Positions :
        r \in active /\ Owed(r, s, p) ~> r \notin active \/ Settled(r, s, p)

-----------------------------------------------------------------------------
(* What the documents say and the code does not do. *)

\* "Flush and stop an active SQLite recording, returning final snapshot and
\* dropped-update counts" (server.rs:678), for the call that follows a stop that
\* failed: the tool is annotated idempotent, and what a call returns is final.
RetriedStopFinal ==
    \A c \in Callers : answer[c] = "active" => ack[target[c]] # "failed"

\* "recording interrupted by a previous server shutdown" (recorder.rs:52): a row that
\* says so is of a recording that nobody writes any more.
InterruptedIsOver ==
    \A r \in Recordings : rows[r].interrupted => writer[r] \in {"none", "done"}

=============================================================================
