------------------------------ MODULE EventLog ------------------------------
(***************************************************************************)
(* The events a watch retains and the clients that poll them               *)
(* (src/src/realtime.rs, WatchTask::push_event and RealtimeService::events) *)
(*                                                                         *)
(* An event is known by its sequence number.  Both operations hold the     *)
(* lock of the registry throughout, so each is one step.                   *)
(***************************************************************************)
EXTENDS Naturals, Sequences, FiniteSets

CONSTANTS
    Pollers,    \* clients that read the events
    Retained,   \* capacity of recent_events (1024 in the code)
    Limits,     \* page sizes they ask for (1 to 500, app.rs:1246)
    MaxEvents   \* bound: events pushed by the watch that extends this module

ASSUME LogAssumption ==
    /\ Retained \in Nat \ {0}
    /\ Limits \subseteq Nat \ {0}
    /\ MaxEvents \in Nat

VARIABLES
    ring,            \* recent_events
    nextSequence,    \* next_event_sequence
    droppedEvents,   \* dropped_event_count
    cursor,          \* what each poller will pass as after_sequence
    seen,            \* the events it got
    missed           \* the events whose loss `truncated_before` told it of

log      == <<ring, nextSequence, droppedEvents>>
pollers  == <<cursor, seen, missed>>
eventLog == <<log, pollers>>

LogTypeOK ==
    /\ ring \in Seq(Nat)
    /\ nextSequence \in Nat \ {0}
    /\ droppedEvents \in Nat
    /\ cursor \in [Pollers -> Nat]
    /\ seen \in [Pollers -> SUBSET Nat]
    /\ missed \in [Pollers -> SUBSET Nat]

LogInit ==
    /\ ring = << >>
    /\ nextSequence = 1
    /\ droppedEvents = 0
    /\ cursor = [p \in Pollers |-> 0]
    /\ seen = [p \in Pollers |-> {}]
    /\ missed = [p \in Pollers |-> {}]

-----------------------------------------------------------------------------

\* push_event: the oldest event makes room.
Push ==
    /\ nextSequence' = nextSequence + 1
    /\ IF Len(ring) = Retained
       THEN /\ ring' = Append(Tail(ring), nextSequence)
            /\ droppedEvents' = droppedEvents + 1
       ELSE /\ ring' = Append(ring, nextSequence)
            /\ UNCHANGED droppedEvents
    /\ UNCHANGED pollers

\* mutant: the cursor is taken for the first event wanted, and that one skipped
BeyondNext(after) == {i \in DOMAIN ring : ring[i] > after + 1}

\* filter(sequence > after_sequence)
Beyond(after) == {i \in DOMAIN ring : ring[i] > after}

\* mutant: the newest events of those beyond the cursor
PageNewest(after, limit) ==
    {ring[i] : i \in {k \in Beyond(after) :
                        Cardinality({j \in Beyond(after) : j > k}) < limit}}

\* take(limit)
Page(after, limit) ==
    {ring[i] : i \in {k \in Beyond(after) :
                        Cardinality({j \in Beyond(after) : j < k}) < limit}}

TruncatedBefore(after) == ring # << >> /\ after + 1 < Head(ring)

\* events(after_sequence, limit), by a client that goes on where its last page ended.
Poll(p, limit) ==
    LET page == Page(cursor[p], limit) IN
    /\ page # {}
    /\ seen' = [seen EXCEPT ![p] = @ \cup page]
    /\ missed' = [missed EXCEPT ![p] =
                     @ \cup (IF TruncatedBefore(cursor[p])
                             THEN (cursor[p] + 1)..(Head(ring) - 1) ELSE {})]
    /\ \E last \in page :
          /\ \A n \in page : n <= last
          /\ cursor' = [cursor EXCEPT ![p] = last]
    /\ UNCHANGED log

LogNext == Push \/ \E p \in Pollers, limit \in Limits : Poll(p, limit)

\* Any number of events.
LogSpec == LogInit /\ [][LogNext]_eventLog

-----------------------------------------------------------------------------
(* Safety. *)

\* The ring holds the newest events without a hole, never more than its capacity,
\* and the count of dropped events says exactly how many came before.
RingExact ==
    /\ Len(ring) <= Retained
    /\ Len(ring) + droppedEvents + 1 = nextSequence
    /\ \A i \in DOMAIN ring : ring[i] = droppedEvents + i

\* A poller that follows its pages has got, or was told of the loss of, every event up
\* to its cursor; no event is reported lost that it got, or that it could still get.
NoSilentLoss ==
    \A p \in Pollers :
        /\ cursor[p] < nextSequence
        /\ seen[p] \cup missed[p] = 1..cursor[p]
        /\ seen[p] \cap missed[p] = {}
        /\ missed[p] \subseteq 1..droppedEvents

\* The log does what a poller may rely on.
Gaps == INSTANCE GapAwareLog WITH written <- nextSequence - 1, upto <- cursor

ImplementsGapAwareLog == Gaps!Spec

=============================================================================
