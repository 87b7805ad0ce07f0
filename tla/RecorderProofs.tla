-------------------------- MODULE RecorderProofs --------------------------
(***************************************************************************)
(* The recorder, for any number of recordings, calls, updates, faults and  *)
(* crashes and any capacities: nothing the task reads is lost without a    *)
(* count, and what is stopped is complete and stays as it is.              *)
(***************************************************************************)
EXTENDS Recorder, FiniteSetTheorems, SequenceTheorems, TLAPS

(* The inductive invariant. *)

LiveWriter == {"receiving", "writing"}

\* The phases before the task is spawned, or without one.
Early == {"none", "subscribed", "seen", "opened", "described", "failed"}

\* Some command of q speaks for a position; one ahead of the i-th does.
Has(q, s, p) == \E i \in 1..Len(q) : Carries(q[i], s, p)
Ahead(q, i, s, p) == \E j \in 1..Len(q) : j < i /\ Carries(q[j], s, p)

Unstopped(q) == \A i \in 1..Len(q) : q[i].kind # "stop"

Quiet(r) ==
    /\ task[r] = "none" /\ queue[r] = << >> /\ writing[r] = << >>
    /\ saved[r] = << >> /\ failed[r] = {} /\ ack[r] = "none"
    /\ r \notin active /\ r \notin cancelled

\* The recording goes on, and nobody has told it to stop.
Untold(r) ==
    /\ task[r] = "receiving" /\ writer[r] \in LiveWriter
    /\ ack[r] = "none" /\ r \notin cancelled
    /\ Unstopped(queue[r]) /\ Unstopped(writing[r])

Shape(r) ==
    /\ phase[r] \in Early => Quiet(r)
    /\ phase[r] \in {"none", "subscribed", "seen"} => writer[r] = "none"
    /\ phase[r] \in {"opened", "described"} => writer[r] = "receiving"
    /\ phase[r] \in Early \ {"described"} => rows[r].status = "none"
    /\ task[r] = "receiving" => writer[r] # "none"
    /\ phase[r] = "spawned" => Untold(r) /\ r \notin active
    /\ r \in active => Untold(r) /\ phase[r] = "recording"
    /\ phase[r] = "dead" => task[r] # "receiving" /\ writer[r] \notin LiveWriter

\* Where the commands are.
Pipes(r) ==
    /\ Len(writing[r]) = IF writer[r] = "writing" THEN 1 ELSE 0
    /\ writer[r] \notin LiveWriter => queue[r] = << >>
    /\ ack[r] # "none" => writer[r] = "done"
    /\ ack[r] = "ok" => rows[r].status = "stopped"
    /\ writer[r] # "done" => Unstopped(saved[r]) /\ Stopping \notin failed[r]

Data(cmd) == cmd.kind \in {"insert", "gap"}

\* b may follow a in the tables.
Before(a, b) ==
    /\ b.kind # "seed"
    /\ Data(a) /\ Data(b) /\ a.stream = b.stream => Last(a) < First(b)

\* What is saved (d), being written (w) and queued (q) is in order.
InOrder(d, w, q) ==
    /\ \A i, j \in 1..Len(d) : i < j => Before(d[i], d[j]) /\ d[i].kind # "stop"
    /\ \A i, j \in 1..Len(q) : i < j => Before(q[i], q[j])
    /\ \A i \in 1..Len(d), j \in 1..Len(w) : Before(d[i], w[j])
    /\ \A i \in 1..Len(d), j \in 1..Len(q) : Before(d[i], q[j])
    /\ \A i \in 1..Len(w), j \in 1..Len(q) : Before(w[i], q[j])

\* No command of q is ahead of its receiver, which has read up to k.
WasRead(k, cmd) == Data(cmd) => First(cmd) <= Last(cmd) /\ Last(cmd) <= k[cmd.stream]
AllRead(k, q) == \A i \in 1..Len(q) : WasRead(k, q[i])

Ordered(r) ==
    /\ InOrder(saved[r], writing[r], queue[r])
    /\ AllRead(cursor[r], saved[r])
    /\ AllRead(cursor[r], writing[r])
    /\ AllRead(cursor[r], queue[r])

Counted(r) ==
    \A s \in Streams :
        rows[r].dropped[s] =
            Cardinality({p \in Positions : \E cmd \in Range(saved[r]) :
                            cmd.kind = "gap" /\ Carries(cmd, s, p)})

\* What was read by the task is on its way or settled; what was broadcast before it
\* subscribed is not owed.
Conserved(r) ==
    /\ phase[r] \in Early \ {"none"} =>
          \A s \in Streams, p \in Positions : p <= cursor[r][s] => ~Owed(r, s, p)
    /\ task[r] = "receiving" /\ writer[r] # "done" =>
          \A s \in Streams, p \in Positions : Owed(r, s, p) /\ p <= cursor[r][s] =>
              InFlight(r, s, p) \/ Settled(r, s, p)

OwedAtStop(r, s, p) == Owed(r, s, p) /\ p <= atStop[r][s]

\* What was read before the stop is ahead of it.
Flushing(r) ==
    /\ \A i \in 1..Len(queue[r]) : queue[r][i].kind = "stop" =>
          \A s \in Streams, p \in Positions : OwedAtStop(r, s, p) =>
              Settled(r, s, p) \/ Ahead(queue[r], i, s, p) \/ Has(writing[r], s, p)
    /\ ~Unstopped(writing[r]) \/ ack[r] = "ok" =>
          \A s \in Streams, p \in Positions : OwedAtStop(r, s, p) => Settled(r, s, p)
    /\ \A s \in Streams : atStop[r][s] <= cursor[r][s]

Attended(r) ==
    up /\ rows[r].status = "active" => writer[r] # "done" \/ ack[r] = "failed"

\* The watch.
BroadcastInv ==
    \A s \in Streams :
        /\ applied[s] \in {LastSent(s), LastSent(s) + 1}
        /\ LastSent(s) <= Len(sent[s])
        /\ Len(sent[s]) + applied[s] - LastSent(s) <= MaxSent
        /\ \A p \in 1..Len(sent[s]) : sent[s][p] <= LastSent(s)

CursorInv == \A r \in Recordings, s \in Streams : cursor[r][s] <= Len(sent[s])

RecordingInv(r) ==
    Shape(r) /\ Pipes(r) /\ Ordered(r) /\ Counted(r) /\ Conserved(r) /\ Flushing(r) /\ Attended(r)

RInv == TypeOK /\ BroadcastInv /\ CursorInv /\ \A r \in Recordings : RecordingInv(r)

-----------------------------------------------------------------------------
(* Commands and sequences of them. *)

LEMMA CommandForms ==
    ASSUME NEW cmd \in Command
    PROVE  /\ cmd.kind \in {"seed", "stop", "insert", "gap"}
           /\ cmd.kind = "stop" <=> cmd = Stopping
           /\ cmd.kind = "seed" <=> cmd = Seeding
           /\ Data(cmd) => /\ cmd.stream \in Streams
                           /\ First(cmd) \in Nat /\ Last(cmd) \in Nat
           /\ cmd.kind = "gap" => cmd.after \in Positions /\ cmd.upto \in Positions
           /\ cmd.kind = "insert" => cmd.at \in Positions
  BY RecorderAssumption
     DEF Command, Seeding, Stopping, Insert, Gap, Data, First, Last, Positions

LEMMA NewCommands ==
    ASSUME NEW s \in Streams, NEW p \in Positions, NEW q \in Positions
    PROVE  /\ Insert(s, p) \in Command /\ Gap(s, p, q) \in Command
           /\ Insert(s, p).kind = "insert" /\ Gap(s, p, q).kind = "gap"
           /\ Insert(s, p).stream = s /\ Gap(s, p, q).stream = s
           /\ First(Insert(s, p)) = p /\ Last(Insert(s, p)) = p
           /\ First(Gap(s, p, q)) = p + 1 /\ Last(Gap(s, p, q)) = q
           /\ \A t \in Streams, n \in Positions :
                 /\ Carries(Insert(s, p), t, n) <=> t = s /\ n = p
                 /\ Carries(Gap(s, p, q), t, n) <=> t = s /\ p < n /\ n <= q
           /\ Seeding \in Command /\ Stopping \in Command
           /\ Seeding.kind = "seed" /\ Stopping.kind = "stop"
  BY DEF Command, Seeding, Stopping, Insert, Gap, First, Last, Carries

\* What a command carries is between its first and its last.
LEMMA CarriesBetween ==
    ASSUME NEW cmd \in Command, NEW s \in Streams, NEW p \in Positions
    PROVE  /\ Carries(cmd, s, p) <=> /\ Data(cmd) /\ cmd.stream = s
                                     /\ First(cmd) <= p /\ p <= Last(cmd)
           /\ Carries(cmd, s, p) => cmd.kind # "stop" /\ cmd.kind # "seed"
<1>1. p \in Nat
  BY RecorderAssumption DEF Positions
<1> QED
  BY <1>1, CommandForms DEF Carries, Data, First, Last, Positions

LEMMA InRange ==
    ASSUME NEW q \in Seq(Command), NEW x
    PROVE  x \in Range(q) <=> \E i \in 1..Len(q) : x = q[i]
<1>1. DOMAIN q = 1..Len(q)
  OBVIOUS
<1> QED
  BY <1>1 DEF Range

LEMMA RangeOfBoth ==
    ASSUME NEW q \in Seq(Command), NEW w \in Seq(Command), NEW x
    PROVE  x \in Range(q \o w) <=> x \in Range(q) \/ x \in Range(w)
<1> DEFINE t == q \o w
<1>1. /\ t \in Seq(Command) /\ Len(t) = Len(q) + Len(w)
      /\ Len(q) \in Nat /\ Len(w) \in Nat
      /\ \A i \in 1..Len(q) : t[i] = q[i]
      /\ \A i \in 1..Len(w) : t[Len(q) + i] = w[i]
  OBVIOUS
<1> HIDE DEF t
<1>2. ASSUME x \in Range(t) PROVE x \in Range(q) \/ x \in Range(w)
  <2>1. PICK i \in 1..Len(t) : x = t[i]
    BY <1>1, <1>2, InRange
  <2>2. CASE i <= Len(q)
    <3>1. i \in 1..Len(q) /\ x = q[i]
      BY <1>1, <2>1, <2>2
    <3> QED
      BY <3>1, InRange
  <2>3. CASE i > Len(q)
    <3>1. i - Len(q) \in 1..Len(w) /\ i = Len(q) + (i - Len(q))
      BY <1>1, <2>1, <2>3
    <3>2. x = w[i - Len(q)]
      BY <1>1, <2>1, <3>1
    <3> QED
      BY <3>1, <3>2, InRange
  <2> QED
    BY <1>1, <2>2, <2>3
<1>3. ASSUME x \in Range(q) PROVE x \in Range(t)
  <2>1. PICK i \in 1..Len(q) : x = q[i]
    BY <1>3, InRange
  <2>2. i \in 1..Len(t) /\ x = t[i]
    BY <1>1, <2>1
  <2> QED
    BY <1>1, <2>2, InRange
<1>4. ASSUME x \in Range(w) PROVE x \in Range(t)
  <2>1. PICK i \in 1..Len(w) : x = w[i]
    BY <1>4, InRange
  <2>2. Len(q) + i \in 1..Len(t) /\ x = t[Len(q) + i]
    BY <1>1, <2>1
  <2> QED
    BY <1>1, <2>2, InRange
<1> QED
  BY <1>2, <1>3, <1>4 DEF t

LEMMA RangeGrows ==
    ASSUME NEW q \in Seq(Command), NEW cmd \in Command, NEW x
    PROVE  x \in Range(Append(q, cmd)) <=> x \in Range(q) \/ x = cmd
<1> DEFINE t == Append(q, cmd)
<1>1. /\ t \in Seq(Command) /\ Len(t) = Len(q) + 1
      /\ Len(q) \in Nat
      /\ \A i \in 1..Len(q) : t[i] = q[i]
      /\ t[Len(q) + 1] = cmd
  OBVIOUS
<1> HIDE DEF t
<1>2. x \in Range(t) <=> \E i \in 1..(Len(q) + 1) : x = t[i]
  BY <1>1, InRange
<1>3. x \in Range(q) <=> \E i \in 1..Len(q) : x = q[i]
  BY InRange
<1> QED
  BY <1>1, <1>2, <1>3 DEF t

\* On its way: in the channel or with the writer.
LEMMA InFlightWhere ==
    ASSUME TypeOK, NEW r \in Recordings, NEW s, NEW p
    PROVE  InFlight(r, s, p) <=> Has(queue[r], s, p) \/ Has(writing[r], s, p)
<1>1. queue[r] \in Seq(Command) /\ writing[r] \in Seq(Command)
  BY DEF TypeOK
<1>2. \A x : /\ x \in Range(queue[r] \o writing[r]) <=> x \in Range(queue[r]) \/ x \in Range(writing[r])
             /\ x \in Range(queue[r]) <=> \E i \in 1..Len(queue[r]) : x = queue[r][i]
             /\ x \in Range(writing[r]) <=> \E i \in 1..Len(writing[r]) : x = writing[r][i]
  BY <1>1, RangeOfBoth, InRange
<1> QED
  BY <1>2 DEF InFlight, Has

LEMMA SettledWhere ==
    ASSUME TypeOK, NEW r \in Recordings, NEW s, NEW p
    PROVE  Settled(r, s, p) <=>
              \/ Has(saved[r], s, p)
              \/ \E cmd \in failed[r] : Carries(cmd, s, p)
<1>1. saved[r] \in Seq(Command)
  BY DEF TypeOK
<1>2. \A x : x \in Range(saved[r]) <=> \E i \in 1..Len(saved[r]) : x = saved[r][i]
  BY <1>1, InRange
<1> QED
  BY <1>2 DEF Settled, Has

LEMMA Numbers ==
    /\ MaxSent \in Nat /\ MaxFaults \in Nat
    /\ \A p \in Positions : p \in Nat /\ p <= MaxSent
    /\ \A n \in Nat : n <= MaxSent => n \in Positions
  BY RecorderAssumption DEF Positions

-----------------------------------------------------------------------------
(* Steps that leave a recording alone. *)

Same(r) ==
    /\ phase'[r] = phase[r] /\ cursor'[r] = cursor[r] /\ task'[r] = task[r]
    /\ queue'[r] = queue[r] /\ writer'[r] = writer[r] /\ writing'[r] = writing[r]
    /\ rows'[r] = rows[r] /\ saved'[r] = saved[r] /\ failed'[r] = failed[r]
    /\ ack'[r] = ack[r] /\ atStop'[r] = atStop[r]
    /\ r \in active' <=> r \in active
    /\ r \in cancelled' <=> r \in cancelled

\* What is owed of what was read is as it was.
OwedSame(r) ==
    \A s \in Streams, p \in Positions :
        p <= cursor[r][s] => (Owed(r, s, p)' <=> Owed(r, s, p))

LEMMA SameFlight ==
    ASSUME NEW r \in Recordings, queue'[r] = queue[r], writing'[r] = writing[r],
           saved'[r] = saved[r], failed'[r] = failed[r], NEW s, NEW p
    PROVE  /\ InFlight(r, s, p)' <=> InFlight(r, s, p)
           /\ Settled(r, s, p)' <=> Settled(r, s, p)
  BY DEF InFlight, Settled, Carries

LEMMA SameRecording ==
    ASSUME TypeOK, NEW r \in Recordings, RecordingInv(r), Same(r), OwedSame(r), up' => up
    PROVE  RecordingInv(r)'
<1>1. Shape(r)'
  BY DEF Shape, Quiet, Untold, Same, RecordingInv
<1>2. Pipes(r)'
  BY DEF Pipes, Same, RecordingInv
<1>3. Ordered(r)'
  BY DEF Ordered, Same, RecordingInv
<1>5. Counted(r)'
  BY DEF Counted, Carries, Same, RecordingInv
<1>6. \A s \in Streams, p \in Positions : /\ InFlight(r, s, p)' <=> InFlight(r, s, p)
                                          /\ Settled(r, s, p)' <=> Settled(r, s, p)
  BY SameFlight DEF Same
<1>7. Conserved(r)'
  BY <1>6 DEF Conserved, OwedSame, Same, RecordingInv
<1>8. \A s \in Streams, p \in Positions : OwedAtStop(r, s, p)' <=> OwedAtStop(r, s, p)
  <2> SUFFICES ASSUME NEW s \in Streams, NEW p \in Positions
               PROVE  OwedAtStop(r, s, p)' <=> OwedAtStop(r, s, p)
    OBVIOUS
  <2>1. p \in Nat /\ atStop[r][s] \in Nat /\ cursor[r][s] \in Nat /\ atStop[r][s] <= cursor[r][s]
    BY RecorderAssumption DEF Flushing, RecordingInv, TypeOK, Positions
  <2>2. p <= atStop[r][s] => p <= cursor[r][s]
    BY <2>1
  <2> QED
    BY <2>2 DEF OwedAtStop, OwedSame, Same
<1>9. Flushing(r)'
  BY <1>6, <1>8 DEF Flushing, Same, RecordingInv
<1>10. Attended(r)'
  BY DEF Attended, Same, RecordingInv
<1> QED
  BY <1>1, <1>2, <1>3, <1>5, <1>7, <1>9, <1>10 DEF RecordingInv

LEMMA OwedSameHere ==
    ASSUME NEW r \in Recordings, sent' = sent, since'[r] = since[r]
    PROVE  OwedSame(r)
  BY DEF OwedSame, Owed

LEMMA EnvSame ==
    ASSUME BroadcastInv, CursorInv, UNCHANGED env, cursor' = cursor
    PROVE  BroadcastInv' /\ CursorInv'
  BY DEF BroadcastInv, CursorInv, env, LastSent

\* A step of one recording.
LEMMA OneRecording ==
    ASSUME RInv, TypeOK', BroadcastInv', CursorInv', sent' = sent, up' = up,
           NEW r \in Recordings, RecordingInv(r)',
           \A q \in Recordings \ {r} : Same(q) /\ since'[q] = since[q]
    PROVE  RInv'
<1>1. ASSUME NEW q \in Recordings PROVE RecordingInv(q)'
  <2>1. CASE q = r
    BY <2>1
  <2>2. CASE q # r
    BY <2>2, SameRecording, OwedSameHere DEF RInv
  <2> QED
    BY <2>1, <2>2
<1> QED
  BY <1>1 DEF RInv

\* A step of none.
LEMMA NoRecording ==
    ASSUME RInv, TypeOK', BroadcastInv', CursorInv', up' = up,
           \A r \in Recordings : Same(r) /\ OwedSame(r)
    PROVE  RInv'
  BY SameRecording DEF RInv

-----------------------------------------------------------------------------
(* The watch. *)

LEMMA LastSentNat ==
    ASSUME TypeOK, NEW s \in Streams
    PROVE  /\ Len(sent[s]) \in Nat /\ LastSent(s) \in Nat /\ LastSent(s) <= Len(sent[s])
           /\ IsFiniteSet({p \in 1..Len(sent[s]) : sent[s][p] # Foreign})
<1>1. Len(sent[s]) \in Nat
  BY DEF TypeOK
<1>2. IsFiniteSet(1..Len(sent[s])) /\ Cardinality(1..Len(sent[s])) = Len(sent[s])
  BY <1>1, FS_Interval
<1>3. {p \in 1..Len(sent[s]) : sent[s][p] # Foreign} \subseteq 1..Len(sent[s])
  OBVIOUS
<1>4. /\ IsFiniteSet({p \in 1..Len(sent[s]) : sent[s][p] # Foreign})
      /\ Cardinality({p \in 1..Len(sent[s]) : sent[s][p] # Foreign}) <= Cardinality(1..Len(sent[s]))
  BY <1>2, <1>3, FS_Subset
<1>5. Cardinality({p \in 1..Len(sent[s]) : sent[s][p] # Foreign}) \in Nat
  BY <1>4, FS_CardinalityType
<1> QED
  BY <1>1, <1>2, <1>4, <1>5 DEF LastSent

\* Nothing is broadcast that the watch had not changed before.
LEMMA WatchNumbers ==
    ASSUME TypeOK, BroadcastInv, NEW s \in Streams
    PROVE  /\ Len(sent[s]) \in Positions /\ LastSent(s) \in Positions
           /\ LastSent(s) <= Len(sent[s])
           /\ \A n \in 1..Len(sent[s]) : ~(sent[s][n] > LastSent(s)) /\ ~(sent[s][n] > applied[s])
<1> DEFINE n == Len(sent[s])
           k == LastSent(s)
<1>1. /\ n \in Nat /\ k \in Nat /\ k <= n /\ n + applied[s] - k <= MaxSent
      /\ applied[s] = k \/ applied[s] = k + 1
  BY LastSentNat DEF BroadcastInv
<1>2. ASSUME NEW i \in 1..n PROVE sent[s][i] \in Nat /\ sent[s][i] <= k
  <2>1. sent[s] \in Seq(Positions)
    BY DEF TypeOK
  <2>2. sent[s][i] \in Positions
    BY <2>1
  <2> QED
    BY <2>2, Numbers DEF BroadcastInv
<1> HIDE DEF n, k
<1>3. n <= MaxSent /\ k <= MaxSent
  BY <1>1, Numbers
<1>4. ASSUME NEW i \in 1..n PROVE ~(sent[s][i] > k) /\ ~(sent[s][i] > applied[s])
  BY <1>1, <1>2
<1> QED
  BY <1>1, <1>3, <1>4, Numbers DEF n, k

LEMMA SentGrows ==
    ASSUME TypeOK, NEW s \in Streams, NEW n \in Positions,
           sent' = [sent EXCEPT ![s] = Append(@, n)]
    PROVE  /\ sent' \in [Streams -> Seq(Positions)]
           /\ Len(sent'[s]) = Len(sent[s]) + 1
           /\ \A p \in 1..Len(sent[s]) : sent'[s][p] = sent[s][p]
           /\ sent'[s][Len(sent[s]) + 1] = n
           /\ \A t \in Streams \ {s} : sent'[t] = sent[t] /\ LastSent(t)' = LastSent(t)
           /\ LastSent(s)' = IF n = Foreign THEN LastSent(s) ELSE LastSent(s) + 1
<1>1. /\ sent[s] \in Seq(Positions) /\ sent'[s] = Append(sent[s], n)
      /\ \A t \in Streams \ {s} : sent'[t] = sent[t]
  BY DEF TypeOK
<1>2. Len(sent[s]) \in Nat
  BY <1>1
<1>3. /\ Len(sent'[s]) = Len(sent[s]) + 1 /\ sent'[s] \in Seq(Positions)
      /\ \A p \in 1..Len(sent[s]) : sent'[s][p] = sent[s][p]
      /\ sent'[s][Len(sent[s]) + 1] = n
  BY <1>1
<1>4. sent' \in [Streams -> Seq(Positions)]
  BY <1>1, <1>3 DEF TypeOK
<1>5. \A t \in Streams \ {s} : LastSent(t)' = LastSent(t)
  BY <1>1 DEF LastSent
<1>6. IsFiniteSet({p \in 1..Len(sent[s]) : sent[s][p] # Foreign})
  BY LastSentNat
<1>7. CASE n = Foreign
  <2>1. {p \in 1..Len(sent'[s]) : sent'[s][p] # Foreign}
           = {p \in 1..Len(sent[s]) : sent[s][p] # Foreign}
    BY <1>2, <1>3, <1>7
  <2> QED
    BY <1>1, <1>3, <1>4, <1>5, <1>7, <2>1 DEF LastSent
<1>8. CASE n # Foreign
  <2>1. {p \in 1..Len(sent'[s]) : sent'[s][p] # Foreign}
           = {p \in 1..Len(sent[s]) : sent[s][p] # Foreign} \cup {Len(sent[s]) + 1}
    BY <1>2, <1>3, <1>8
  <2>2. Len(sent[s]) + 1 \notin {p \in 1..Len(sent[s]) : sent[s][p] # Foreign}
    BY <1>2
  <2>3. Cardinality({p \in 1..Len(sent[s]) : sent[s][p] # Foreign} \cup {Len(sent[s]) + 1})
           = Cardinality({p \in 1..Len(sent[s]) : sent[s][p] # Foreign}) + 1
    BY <1>6, <2>2, FS_AddElement
  <2> QED
    BY <1>1, <1>3, <1>4, <1>5, <1>8, <2>1, <2>3 DEF LastSent
<1> QED
  BY <1>7, <1>8

\* What is appended to a stream changes nothing of what was read of it.
LEMMA AppendOwed ==
    ASSUME TypeOK, CursorInv, NEW s \in Streams, NEW n \in Positions,
           sent' = [sent EXCEPT ![s] = Append(@, n)], since' = since, cursor' = cursor
    PROVE  CursorInv' /\ \A r \in Recordings : OwedSame(r)
<1>1. \A t \in Streams : /\ Len(sent[t]) \in Nat /\ Len(sent'[t]) \in Nat
                         /\ Len(sent[t]) <= Len(sent'[t])
                         /\ \A p \in 1..Len(sent[t]) : sent'[t][p] = sent[t][p]
  BY SentGrows, LastSentNat
<1>2. \A r \in Recordings, t \in Streams :
          cursor[r][t] \in Nat /\ cursor[r][t] <= Len(sent[t])
  BY RecorderAssumption DEF TypeOK, Positions, CursorInv
<1>3. CursorInv'
  BY <1>1, <1>2 DEF CursorInv
<1>4. ASSUME NEW r \in Recordings, NEW t \in Streams, NEW p \in Positions, p <= cursor[r][t]
      PROVE  Owed(r, t, p)' <=> Owed(r, t, p)
  <2>1. p \in Nat
    BY RecorderAssumption DEF Positions
  <2>2. (p \in 1..Len(sent'[t]) <=> p \in 1..Len(sent[t]))
        /\ (p \in 1..Len(sent[t]) => sent'[t][p] = sent[t][p])
    BY <1>1, <1>2, <1>4, <2>1
  <2> QED
    BY <2>2 DEF Owed
<1> QED
  BY <1>3, <1>4 DEF OwedSame

LEMMA SameHere ==
    ASSUME UNCHANGED <<start, pipeline, database, active, atStop>>
    PROVE  \A r \in Recordings : Same(r) /\ since' = since /\ cursor' = cursor
  BY DEF Same, start, pipeline, database

LEMMA ChangeStep ==
    ASSUME RInv, NEW s \in Streams, Change(s)
    PROVE  RInv'
<1> USE DEF RInv
<1>1. /\ applied' = [applied EXCEPT ![s] = @ + 1] /\ sent' = sent /\ up' = up
      /\ since' = since /\ cursor' = cursor
      /\ \A r \in Recordings : Same(r) /\ OwedSame(r)
  BY SameHere, OwedSameHere DEF Change, bounds, start, pipeline
<1>2. /\ \A t \in Streams : LastSent(t)' = LastSent(t)
      /\ \A t \in Streams : LastSent(t) \in Nat /\ Len(sent[t]) \in Nat /\ applied[t] \in Nat
  <2>1. ASSUME NEW t \in Streams
        PROVE  LastSent(t)' = LastSent(t)
    BY <1>1 DEF LastSent
  <2>2. ASSUME NEW t \in Streams
        PROVE  LastSent(t) \in Nat /\ Len(sent[t]) \in Nat
    BY LastSentNat
  <2>3. ASSUME NEW t \in Streams
        PROVE  applied[t] \in Nat
    BY RecorderAssumption DEF TypeOK, Positions
  <2> QED
    BY <2>1, <2>2, <2>3
<1>3. applied[s] = LastSent(s) /\ Len(sent[s]) < MaxSent /\ applied[s] + 1 \in Positions
  <2>1. applied[s] = LastSent(s) /\ Len(sent[s]) + applied[s] - LastSent(s) < MaxSent
    BY DEF Change
  <2> DEFINE n == Len(sent[s])
             k == LastSent(s)
  <2>0. n \in Nat /\ k \in Nat /\ k <= n /\ n + applied[s] - k < MaxSent /\ applied[s] = k
    BY <2>1, LastSentNat
  <2> HIDE DEF n, k
  <2>2. n < MaxSent /\ k <= n
    BY <2>0, Numbers
  <2>3. applied[s] + 1 \in Nat /\ applied[s] + 1 <= MaxSent
    BY <2>0, <2>2, Numbers
  <2> QED
    BY <2>1, <2>2, <2>3, Numbers DEF n
<1>4. TypeOK'
  BY <1>1, <1>3 DEF TypeOK, Change, start, pipeline, database, calls, bounds
<1>5. BroadcastInv'
  <2> SUFFICES ASSUME NEW t \in Streams
               PROVE (/\ applied[t] \in {LastSent(t), LastSent(t) + 1}
                      /\ LastSent(t) <= Len(sent[t])
                      /\ Len(sent[t]) + applied[t] - LastSent(t) <= MaxSent
                      /\ \A p \in 1..Len(sent[t]) : sent[t][p] <= LastSent(t))'
    BY DEF BroadcastInv
  <2>1. applied'[t] = IF t = s THEN applied[t] + 1 ELSE applied[t]
    BY <1>1 DEF TypeOK
  <2>2. LastSent(t)' = LastSent(t) /\ sent'[t] = sent[t]
    BY <1>1, <1>2
  <2>3. /\ applied[t] \in {LastSent(t), LastSent(t) + 1}
        /\ LastSent(t) <= Len(sent[t])
        /\ Len(sent[t]) + applied[t] - LastSent(t) <= MaxSent
        /\ \A p \in 1..Len(sent[t]) : sent[t][p] <= LastSent(t)
    BY DEF BroadcastInv
  <2>4. LastSent(t) \in Nat /\ Len(sent[t]) \in Nat /\ MaxSent \in Nat
    BY <1>2, RecorderAssumption
  <2>5. CASE t = s
    <3>1. applied[t] = LastSent(t) /\ Len(sent[t]) < MaxSent /\ applied'[t] = LastSent(t) + 1
      BY <1>3, <2>1, <2>5
    <3>2. applied'[t] \in {LastSent(t), LastSent(t) + 1} /\ Len(sent[t]) + applied'[t] - LastSent(t) <= MaxSent
      BY <2>4, <3>1
    <3> QED
      BY <2>2, <2>3, <3>2
  <2>6. CASE t # s
    BY <2>1, <2>2, <2>3, <2>6
  <2> QED
    BY <2>5, <2>6
<1>6. CursorInv'
  BY <1>1 DEF CursorInv
<1> QED
  BY <1>1, <1>4, <1>5, <1>6, NoRecording

LEMMA SendStep ==
    ASSUME RInv, NEW s \in Streams, Broadcast(s) \/ BroadcastForeign(s)
    PROVE  RInv'
<1> USE DEF RInv
<1>1. PICK n \in Positions :
          /\ sent' = [sent EXCEPT ![s] = Append(@, n)]
          /\ n = Foreign \/ (n = applied[s] /\ applied[s] > LastSent(s))
          /\ n = Foreign => Len(sent[s]) + applied[s] - LastSent(s) < MaxSent
  <2>1. CASE Broadcast(s)
    <3>1. applied[s] \in Positions /\ LastSent(s) \in Nat
      BY LastSentNat DEF TypeOK
    <3>2. applied[s] # Foreign
      BY <2>1, <3>1, RecorderAssumption DEF Broadcast, Foreign, Positions
    <3> QED
      BY <2>1, <3>1, <3>2 DEF Broadcast
  <2>2. CASE BroadcastForeign(s)
    <3>1. Foreign \in Positions
      BY RecorderAssumption DEF Foreign, Positions
    <3> QED
      BY <2>2, <3>1 DEF BroadcastForeign
  <2> QED
    BY <2>1, <2>2
<1>2. /\ applied' = applied /\ up' = up /\ since' = since /\ cursor' = cursor
      /\ \A r \in Recordings : Same(r)
  BY SameHere DEF Broadcast, BroadcastForeign, bounds, start, pipeline
<1>3. TypeOK'
  <2>1. sent' \in [Streams -> Seq(Positions)]
    BY <1>1, SentGrows
  <2> QED
    BY <2>1 DEF TypeOK, Broadcast, BroadcastForeign, start, pipeline, database, calls, bounds
<1>4. BroadcastInv'
  <2> SUFFICES ASSUME NEW t \in Streams
               PROVE (/\ applied[t] \in {LastSent(t), LastSent(t) + 1}
                      /\ LastSent(t) <= Len(sent[t])
                      /\ Len(sent[t]) + applied[t] - LastSent(t) <= MaxSent
                      /\ \A p \in 1..Len(sent[t]) : sent[t][p] <= LastSent(t))'
    BY DEF BroadcastInv
  <2>1. CASE t # s
    <3>1. sent'[t] = sent[t] /\ LastSent(t)' = LastSent(t)
      BY <1>1, <2>1, SentGrows
    <3> QED
      BY <1>2, <3>1 DEF BroadcastInv
  <2>2. CASE t = s
    <3>1. /\ Len(sent'[s]) = Len(sent[s]) + 1
          /\ \A p \in 1..Len(sent[s]) : sent'[s][p] = sent[s][p]
          /\ sent'[s][Len(sent[s]) + 1] = n
          /\ LastSent(s)' = IF n = Foreign THEN LastSent(s) ELSE LastSent(s) + 1
      BY <1>1, SentGrows
    <3>2. /\ Len(sent[s]) \in Nat /\ LastSent(s) \in Nat /\ applied[s] \in Nat
          /\ \A p \in 1..Len(sent[s]) : sent[s][p] \in Nat
      <4>1. sent[s] \in Seq(Positions) /\ applied[s] \in Positions
        BY DEF TypeOK
      <4>2. \A p \in 1..Len(sent[s]) : sent[s][p] \in Positions
        BY <4>1
      <4> QED
        BY <4>1, <4>2, LastSentNat, Numbers
    <3>3. /\ applied[s] \in {LastSent(s), LastSent(s) + 1}
          /\ LastSent(s) <= Len(sent[s])
          /\ Len(sent[s]) + applied[s] - LastSent(s) <= MaxSent
          /\ \A p \in 1..Len(sent[s]) : sent[s][p] <= LastSent(s)
      BY DEF BroadcastInv
    <3>4. CASE n = Foreign
      <4>1. ASSUME NEW p \in 1..Len(sent'[s]) PROVE sent'[s][p] <= LastSent(s)
        <5>1. p \in 1..Len(sent[s]) \/ p = Len(sent[s]) + 1
          BY <3>1, <3>2
        <5>2. CASE p \in 1..Len(sent[s])
          <6>1. sent'[s][p] = sent[s][p] /\ sent[s][p] <= LastSent(s)
            BY <3>1, <3>3, <5>2
          <6> QED
            BY <6>1
        <5>3. CASE p = Len(sent[s]) + 1
          BY <3>1, <3>2, <3>4, <5>3 DEF Foreign
        <5> QED
          BY <5>1, <5>2, <5>3
      <4>2. Len(sent[s]) + applied[s] - LastSent(s) < MaxSent
        BY <1>1, <3>4
      <4>3. Len(sent[s]) + 1 + applied[s] - LastSent(s) <= MaxSent
        BY <3>2, <4>2, Numbers
      <4>4. LastSent(s) <= Len(sent[s]) + 1
        BY <3>2, <3>3
      <4> QED
        BY <1>2, <2>2, <3>1, <3>3, <3>4, <4>1, <4>3, <4>4
    <3>5. CASE n # Foreign
      <4>1. n = LastSent(s) + 1 /\ applied[s] = n
        BY <1>1, <3>2, <3>3, <3>5
      <4>2. ASSUME NEW p \in 1..Len(sent'[s]) PROVE sent'[s][p] <= LastSent(s) + 1
        <5>1. p \in 1..Len(sent[s]) \/ p = Len(sent[s]) + 1
          BY <3>1, <3>2
        <5>2. CASE p \in 1..Len(sent[s])
          <6>1. sent'[s][p] = sent[s][p] /\ sent[s][p] <= LastSent(s) /\ sent[s][p] \in Nat
            BY <3>1, <3>2, <3>3, <5>2
          <6> QED
            BY <3>2, <6>1
        <5>3. CASE p = Len(sent[s]) + 1
          BY <3>1, <3>2, <4>1, <5>3
        <5> QED
          BY <5>1, <5>2, <5>3
      <4> QED
        BY <1>2, <2>2, <3>1, <3>2, <3>3, <3>5, <4>1, <4>2, RecorderAssumption
    <3> QED
      BY <3>4, <3>5
  <2> QED
    BY <2>1, <2>2
<1>5. CursorInv' /\ \A r \in Recordings : OwedSame(r)
  BY <1>1, <1>2, AppendOwed
<1> QED
  BY <1>2, <1>3, <1>4, <1>5, NoRecording

-----------------------------------------------------------------------------
(* start, up to the task. *)

LEMMA CountedSame ==
    ASSUME NEW r \in Recordings, Counted(r), saved'[r] = saved[r],
           \A s \in Streams : rows'[r].dropped[s] = rows[r].dropped[s]
    PROVE  Counted(r)'
  BY DEF Counted, Carries

\* Nothing is on its way yet.
LEMMA QuietRecording ==
    ASSUME NEW r \in Recordings, Quiet(r)', Shape(r)', Counted(r)', writer'[r] # "writing",
           \A s \in Streams : atStop'[r][s] <= cursor'[r][s], Attended(r)',
           phase'[r] \in Early \ {"none"} =>
              \A s \in Streams, p \in Positions : p <= cursor'[r][s] => ~Owed(r, s, p)'
    PROVE  RecordingInv(r)'
<1>1. /\ task'[r] = "none" /\ queue'[r] = << >> /\ writing'[r] = << >> /\ saved'[r] = << >>
      /\ failed'[r] = {} /\ ack'[r] = "none"
      /\ Len(queue'[r]) = 0 /\ Len(writing'[r]) = 0 /\ Len(saved'[r]) = 0 /\ 1..0 = {}
  BY DEF Quiet
<1>2. Pipes(r)'
  BY <1>1 DEF Pipes, Unstopped
<1>3. Ordered(r)'
  BY <1>1 DEF Ordered, InOrder, AllRead
<1>4. Conserved(r)'
  BY <1>1 DEF Conserved
<1>5. Flushing(r)'
  BY <1>1 DEF Flushing, Unstopped
<1> QED
  BY <1>2, <1>3, <1>4, <1>5 DEF RecordingInv

LEMMA SubscribeStep ==
    ASSUME RInv, NEW r \in Recordings, Subscribe(r)
    PROVE  RInv'
<1> USE DEF RInv
<1>1. /\ phase[r] = "none" /\ phase'[r] = "subscribed" /\ Quiet(r)
      /\ \A s \in Streams : cursor'[r][s] = Len(sent[s]) /\ since'[r][s] = LastSent(s)
      /\ UNCHANGED <<env, task, queue, writer, writing, cancelled, ack, database, active, atStop,
                     calls, bounds>>
  BY DEF Subscribe, Advance, TypeOK, RecordingInv, Shape, Early
<1>2. \A s \in Streams : /\ Len(sent[s]) \in Positions /\ LastSent(s) \in Positions
                         /\ LastSent(s) <= Len(sent[s])
  BY WatchNumbers
<1>3. TypeOK'
  <2>1. /\ [s \in Streams |-> Len(sent[s])] \in [Streams -> Positions]
        /\ [s \in Streams |-> LastSent(s)] \in [Streams -> Positions]
    BY <1>2
  <2> QED
    BY <1>1, <2>1 DEF TypeOK, Subscribe, Advance, env, database, calls, bounds
<1>4. \A q \in Recordings \ {r} : Same(q) /\ since'[q] = since[q]
  BY DEF Subscribe, Advance, TypeOK, Same, env, database
<1>5. BroadcastInv'
  BY <1>1 DEF BroadcastInv, env, LastSent
<1>6. CursorInv'
  <2> SUFFICES ASSUME NEW q \in Recordings, NEW s \in Streams
               PROVE  cursor'[q][s] <= Len(sent'[s])
    BY DEF CursorInv
  <2>1. sent' = sent /\ Len(sent[s]) \in Nat
    BY <1>1, LastSentNat DEF env
  <2>2. CASE q = r
    BY <1>1, <2>1, <2>2
  <2>3. CASE q # r
    BY <1>4, <2>1, <2>3 DEF Same, CursorInv
  <2> QED
    BY <2>2, <2>3
<1>7. RecordingInv(r)'
  <2>1. Quiet(r)'
    BY <1>1 DEF Quiet, database
  <2>2. writer[r] = "none" /\ rows[r].status = "none"
    BY <1>1 DEF RecordingInv, Shape, Early
  <2>3. Shape(r)'
    BY <1>1, <2>1, <2>2 DEF Shape, Quiet, database, Early
  <2>4. Counted(r)' /\ Attended(r)'
    BY <1>1, <2>2, CountedSame DEF database, RecordingInv, Attended
  <2>5. ASSUME NEW s \in Streams PROVE atStop'[r][s] <= cursor'[r][s]
    <3>1. atStop[r][s] \in Nat /\ cursor[r][s] \in Nat /\ atStop[r][s] <= cursor[r][s]
      BY RecorderAssumption DEF TypeOK, Positions, RecordingInv, Flushing
    <3>2. cursor[r][s] <= Len(sent[s]) /\ Len(sent[s]) \in Nat
      BY LastSentNat DEF CursorInv
    <3> QED
      BY <1>1, <3>1, <3>2
  <2>6. ASSUME NEW s \in Streams, NEW p \in Positions PROVE ~Owed(r, s, p)'
    <3>1. sent' = sent
      BY <1>1 DEF env
    <3>2. \A n \in 1..Len(sent[s]) : ~(sent[s][n] > LastSent(s))
      BY WatchNumbers
    <3> QED
      BY <1>1, <3>1, <3>2 DEF Owed
  <2>7. writer'[r] # "writing"
    BY <1>1, <2>2
  <2> QED
    BY <2>1, <2>3, <2>4, <2>5, <2>6, <2>7, QuietRecording
<1> QED
  BY <1>1, <1>3, <1>4, <1>5, <1>6, <1>7, OneRecording DEF env, bounds

LEMMA SnapshotStep ==
    ASSUME RInv, NEW r \in Recordings, Snapshot(r)
    PROVE  RInv'
<1> USE DEF RInv
<1>1. /\ phase[r] = "subscribed" /\ phase'[r] = "seen" /\ Quiet(r)
      /\ \A s \in Streams : since'[r][s] = IF s = "book" THEN applied[s] ELSE since[r][s]
      /\ UNCHANGED <<env, pipeline, database, active, atStop, calls, bounds>>
  BY DEF Snapshot, Advance, TypeOK, RecordingInv, Shape, Early
<1>2. TypeOK'
  <2>1. [s \in Streams |-> IF s = "book" THEN applied[s] ELSE since[r][s]]
           \in [Streams -> Positions]
    BY DEF TypeOK
  <2> QED
    BY <1>1, <2>1 DEF TypeOK, Snapshot, Advance, env, pipeline, database, calls, bounds
<1>3. \A q \in Recordings \ {r} : Same(q) /\ since'[q] = since[q]
  BY DEF Snapshot, Advance, TypeOK, Same, pipeline, database
<1>4. BroadcastInv' /\ CursorInv'
  BY <1>1, EnvSame DEF pipeline
<1>5. RecordingInv(r)'
  <2>1. Quiet(r)'
    BY <1>1 DEF Quiet, pipeline, database
  <2>2. writer[r] = "none" /\ rows[r].status = "none"
    BY <1>1 DEF RecordingInv, Shape, Early
  <2>3. Shape(r)'
    BY <1>1, <2>1, <2>2 DEF Shape, Quiet, pipeline, database, Early
  <2>4. Counted(r)' /\ Attended(r)'
    BY <1>1, <2>2, CountedSame DEF database, RecordingInv, Attended
  <2>5. \A s \in Streams : atStop'[r][s] <= cursor'[r][s]
    BY <1>1 DEF RecordingInv, Flushing, pipeline
  <2>6. ASSUME NEW s \in Streams, NEW p \in Positions, p <= cursor'[r][s] PROVE ~Owed(r, s, p)'
    <3>1. sent' = sent /\ cursor' = cursor
      BY <1>1 DEF env, pipeline
    <3>2. CASE s = "book"
      <4>1. since'[r][s] = applied[s] /\ \A n \in 1..Len(sent[s]) : ~(sent[s][n] > applied[s])
        BY <1>1, <3>2, WatchNumbers
      <4> QED
        BY <3>1, <4>1 DEF Owed
    <3>3. CASE s # "book"
      <4>1. ~Owed(r, s, p)
        BY <1>1, <2>6, <3>1 DEF RecordingInv, Conserved, Early
      <4> QED
        BY <1>1, <3>1, <3>3, <4>1 DEF Owed
    <3> QED
      BY <3>2, <3>3
  <2>7. writer'[r] # "writing"
    BY <1>1, <2>2 DEF pipeline
  <2> QED
    BY <2>1, <2>3, <2>4, <2>5, <2>6, <2>7, QuietRecording
<1> QED
  BY <1>1, <1>2, <1>3, <1>4, <1>5, OneRecording DEF env, bounds

\* Open, Describe and StartFails.
LEMMA ThreadStep ==
    ASSUME RInv, NEW r \in Recordings, Open(r) \/ Describe(r) \/ StartFails(r)
    PROVE  RInv'
<1> USE DEF RInv
<1>1. /\ phase[r] \in {"seen", "opened"} /\ Quiet(r) /\ rows[r].status = "none"
      /\ UNCHANGED <<env, since, cursor, task, queue, writing, cancelled, ack, saved, failed,
                     active, atStop, up>>
      /\ \/ /\ phase'[r] = "opened" /\ writer'[r] = "receiving" /\ rows' = rows
         \/ /\ phase'[r] = "described" /\ writer'[r] = "receiving"
            /\ \A s \in Streams : rows'[r].dropped[s] = rows[r].dropped[s]
         \/ /\ phase'[r] = "failed" /\ writer'[r] = "done" /\ rows' = rows
  <2>1. CASE Open(r)
    BY <2>1 DEF Open, Advance, TypeOK, RecordingInv, Shape, Early, database, bounds
  <2>2. CASE Describe(r)
    <3>1. rows[r] \in Row /\ rows'[r] = [rows[r] EXCEPT !.status = "active"]
      BY <2>2 DEF Describe, TypeOK
    <3>2. rows'[r].dropped = rows[r].dropped
      BY <3>1 DEF Row
    <3>3. phase[r] = "opened" /\ phase'[r] = "described"
      BY <2>2 DEF Describe, Advance, TypeOK
    <3>4. Quiet(r) /\ rows[r].status = "none" /\ writer[r] = "receiving"
      BY <3>3 DEF RecordingInv, Shape, Early
    <3> QED
      BY <2>2, <3>2, <3>3, <3>4 DEF Describe, pipeline, bounds
  <2>3. CASE StartFails(r)
    BY <2>3 DEF StartFails, Advance, TypeOK, RecordingInv, Shape, Early, database
  <2> QED
    BY <2>1, <2>2, <2>3
<1>2. TypeOK'
  <2>1. CASE Open(r)
    BY <2>1 DEF TypeOK, Open, Advance, env, database, calls, bounds
  <2>2. CASE Describe(r)
    <3>1. rows[r] \in Row
      BY DEF TypeOK
    <3>2. [rows[r] EXCEPT !.status = "active"] \in Row
      BY <3>1 DEF Row
    <3>3. rows' \in [Recordings -> Row]
      BY <2>2, <3>2 DEF Describe, TypeOK
    <3> QED
      BY <2>2, <3>3 DEF TypeOK, Describe, Advance, env, pipeline, calls, bounds
  <2>3. CASE StartFails(r)
    <3>1. faults' \in 0..MaxFaults
      <4>1. faults \in 0..MaxFaults /\ faults < MaxFaults /\ faults' = faults + 1
        BY <2>3 DEF StartFails, TypeOK
      <4> QED
        BY <4>1, Numbers
    <3>2. /\ phase' \in [Recordings -> {"none", "subscribed", "seen", "opened", "described",
                                       "spawned", "recording", "failed", "dead"}]
          /\ writer' \in [Recordings -> {"none", "receiving", "writing", "done"}]
      <4>1. /\ phase' = [phase EXCEPT ![r] = "failed"]
            /\ writer' = [writer EXCEPT ![r] = "done"]
        BY <2>3 DEF StartFails, Advance
      <4> QED
        BY <4>1 DEF TypeOK
    <3> QED
      BY <2>3, <3>1, <3>2 DEF TypeOK, StartFails, env, database, calls
  <2> QED
    BY <2>1, <2>2, <2>3
<1>3. \A q \in Recordings \ {r} : Same(q) /\ since'[q] = since[q]
  BY DEF Open, Describe, StartFails, Advance, TypeOK, Same, pipeline, database
<1>4. BroadcastInv' /\ CursorInv'
  BY <1>1, EnvSame
<1>5. RecordingInv(r)'
  <2>1. Quiet(r)'
    BY <1>1 DEF Quiet
  <2>2. Shape(r)'
    BY <1>1, <2>1 DEF Shape, Quiet, Early
  <2>3. Counted(r)' /\ Attended(r)'
    BY <1>1, CountedSame DEF RecordingInv, Attended
  <2>4. \A s \in Streams : atStop'[r][s] <= cursor'[r][s]
    BY <1>1 DEF RecordingInv, Flushing
  <2>5. ASSUME NEW s \in Streams, NEW p \in Positions, p <= cursor'[r][s] PROVE ~Owed(r, s, p)'
    <3>1. ~Owed(r, s, p)
      BY <1>1, <2>5 DEF RecordingInv, Conserved, Early
    <3> QED
      BY <1>1, <3>1 DEF Owed, env
  <2>6. writer'[r] # "writing"
    BY <1>1
  <2> QED
    BY <2>1, <2>2, <2>3, <2>4, <2>5, <2>6, QuietRecording
<1> QED
  BY <1>1, <1>2, <1>3, <1>4, <1>5, OneRecording DEF env

-----------------------------------------------------------------------------
(* A command put into the channel. *)

LEMMA Appended ==
    ASSUME NEW q \in Seq(Command), NEW cmd \in Command, NEW t, t = Append(q, cmd)
    PROVE  /\ t \in Seq(Command) /\ Len(t) = Len(q) + 1 /\ Len(q) \in Nat
           /\ \A i \in 1..Len(q) : t[i] = q[i] /\ q[i] \in Command
           /\ t[Len(q) + 1] = cmd
           /\ \A i \in 1..Len(t) : i \in 1..Len(q) \/ (i = Len(q) + 1 /\ t[i] = cmd)
  OBVIOUS

LEMMA BeforeAppended ==
    ASSUME NEW q \in Seq(Command), NEW cmd \in Command, NEW t, t = Append(q, cmd),
           \A i, j \in 1..Len(q) : i < j => Before(q[i], q[j]),
           \A i \in 1..Len(q) : Before(q[i], cmd)
    PROVE  \A i, j \in 1..Len(t) : i < j => Before(t[i], t[j])
<1>1. /\ Len(t) = Len(q) + 1 /\ Len(q) \in Nat
      /\ \A i \in 1..Len(q) : t[i] = q[i]
      /\ t[Len(q) + 1] = cmd
  BY Appended
<1> SUFFICES ASSUME NEW i \in 1..Len(t), NEW j \in 1..Len(t), i < j
             PROVE  Before(t[i], t[j])
  OBVIOUS
<1>2. i \in 1..Len(q) /\ t[i] = q[i]
  BY <1>1
<1>3. CASE j \in 1..Len(q)
  BY <1>1, <1>2, <1>3
<1>4. CASE j = Len(q) + 1
  BY <1>1, <1>2, <1>4
<1> QED
  BY <1>1, <1>3, <1>4

\* A command that is ahead of what was read before it.
New(k, cmd) == cmd.kind # "seed" /\ (Data(cmd) => First(cmd) > k[cmd.stream])

LEMMA BeforeNew ==
    ASSUME NEW k \in [Streams -> Positions], NEW x \in Command, NEW cmd \in Command,
           WasRead(k, x), New(k, cmd)
    PROVE  Before(x, cmd)
<1> SUFFICES ASSUME Data(x), Data(cmd), x.stream = cmd.stream
             PROVE  Last(x) < First(cmd)
  BY DEF Before, New
<1> DEFINE l == Last(x)
           f == First(cmd)
           n == k[cmd.stream]
<1>1. l \in Nat /\ f \in Nat /\ cmd.stream \in Streams
  BY CommandForms
<1>2. n \in Nat /\ l <= n /\ f > n
  BY <1>1, Numbers DEF WasRead, New
<1> HIDE DEF l, f, n
<1>3. l < f
  BY <1>1, <1>2
<1> QED
  BY <1>3 DEF l, f

LEMMA StillRead ==
    ASSUME NEW k \in [Streams -> Positions], NEW n \in [Streams -> Positions],
           \A s \in Streams : k[s] <= n[s], NEW q \in Seq(Command), AllRead(k, q)
    PROVE  AllRead(n, q)
<1> SUFFICES ASSUME NEW i \in 1..Len(q), Data(q[i])
             PROVE  First(q[i]) <= Last(q[i]) /\ Last(q[i]) <= n[q[i].stream]
  BY DEF AllRead, WasRead
<1> DEFINE x == q[i]
<1>1. x \in Command
  OBVIOUS
<1> DEFINE l == Last(x)
           a == k[x.stream]
           b == n[x.stream]
<1>2. l \in Nat /\ x.stream \in Streams
  BY <1>1, CommandForms
<1>3. a \in Nat /\ b \in Nat /\ l <= a /\ a <= b /\ First(x) <= l
  BY <1>2, Numbers DEF AllRead, WasRead
<1> HIDE DEF l, a, b
<1>4. l <= b /\ First(x) <= l
  BY <1>2, <1>3
<1> QED
  BY <1>4 DEF l, b

\* What goes into the channel last keeps everything in order.
LEMMA EnqueueOrder ==
    ASSUME NEW d \in Seq(Command), NEW w \in Seq(Command), NEW q \in Seq(Command),
           NEW cmd \in Command, NEW k \in [Streams -> Positions], NEW n \in [Streams -> Positions],
           \A s \in Streams : k[s] <= n[s],
           InOrder(d, w, q), AllRead(k, d), AllRead(k, w), AllRead(k, q),
           New(k, cmd) \/ (d = << >> /\ w = << >> /\ q = << >>), WasRead(n, cmd)
    PROVE  /\ InOrder(d, w, Append(q, cmd))
           /\ AllRead(n, d) /\ AllRead(n, w) /\ AllRead(n, Append(q, cmd))
<1>1. /\ \A i \in 1..Len(d) : Before(d[i], cmd)
      /\ \A i \in 1..Len(w) : Before(w[i], cmd)
      /\ \A i \in 1..Len(q) : Before(q[i], cmd)
  <2>1. CASE New(k, cmd)
    <3>1. \A x \in Command : WasRead(k, x) => Before(x, cmd)
      BY <2>1, BeforeNew
    <3> QED
      BY <3>1 DEF AllRead
  <2>2. CASE d = << >> /\ w = << >> /\ q = << >>
    BY <2>2
  <2> QED
    BY <2>1, <2>2
<1> DEFINE t == Append(q, cmd)
<1>2. /\ Len(t) = Len(q) + 1 /\ Len(q) \in Nat
      /\ \A i \in 1..Len(q) : t[i] = q[i]
      /\ t[Len(q) + 1] = cmd
      /\ \A i \in 1..Len(t) : i \in 1..Len(q) \/ (i = Len(q) + 1 /\ t[i] = cmd)
  BY Appended
<1>3. \A i, j \in 1..Len(t) : i < j => Before(t[i], t[j])
  BY <1>1, BeforeAppended DEF InOrder
<1>4. AllRead(n, d) /\ AllRead(n, w) /\ AllRead(n, q)
  BY StillRead
<1> HIDE DEF t
<1>5. InOrder(d, w, t)
  <2>1. \A i \in 1..Len(w), j \in 1..Len(t) : Before(w[i], t[j])
    BY <1>1, <1>2 DEF InOrder
  <2>2. \A i \in 1..Len(d), j \in 1..Len(t) : Before(d[i], t[j])
    BY <1>1, <1>2 DEF InOrder
  <2> QED
    BY <1>3, <2>1, <2>2 DEF InOrder
<1>6. AllRead(n, t)
  BY <1>2, <1>4 DEF AllRead
<1> QED
  BY <1>4, <1>5, <1>6 DEF t

LEMMA HasAppended ==
    ASSUME NEW q \in Seq(Command), NEW cmd \in Command, NEW s, NEW p
    PROVE  /\ Has(Append(q, cmd), s, p) <=> Has(q, s, p) \/ Carries(cmd, s, p)
           /\ \A i \in 1..Len(q) : Ahead(Append(q, cmd), i, s, p) <=> Ahead(q, i, s, p)
           /\ Ahead(Append(q, cmd), Len(q) + 1, s, p) <=> Has(q, s, p)
           /\ cmd.kind # "stop" /\ Unstopped(q) => Unstopped(Append(q, cmd))
<1> DEFINE t == Append(q, cmd)
<1>1. /\ Len(t) = Len(q) + 1 /\ Len(q) \in Nat
      /\ \A i \in 1..Len(q) : t[i] = q[i]
      /\ t[Len(q) + 1] = cmd
      /\ \A i \in 1..Len(t) : i \in 1..Len(q) \/ (i = Len(q) + 1 /\ t[i] = cmd)
  BY Appended
<1> HIDE DEF t
<1>2. Has(t, s, p) <=> Has(q, s, p) \/ Carries(cmd, s, p)
  <2>1. Len(q) + 1 \in 1..Len(t) /\ 1..Len(q) \subseteq 1..Len(t)
    BY <1>1
  <2> QED
    BY <1>1, <2>1 DEF Has
<1>3. ASSUME NEW i \in 1..(Len(q) + 1)
      PROVE  Ahead(t, i, s, p) <=> Ahead(q, i, s, p)
  <2>1. \A j : j \in 1..Len(t) /\ j < i <=> j \in 1..Len(q) /\ j < i
    BY <1>1
  <2> QED
    BY <1>1, <2>1 DEF Ahead
<1>4. Ahead(q, Len(q) + 1, s, p) <=> Has(q, s, p)
  BY <1>1 DEF Ahead, Has
<1>5. cmd.kind # "stop" /\ Unstopped(q) => Unstopped(t)
  BY <1>1 DEF Unstopped
<1>6. Len(q) + 1 \in 1..(Len(q) + 1) /\ \A i \in 1..Len(q) : i \in 1..(Len(q) + 1)
  BY <1>1
<1> QED
  BY <1>2, <1>3, <1>4, <1>5, <1>6 DEF t

\* The database and the writer are where they were.
Behind(r) ==
    /\ writing'[r] = writing[r] /\ saved'[r] = saved[r] /\ failed'[r] = failed[r]
    /\ writer'[r] = writer[r] /\ rows'[r] = rows[r] /\ ack'[r] = ack[r]

LEMMA FlightGrows ==
    ASSUME TypeOK, TypeOK', NEW r \in Recordings, NEW cmd \in Command, Behind(r),
           queue'[r] = Append(queue[r], cmd), NEW s, NEW p
    PROVE  /\ InFlight(r, s, p)' <=> InFlight(r, s, p) \/ Carries(cmd, s, p)
           /\ Settled(r, s, p)' <=> Settled(r, s, p)
<1>1. queue[r] \in Seq(Command) /\ queue'[r] \in Seq(Command) /\ writing[r] \in Seq(Command)
  BY DEF TypeOK
<1>2. \A x : /\ x \in Range(queue[r] \o writing[r]) <=> x \in Range(queue[r]) \/ x \in Range(writing[r])
             /\ x \in Range(queue'[r] \o writing[r]) <=> x \in Range(queue'[r]) \/ x \in Range(writing[r])
             /\ x \in Range(queue'[r]) <=> x \in Range(queue[r]) \/ x = cmd
  BY <1>1, RangeOfBoth, RangeGrows
<1>3. InFlight(r, s, p)' <=> \E x \in Range(queue'[r] \o writing[r]) : Carries(x, s, p)
  BY DEF InFlight, Behind, Carries
<1>4. InFlight(r, s, p) <=> \E x \in Range(queue[r] \o writing[r]) : Carries(x, s, p)
  BY DEF InFlight
<1>5. Settled(r, s, p)' <=> Settled(r, s, p)
  BY DEF Settled, Behind, Carries
<1> QED
  BY <1>2, <1>3, <1>4, <1>5

LEMMA EnqueueFlushing ==
    ASSUME TypeOK, TypeOK', NEW r \in Recordings, NEW cmd \in Command, Behind(r), Flushing(r),
           queue'[r] = Append(queue[r], cmd), cmd.kind # "stop",
           sent' = sent, since'[r] = since[r], atStop'[r] = atStop[r],
           \A s \in Streams : atStop[r][s] <= cursor'[r][s]
    PROVE  Flushing(r)'
<1> DEFINE q == queue[r]
           t == queue'[r]
<1>1. q \in Seq(Command) /\ t = Append(q, cmd)
  BY DEF TypeOK
<1>2. \A s, p : /\ OwedAtStop(r, s, p)' <=> OwedAtStop(r, s, p)
                /\ Settled(r, s, p)' <=> Settled(r, s, p)
  BY FlightGrows DEF OwedAtStop, Owed
<1>3. /\ \A i \in 1..Len(t) : i \in 1..Len(q) \/ t[i].kind # "stop"
      /\ \A i \in 1..Len(q) : t[i] = q[i]
  BY <1>1, Appended
<1>4. ASSUME NEW i \in 1..Len(q), NEW s, NEW p
      PROVE  Ahead(t, i, s, p) <=> Ahead(q, i, s, p)
  <2> HIDE DEF q, t
  <2>1. \A j \in 1..Len(q) : Ahead(Append(q, cmd), j, s, p) <=> Ahead(q, j, s, p)
    BY <1>1, HasAppended
  <2> QED
    BY <1>1, <2>1
<1>5. ASSUME NEW i \in 1..Len(t), t[i].kind = "stop",
             NEW s \in Streams, NEW p \in Positions, OwedAtStop(r, s, p)
      PROVE  Settled(r, s, p) \/ Ahead(t, i, s, p) \/ Has(writing[r], s, p)
  <2>1. i \in 1..Len(q) /\ q[i].kind = "stop"
    BY <1>3, <1>5
  <2>2. Settled(r, s, p) \/ Ahead(q, i, s, p) \/ Has(writing[r], s, p)
    BY <1>5, <2>1 DEF Flushing
  <2> QED
    BY <1>4, <2>1, <2>2
<1>6. /\ writing'[r] = writing[r] /\ ack'[r] = ack[r] /\ atStop'[r] = atStop[r]
  BY DEF Behind
<1>7. \A i \in 1..Len(queue'[r]) : queue'[r][i].kind = "stop" =>
          \A s \in Streams, p \in Positions : OwedAtStop(r, s, p)' =>
              Settled(r, s, p)' \/ Ahead(queue'[r], i, s, p) \/ Has(writing'[r], s, p)
  BY <1>2, <1>5, <1>6
<1>8. ~Unstopped(writing'[r]) \/ ack'[r] = "ok" =>
          \A s \in Streams, p \in Positions : OwedAtStop(r, s, p)' => Settled(r, s, p)'
  BY <1>2, <1>6 DEF Flushing
<1> QED
  BY <1>6, <1>7, <1>8 DEF Flushing, Ahead, Has, Unstopped, Carries

LEMMA EnqueueOrdered ==
    ASSUME TypeOK, TypeOK', NEW r \in Recordings, NEW cmd \in Command, Behind(r), Ordered(r),
           queue'[r] = Append(queue[r], cmd), \A s \in Streams : cursor[r][s] <= cursor'[r][s],
           \/ New(cursor[r], cmd)
           \/ saved[r] = << >> /\ writing[r] = << >> /\ queue[r] = << >>,
           WasRead(cursor'[r], cmd)
    PROVE  Ordered(r)'
<1> DEFINE d == saved[r]
           w == writing[r]
           q == queue[r]
           k == cursor[r]
           n == cursor'[r]
<1>1. /\ d \in Seq(Command) /\ w \in Seq(Command) /\ q \in Seq(Command)
      /\ k \in [Streams -> Positions] /\ n \in [Streams -> Positions]
  BY DEF TypeOK
<1>2. /\ InOrder(d, w, q) /\ AllRead(k, d) /\ AllRead(k, w) /\ AllRead(k, q)
      /\ New(k, cmd) \/ (d = << >> /\ w = << >> /\ q = << >>)
      /\ WasRead(n, cmd) /\ \A s \in Streams : k[s] <= n[s]
  BY DEF Ordered
<1> HIDE DEF d, w, q, k, n
<1>3. /\ InOrder(d, w, Append(q, cmd))
      /\ AllRead(n, d) /\ AllRead(n, w) /\ AllRead(n, Append(q, cmd))
  BY <1>1, <1>2, EnqueueOrder
<1> QED
  BY <1>3 DEF Ordered, Behind, d, w, q, n

LEMMA QueueType ==
    ASSUME TypeOK, NEW r \in Recordings, NEW cmd \in Command, Enqueue(r, cmd)
    PROVE  /\ queue' \in [Recordings -> Seq(Command)]
           /\ queue'[r] = Append(queue[r], cmd)
           /\ \A q \in Recordings \ {r} : queue'[q] = queue[q]
<1>1. Append(queue[r], cmd) \in Seq(Command)
  BY DEF TypeOK
<1> QED
  BY <1>1 DEF TypeOK, Enqueue

LEMMA CursorOf ==
    ASSUME TypeOK, NEW r \in Recordings
    PROVE  /\ cursor[r] \in [Streams -> Positions]
           /\ \A s \in Streams : cursor[r][s] \in Nat /\ cursor[r][s] <= cursor[r][s]
           /\ queue[r] \in Seq(Command) /\ writing[r] \in Seq(Command) /\ saved[r] \in Seq(Command)
<1>1. cursor[r] \in [Streams -> Positions]
  BY DEF TypeOK
<1>2. \A s \in Streams : cursor[r][s] \in Nat
  BY <1>1, Numbers
<1> QED
  BY <1>1, <1>2 DEF TypeOK

LEMMA SpawnStep ==
    ASSUME RInv, NEW r \in Recordings, Spawn(r)
    PROVE  RInv'
<1> USE DEF RInv
<1>1. /\ phase[r] = "described" /\ phase'[r] = "spawned" /\ task'[r] = "receiving"
      /\ queue'[r] = Append(queue[r], Seeding) /\ Seeding \in Command /\ Seeding.kind = "seed"
      /\ UNCHANGED <<env, since, cursor, writer, writing, cancelled, ack, database, active, atStop,
                     calls, bounds>>
  BY NewCommands DEF Spawn, Advance, TypeOK, Command, Seeding
<1>2. Quiet(r) /\ writer[r] = "receiving"
  BY <1>1 DEF RecordingInv, Shape, Early
<1>3. TypeOK'
  <2>1. queue' \in [Recordings -> Seq(Command)]
    BY <1>1, QueueType DEF Spawn, Enqueue
  <2> QED
    BY <1>1, <2>1 DEF TypeOK, Spawn, Advance, env, database, calls, bounds
<1>4. \A q \in Recordings \ {r} : Same(q) /\ since'[q] = since[q]
  BY DEF Spawn, Advance, TypeOK, Same, database
<1>5. BroadcastInv' /\ CursorInv'
  BY <1>1, EnvSame
<1>6. RecordingInv(r)'
  <2>1. /\ queue[r] = << >> /\ writing[r] = << >> /\ saved[r] = << >> /\ ack[r] = "none"
        /\ r \notin active /\ r \notin cancelled /\ Behind(r)
    BY <1>1, <1>2 DEF Quiet, Behind, database
  <2>2. Unstopped(queue'[r]) /\ Unstopped(writing'[r])
    <3>1. Unstopped(<< >>)
      BY DEF Unstopped
    <3> QED
      BY <1>1, <2>1, <3>1, CursorOf, HasAppended
  <2>3. Shape(r)'
    BY <1>1, <1>2, <2>1, <2>2 DEF Shape, Untold, Early, LiveWriter, Unstopped
  <2>4. Pipes(r)' /\ Counted(r)' /\ Attended(r)'
    <3>1. Pipes(r)'
      BY <1>1, <1>2, <2>1 DEF Pipes, RecordingInv, database, LiveWriter, Unstopped
    <3> QED
      BY <1>1, <1>2, <3>1, CountedSame DEF RecordingInv, Attended, database
  <2>5. Ordered(r)'
    <3>1. WasRead(cursor[r], Seeding)
      BY <1>1 DEF WasRead, Data
    <3> QED
      BY <1>1, <1>3, <2>1, <3>1, CursorOf, EnqueueOrdered DEF RecordingInv
  <2>6. Conserved(r)'
    <3>1. \A s \in Streams, p \in Positions : p <= cursor'[r][s] => ~Owed(r, s, p)'
      BY <1>1 DEF RecordingInv, Conserved, Early, Owed, env
    <3> QED
      BY <3>1 DEF Conserved
  <2>7. Flushing(r)'
    <3>1. \A s \in Streams : atStop[r][s] <= cursor'[r][s]
      BY <1>1 DEF RecordingInv, Flushing
    <3> QED
      BY <1>1, <1>3, <2>1, <3>1, EnqueueFlushing DEF RecordingInv, env
  <2> QED
    BY <2>3, <2>4, <2>5, <2>6, <2>7 DEF RecordingInv
<1> QED
  BY <1>1, <1>3, <1>4, <1>5, <1>6, OneRecording DEF env, bounds

LEMMA RegisterStep ==
    ASSUME RInv, NEW r \in Recordings, Register(r)
    PROVE  RInv'
<1> USE DEF RInv
<1>1. /\ phase[r] = "spawned" /\ phase'[r] = "recording" /\ active' = active \cup {r}
      /\ UNCHANGED <<env, since, pipeline, database, atStop, calls, bounds>>
  BY DEF Register, Advance, TypeOK
<1>2. Untold(r)
  BY <1>1 DEF RecordingInv, Shape
<1>3. TypeOK'
  BY <1>1 DEF TypeOK, Register, Advance, env, pipeline, database, calls, bounds
<1>4. \A q \in Recordings \ {r} : Same(q) /\ since'[q] = since[q]
  BY <1>1 DEF Register, Advance, TypeOK, Same, pipeline, database
<1>5. BroadcastInv' /\ CursorInv'
  BY <1>1, EnvSame DEF pipeline
<1>6. RecordingInv(r)'
  <2>1. Untold(r)'
    BY <1>1, <1>2 DEF Untold, pipeline, Unstopped
  <2>2. Shape(r)'
    BY <1>1, <2>1 DEF Shape, Early, Untold, LiveWriter
  <2>3. Pipes(r)' /\ Ordered(r)' /\ Counted(r)'
    BY <1>1 DEF RecordingInv, Pipes, Ordered, Counted, pipeline, database, Carries, Unstopped
  <2>4. Attended(r)'
    BY <1>1 DEF RecordingInv, Attended, pipeline, database, bounds
  <2>5. /\ queue'[r] = queue[r] /\ writing'[r] = writing[r]
        /\ saved'[r] = saved[r] /\ failed'[r] = failed[r]
    BY <1>1 DEF pipeline, database
  <2>6. \A s, p : /\ InFlight(r, s, p)' <=> InFlight(r, s, p)
                  /\ Settled(r, s, p)' <=> Settled(r, s, p)
                  /\ Owed(r, s, p)' <=> Owed(r, s, p)
                  /\ OwedAtStop(r, s, p)' <=> OwedAtStop(r, s, p)
    BY <1>1, <2>5, SameFlight DEF Owed, OwedAtStop, env
  <2>7. Conserved(r)'
    BY <1>1, <2>6 DEF RecordingInv, Conserved, Early, pipeline
  <2>8. Flushing(r)'
    BY <1>1, <2>6 DEF RecordingInv, Flushing, pipeline, Ahead, Has, Unstopped, Carries
  <2> QED
    BY <2>2, <2>3, <2>4, <2>7, <2>8 DEF RecordingInv
<1> QED
  BY <1>1, <1>3, <1>4, <1>5, <1>6, OneRecording DEF env, bounds

-----------------------------------------------------------------------------
(* The forwarding task and the channel. *)

\* The task reads on, and sends a command for what it read unless it is of another watch.
LEMMA ForwardEffect ==
    ASSUME TypeOK, BroadcastInv, NEW r \in Recordings, NEW s \in Streams, Forward(r, s)
    PROVE  /\ cursor' \in [Recordings -> [Streams -> Positions]]
           /\ \A q \in Recordings \ {r} : cursor'[q] = cursor[q]
           /\ \A t \in Streams \ {s} : cursor'[r][t] = cursor[r][t]
           /\ cursor[r][s] < cursor'[r][s] /\ cursor'[r][s] <= Len(sent[s])
           /\ \/ queue' = queue /\ cursor'[r][s] = cursor[r][s] + 1
                 /\ sent[s][cursor'[r][s]] = Foreign
              \/ \E cmd \in Command :
                    /\ Enqueue(r, cmd) /\ cmd.kind \in {"insert", "gap"} /\ cmd.stream = s
                    /\ First(cmd) = cursor[r][s] + 1 /\ Last(cmd) = cursor'[r][s]
<1>0. \/ /\ Lag(r, s) > 0
         /\ Enqueue(r, Gap(s, cursor[r][s], cursor[r][s] + Lag(r, s)))
         /\ cursor' = [cursor EXCEPT ![r][s] = cursor[r][s] + Lag(r, s)]
      \/ /\ Lag(r, s) = 0
         /\ IF sent[s][cursor[r][s] + 1] # Foreign
            THEN Enqueue(r, Insert(s, cursor[r][s] + 1)) ELSE UNCHANGED queue
         /\ cursor' = [cursor EXCEPT ![r][s] = cursor[r][s] + 1]
  BY DEF Forward
<1> DEFINE k == cursor[r][s]
           n == Len(sent[s])
           lag == Lag(r, s)
<1>1. k \in Nat /\ k \in Positions /\ n \in Nat /\ k < n /\ n \in Positions
  <2>1. k \in Positions /\ n \in Positions
    BY WatchNumbers DEF TypeOK
  <2>2. k < n
    BY DEF Forward
  <2> QED
    BY <2>1, <2>2, Numbers
<1>2. lag = IF n - k > BroadcastCap THEN n - BroadcastCap - k ELSE 0
  BY DEF Lag
<1>3. BroadcastCap \in Nat /\ BroadcastCap > 0
  BY RecorderAssumption
<1>4. \/ /\ lag > 0
         /\ Enqueue(r, Gap(s, k, k + lag))
         /\ cursor' = [cursor EXCEPT ![r][s] = k + lag]
      \/ /\ lag = 0
         /\ \/ sent[s][k + 1] # Foreign /\ Enqueue(r, Insert(s, k + 1))
            \/ sent[s][k + 1] = Foreign /\ queue' = queue
         /\ cursor' = [cursor EXCEPT ![r][s] = k + 1]
  BY <1>0
<1> HIDE DEF n, lag, k
<1>5. lag > 0 => k + lag <= n /\ k + lag > k /\ k + lag \in Nat
  BY <1>1, <1>2, <1>3
<1>6. k + 1 <= n /\ k + 1 \in Nat /\ k + 1 > k
  BY <1>1
<1>7. PICK m \in Nat : /\ k < m /\ m <= n /\ cursor' = [cursor EXCEPT ![r][s] = m]
                       /\ \/ Enqueue(r, Gap(s, k, m))
                          \/ m = k + 1 /\ Enqueue(r, Insert(s, m))
                          \/ m = k + 1 /\ sent[s][m] = Foreign /\ queue' = queue
  BY <1>4, <1>5, <1>6
<1>8. m \in Positions
  <2>1. m <= MaxSent
    BY <1>1, <1>7, Numbers
  <2> QED
    BY <2>1, Numbers
<1>9. /\ cursor' \in [Recordings -> [Streams -> Positions]]
      /\ cursor'[r][s] = m
      /\ \A q \in Recordings \ {r} : cursor'[q] = cursor[q]
      /\ \A t \in Streams \ {s} : cursor'[r][t] = cursor[r][t]
  BY <1>7, <1>8 DEF TypeOK
<1>10. CASE Enqueue(r, Gap(s, k, m))
  <2>1. /\ Gap(s, k, m) \in Command /\ Gap(s, k, m).kind = "gap" /\ Gap(s, k, m).stream = s
        /\ First(Gap(s, k, m)) = k + 1 /\ Last(Gap(s, k, m)) = m
    BY <1>1, <1>8, NewCommands
  <2> QED
    BY <1>7, <1>9, <1>10, <2>1 DEF k, n
<1>11. CASE m = k + 1 /\ Enqueue(r, Insert(s, m))
  <2>1. /\ Insert(s, m) \in Command /\ Insert(s, m).kind = "insert" /\ Insert(s, m).stream = s
        /\ First(Insert(s, m)) = k + 1 /\ Last(Insert(s, m)) = m
    BY <1>8, <1>11, NewCommands
  <2> QED
    BY <1>7, <1>9, <1>11, <2>1 DEF k, n
<1>12. CASE m = k + 1 /\ sent[s][m] = Foreign /\ queue' = queue
  BY <1>7, <1>9, <1>12 DEF k, n
<1> QED
  BY <1>7, <1>10, <1>11, <1>12

LEMMA ForwardStep ==
    ASSUME RInv, NEW r \in Recordings, NEW s \in Streams, Forward(r, s)
    PROVE  RInv'
<1> USE DEF RInv
<1>1. /\ task[r] = "receiving" /\ writer[r] # "done" /\ Behind(r)
      /\ UNCHANGED <<env, start, task, writer, writing, cancelled, ack, database, active, atStop,
                     calls, bounds>>
  BY DEF Forward, Behind, database
<1>2. /\ cursor' \in [Recordings -> [Streams -> Positions]]
      /\ \A q \in Recordings \ {r} : cursor'[q] = cursor[q]
      /\ \A t \in Streams \ {s} : cursor'[r][t] = cursor[r][t]
      /\ cursor[r][s] < cursor'[r][s] /\ cursor'[r][s] <= Len(sent[s])
  BY ForwardEffect
<1>3. \/ queue' = queue /\ cursor'[r][s] = cursor[r][s] + 1 /\ sent[s][cursor'[r][s]] = Foreign
      \/ \E cmd \in Command :
            /\ Enqueue(r, cmd) /\ cmd.kind \in {"insert", "gap"} /\ cmd.stream = s
            /\ First(cmd) = cursor[r][s] + 1 /\ Last(cmd) = cursor'[r][s]
  BY ForwardEffect
<1>4. \A t \in Streams : /\ cursor[r][t] \in Nat /\ cursor'[r][t] \in Nat
                         /\ cursor[r][t] <= cursor'[r][t]
  <2>1. ASSUME NEW t \in Streams PROVE /\ cursor[r][t] \in Nat /\ cursor'[r][t] \in Nat
    BY <1>2, Numbers DEF TypeOK
  <2>2. ASSUME NEW t \in Streams PROVE cursor[r][t] <= cursor'[r][t]
    BY <1>2, <2>1
  <2> QED
    BY <2>1, <2>2
<1>5. /\ queue' \in [Recordings -> Seq(Command)]
      /\ \A q \in Recordings \ {r} : queue'[q] = queue[q]
  BY <1>3, QueueType DEF TypeOK
<1>6. TypeOK'
  BY <1>1, <1>2, <1>5 DEF TypeOK, env, start, database, calls, bounds
<1>7. \A q \in Recordings \ {r} : Same(q) /\ since'[q] = since[q]
  BY <1>1, <1>2, <1>5 DEF Same, start, database
<1>8. BroadcastInv' /\ CursorInv'
  <2>1. BroadcastInv'
    BY <1>1 DEF BroadcastInv, env, LastSent
  <2>2. ASSUME NEW q \in Recordings, NEW t \in Streams PROVE cursor'[q][t] <= Len(sent'[t])
    <3>1. sent' = sent
      BY <1>1 DEF env
    <3> QED
      BY <1>2, <3>1 DEF CursorInv
  <2> QED
    BY <2>1, <2>2 DEF CursorInv
<1>9. \A t, p : Owed(r, t, p)' <=> Owed(r, t, p)
  BY <1>1 DEF Owed, env, start
<1>10. phase[r] \notin Early
  BY <1>1 DEF RecordingInv, Shape, Quiet
<1>11. Counted(r)' /\ Attended(r)'
  BY <1>1, CountedSame DEF RecordingInv, Attended, database, bounds
<1>12. \A t \in Streams : atStop[r][t] <= cursor'[r][t]
  <2> SUFFICES ASSUME NEW t \in Streams PROVE atStop[r][t] <= cursor'[r][t]
    OBVIOUS
  <2>1. atStop[r][t] \in Nat /\ atStop[r][t] <= cursor[r][t]
    BY Numbers DEF RecordingInv, Flushing, TypeOK
  <2> QED
    BY <1>4, <2>1
<1>13. CASE queue' = queue /\ cursor'[r][s] = cursor[r][s] + 1 /\ sent[s][cursor'[r][s]] = Foreign
  <2>1. Shape(r)' /\ Pipes(r)'
    BY <1>1, <1>13 DEF RecordingInv, Shape, Quiet, Pipes, Untold, start, database, Unstopped
  <2>2. Ordered(r)'
    <3>1. /\ cursor[r] \in [Streams -> Positions] /\ cursor'[r] \in [Streams -> Positions]
          /\ saved[r] \in Seq(Command) /\ writing[r] \in Seq(Command) /\ queue[r] \in Seq(Command)
      BY <1>2, CursorOf
    <3>2. \A q \in Seq(Command) : AllRead(cursor[r], q) => AllRead(cursor'[r], q)
      BY <1>4, <3>1, StillRead
    <3> QED
      BY <1>1, <1>13, <3>1, <3>2 DEF RecordingInv, Ordered, database
  <2>3. \A t, p : /\ InFlight(r, t, p)' <=> InFlight(r, t, p)
                  /\ Settled(r, t, p)' <=> Settled(r, t, p)
    BY <1>1, <1>13, SameFlight DEF Behind
  <2>4. Conserved(r)'
    <3> SUFFICES ASSUME NEW t \in Streams, NEW p \in Positions, Owed(r, t, p), p <= cursor'[r][t]
                 PROVE  InFlight(r, t, p) \/ Settled(r, t, p)
      BY <1>1, <1>9, <1>10, <2>3 DEF Conserved, start
    <3>1. CASE p <= cursor[r][t]
      BY <1>1, <3>1 DEF RecordingInv, Conserved
    <3>2. CASE ~(p <= cursor[r][t])
      <4>1. p \in Nat
        BY Numbers
      <4>2. t = s /\ p = cursor'[r][s]
        BY <1>2, <1>4, <1>13, <3>2, <4>1
      <4>3. sent[s][p] = 0 /\ since[r][s] \in Nat
        BY <1>13, <4>2, Numbers DEF Foreign, TypeOK
      <4> QED
        BY <4>2, <4>3 DEF Owed
    <3> QED
      BY <3>1, <3>2
  <2>5. Flushing(r)'
    <3>1. \A t, p : OwedAtStop(r, t, p)' <=> OwedAtStop(r, t, p)
      BY <1>1, <1>9 DEF OwedAtStop
    <3> QED
      BY <1>1, <1>12, <1>13, <2>3, <3>1
         DEF RecordingInv, Flushing, Ahead, Has, Unstopped, Carries
  <2>6. RecordingInv(r)'
    BY <1>11, <2>1, <2>2, <2>4, <2>5 DEF RecordingInv
  <2> QED
    BY <1>1, <1>6, <1>7, <1>8, <2>6, OneRecording DEF env, bounds
<1>14. ASSUME NEW cmd \in Command, Enqueue(r, cmd), cmd.kind \in {"insert", "gap"}, cmd.stream = s,
              First(cmd) = cursor[r][s] + 1, Last(cmd) = cursor'[r][s]
       PROVE  RInv'
  <2>1. queue'[r] = Append(queue[r], cmd) /\ cmd.kind # "stop" /\ cmd.kind # "seed"
    BY <1>14, QueueType
  <2>2. Unstopped(queue[r]) => Unstopped(queue'[r])
    BY <2>1, CursorOf, HasAppended
  <2>3. Shape(r)' /\ Pipes(r)'
    <3>1. writer[r] \in LiveWriter
      BY <1>1, <1>10 DEF RecordingInv, Shape, Pipes, Untold, Early, TypeOK, LiveWriter
    <3>2. Shape(r)'
      BY <1>1, <1>10, <2>2 DEF RecordingInv, Shape, Untold, start, database, Unstopped
    <3> QED
      BY <1>1, <3>1, <3>2 DEF RecordingInv, Pipes, database, Unstopped
  <2>4. Ordered(r)'
    <3>1. New(cursor[r], cmd)
      BY <1>4, <1>14, <2>1 DEF New
    <3>2. WasRead(cursor'[r], cmd)
      <4>1. cursor[r][s] + 1 <= cursor'[r][s] /\ cursor'[r][s] <= cursor'[r][s]
        BY <1>2, <1>4
      <4> QED
        BY <1>14, <4>1 DEF WasRead
    <3> QED
      BY <1>1, <1>4, <1>6, <2>1, <3>1, <3>2, EnqueueOrdered DEF RecordingInv
  <2>5. \A t, p : /\ InFlight(r, t, p)' <=> InFlight(r, t, p) \/ Carries(cmd, t, p)
                  /\ Settled(r, t, p)' <=> Settled(r, t, p)
    BY <1>1, <1>6, <2>1, FlightGrows
  <2>6. Conserved(r)'
    <3> SUFFICES ASSUME NEW t \in Streams, NEW p \in Positions, Owed(r, t, p), p <= cursor'[r][t]
                 PROVE  InFlight(r, t, p) \/ Carries(cmd, t, p) \/ Settled(r, t, p)
      BY <1>1, <1>9, <1>10, <2>5 DEF Conserved, start
    <3>1. CASE p <= cursor[r][t]
      BY <1>1, <3>1 DEF RecordingInv, Conserved
    <3>2. CASE ~(p <= cursor[r][t])
      <4>1. p \in Nat
        BY Numbers
      <4>2. t = s /\ cursor[r][s] + 1 <= p /\ p <= cursor'[r][s]
        BY <1>2, <1>4, <3>2, <4>1
      <4>3. Data(cmd)
        BY <1>14 DEF Data
      <4> QED
        BY <1>14, <4>2, <4>3, CarriesBetween
    <3> QED
      BY <3>1, <3>2
  <2>7. Flushing(r)'
    BY <1>1, <1>6, <1>12, <2>1, EnqueueFlushing DEF RecordingInv, env, start
  <2>8. RecordingInv(r)'
    BY <1>11, <2>3, <2>4, <2>6, <2>7 DEF RecordingInv
  <2> QED
    BY <1>1, <1>6, <1>7, <1>8, <2>8, OneRecording DEF env, bounds
<1> QED
  BY <1>3, <1>13, <1>14

LEMMA EndTaskStep ==
    ASSUME RInv, NEW r \in Recordings, EndTask(r)
    PROVE  RInv'
<1> USE DEF RInv
<1>1. /\ task[r] = "receiving" /\ r \in cancelled /\ task'[r] = "done"
      /\ UNCHANGED <<env, start, cursor, queue, writer, writing, cancelled, ack, database, active,
                     atStop, calls, bounds>>
  BY DEF EndTask, TypeOK
<1>2. TypeOK'
  BY <1>1 DEF TypeOK, EndTask, env, start, database, calls, bounds
<1>3. \A q \in Recordings \ {r} : Same(q) /\ since'[q] = since[q]
  BY DEF EndTask, TypeOK, Same, start, database
<1>4. BroadcastInv' /\ CursorInv'
  BY <1>1, EnvSame
<1>5. RecordingInv(r)'
  <2>1. phase[r] \notin Early /\ r \notin active /\ phase[r] # "spawned"
    BY <1>1 DEF RecordingInv, Shape, Quiet, Untold
  <2>2. Shape(r)'
    BY <1>1, <2>1 DEF RecordingInv, Shape, start, Early
  <2>3. Pipes(r)' /\ Ordered(r)' /\ Counted(r)'
    BY <1>1 DEF RecordingInv, Pipes, Ordered, Counted, database, Carries, Unstopped
  <2>4. Attended(r)'
    BY <1>1 DEF RecordingInv, Attended, database, bounds
  <2>5. \A s, p : Settled(r, s, p)' <=> Settled(r, s, p)
    BY <1>1, SameFlight DEF database
  <2>6. \A s, p : OwedAtStop(r, s, p)' <=> OwedAtStop(r, s, p)
    BY <1>1 DEF Owed, OwedAtStop, env, start
  <2>7. Conserved(r)'
    BY <1>1, <2>1 DEF Conserved, start
  <2>8. Flushing(r)'
    BY <1>1, <2>5, <2>6 DEF RecordingInv, Flushing, Ahead, Has, Unstopped, Carries
  <2> QED
    BY <2>2, <2>3, <2>4, <2>7, <2>8 DEF RecordingInv
<1> QED
  BY <1>1, <1>2, <1>3, <1>4, <1>5, OneRecording DEF env, bounds

-----------------------------------------------------------------------------
(* The writer thread. *)

LEMMA HeadAndTail ==
    ASSUME NEW q \in Seq(Command), q # << >>, NEW w, w = << Head(q) >>, NEW t, t = Tail(q)
    PROVE  /\ w \in Seq(Command) /\ t \in Seq(Command)
           /\ Len(w) = 1 /\ w[1] = q[1] /\ q[1] \in Command
           /\ Len(q) \in Nat /\ Len(q) >= 1 /\ Len(t) = Len(q) - 1
           /\ \A i \in 1..Len(t) : i + 1 \in 1..Len(q) /\ t[i] = q[i + 1]
           /\ \A i \in 1..Len(q) : i = 1 \/ (i - 1 \in 1..Len(t) /\ q[i] = t[i - 1])
<1>1. Len(q) \in Nat /\ Len(q) >= 1 /\ Head(q) = q[1] /\ q[1] \in Command
  OBVIOUS
<1>2. w \in Seq(Command) /\ Len(w) = 1 /\ w[1] = q[1]
  BY <1>1
<1>3. t \in Seq(Command) /\ Len(t) = Len(q) - 1 /\ \A i \in 1..Len(t) : t[i] = q[i + 1]
  OBVIOUS
<1>4. ASSUME NEW i \in 1..Len(t) PROVE i + 1 \in 1..Len(q) /\ t[i] = q[i + 1]
  BY <1>1, <1>3
<1>5. ASSUME NEW i \in 1..Len(q), i # 1 PROVE i - 1 \in 1..Len(t) /\ q[i] = t[i - 1]
  <2>1. i - 1 \in 1..Len(t) /\ (i - 1) + 1 = i
    BY <1>1, <1>3, <1>5
  <2> QED
    BY <1>3, <2>1
<1> QED
  BY <1>1, <1>2, <1>3, <1>4, <1>5

\* Taking the head off the channel loses nothing, and keeps everything in order.
LEMMA TakeParts ==
    ASSUME NEW q \in Seq(Command), q # << >>, NEW w, w = << Head(q) >>, NEW t, t = Tail(q)
    PROVE  /\ \A s, p : Has(q, s, p) <=> Has(w, s, p) \/ Has(t, s, p)
           /\ \A i \in 1..Len(t) : \A s, p :
                 Ahead(q, i + 1, s, p) => Ahead(t, i, s, p) \/ Has(w, s, p)
           /\ \A s, p : ~Ahead(q, 1, s, p)
           /\ Unstopped(q) <=> Unstopped(w) /\ Unstopped(t)
           /\ \A d, v \in Seq(Command) : InOrder(d, v, q) => InOrder(d, w, t)
           /\ \A k : AllRead(k, q) => AllRead(k, w) /\ AllRead(k, t)
<1>1. /\ Len(w) = 1 /\ w[1] = q[1] /\ Len(q) \in Nat /\ Len(q) >= 1 /\ Len(t) = Len(q) - 1
      /\ \A i \in 1..Len(t) : i + 1 \in 1..Len(q) /\ t[i] = q[i + 1]
      /\ \A i \in 1..Len(q) : i = 1 \/ (i - 1 \in 1..Len(t) /\ q[i] = t[i - 1])
  BY HeadAndTail
<1>2. 1 \in 1..Len(q) /\ 1..Len(w) = {1}
  BY <1>1
<1>3. ASSUME NEW s, NEW p PROVE Has(q, s, p) <=> Has(w, s, p) \/ Has(t, s, p)
  <2>1. Has(w, s, p) <=> Carries(q[1], s, p)
    BY <1>1, <1>2 DEF Has
  <2>2. Has(t, s, p) => Has(q, s, p)
    BY <1>1 DEF Has
  <2>3. Has(q, s, p) => Carries(q[1], s, p) \/ Has(t, s, p)
    BY <1>1 DEF Has
  <2>4. Carries(q[1], s, p) => Has(q, s, p)
    BY <1>2 DEF Has
  <2> QED
    BY <2>1, <2>2, <2>3, <2>4
<1>4. ASSUME NEW s, NEW p, NEW i \in 1..Len(t), Ahead(q, i + 1, s, p)
      PROVE  Ahead(t, i, s, p) \/ Has(w, s, p)
  <2>1. PICK j \in 1..Len(q) : j < i + 1 /\ Carries(q[j], s, p)
    BY <1>4 DEF Ahead
  <2>2. CASE j = 1
    BY <1>1, <1>2, <2>1, <2>2 DEF Has
  <2>3. CASE j # 1
    <3>1. j - 1 \in 1..Len(t) /\ q[j] = t[j - 1] /\ j - 1 < i
      BY <1>1, <2>1, <2>3
    <3> QED
      BY <2>1, <3>1 DEF Ahead
  <2> QED
    BY <2>2, <2>3
<1>5. \A s, p : ~Ahead(q, 1, s, p)
  BY DEF Ahead
<1>6. Unstopped(q) <=> Unstopped(w) /\ Unstopped(t)
  <2>1. Unstopped(w) <=> q[1].kind # "stop"
    BY <1>1, <1>2 DEF Unstopped
  <2>2. Unstopped(q) => q[1].kind # "stop" /\ Unstopped(t)
    BY <1>1, <1>2 DEF Unstopped
  <2>3. q[1].kind # "stop" /\ Unstopped(t) => Unstopped(q)
    BY <1>1 DEF Unstopped
  <2> QED
    BY <2>1, <2>2, <2>3
<1>7. ASSUME NEW d \in Seq(Command), NEW v \in Seq(Command), InOrder(d, v, q)
      PROVE  InOrder(d, w, t)
  <2>1. \A i, j \in 1..Len(d) : i < j => Before(d[i], d[j]) /\ d[i].kind # "stop"
    BY <1>7 DEF InOrder
  <2>2. ASSUME NEW i \in 1..Len(t), NEW j \in 1..Len(t), i < j PROVE Before(t[i], t[j])
    <3>1. i + 1 \in 1..Len(q) /\ j + 1 \in 1..Len(q) /\ i + 1 < j + 1
      BY <1>1, <2>2
    <3> QED
      BY <1>1, <1>7, <3>1 DEF InOrder
  <2>3. \A i \in 1..Len(d), j \in 1..Len(w) : Before(d[i], w[j])
    BY <1>1, <1>2, <1>7 DEF InOrder
  <2>4. \A i \in 1..Len(d), j \in 1..Len(t) : Before(d[i], t[j])
    BY <1>1, <1>7 DEF InOrder
  <2>5. ASSUME NEW i \in 1..Len(w), NEW j \in 1..Len(t) PROVE Before(w[i], t[j])
    <3>1. i = 1 /\ 1 < j + 1 /\ j + 1 \in 1..Len(q)
      BY <1>1, <1>2
    <3> QED
      BY <1>1, <1>2, <1>7, <3>1 DEF InOrder
  <2> QED
    BY <2>1, <2>2, <2>3, <2>4, <2>5 DEF InOrder
<1>8. ASSUME NEW k, AllRead(k, q) PROVE AllRead(k, w) /\ AllRead(k, t)
  <2>1. AllRead(k, w)
    BY <1>1, <1>2, <1>8 DEF AllRead
  <2>2. AllRead(k, t)
    BY <1>1, <1>8 DEF AllRead
  <2> QED
    BY <2>1, <2>2
<1> QED
  BY <1>3, <1>4, <1>5, <1>6, <1>7, <1>8

LEMMA TakeStep ==
    ASSUME RInv, NEW r \in Recordings, Take(r)
    PROVE  RInv'
<1> USE DEF RInv
<1> DEFINE q == queue[r]
           w == writing'[r]
           t == queue'[r]
<1>1. /\ writer[r] = "receiving" /\ writer'[r] = "writing" /\ q \in Seq(Command) /\ q # << >>
      /\ w = << Head(q) >> /\ t = Tail(q) /\ Len(writing[r]) = 0
      /\ UNCHANGED <<env, start, cursor, task, cancelled, ack, database, active, atStop, calls,
                     bounds>>
  BY DEF Take, TypeOK, RecordingInv, Pipes
<1>2. w \in Seq(Command) /\ t \in Seq(Command) /\ Len(w) = 1
  BY <1>1, HeadAndTail
<1>3. TypeOK'
  <2>1. << Head(queue[r]) >> \in Seq(Command) /\ Tail(queue[r]) \in Seq(Command)
    BY <1>1, <1>2
  <2>2. writing' \in [Recordings -> Seq(Command)] /\ queue' \in [Recordings -> Seq(Command)]
    BY <2>1 DEF Take, TypeOK
  <2> QED
    BY <1>1, <2>2 DEF TypeOK, Take, env, start, database, calls, bounds
<1>4. \A a \in Recordings \ {r} : Same(a) /\ since'[a] = since[a]
  BY DEF Take, TypeOK, Same, start, database
<1>5. BroadcastInv' /\ CursorInv'
  BY <1>1, EnvSame
<1>6. /\ \A s, p : Has(q, s, p) <=> Has(w, s, p) \/ Has(t, s, p)
      /\ \A i \in 1..Len(t) : \A s, p : Ahead(q, i + 1, s, p) => Ahead(t, i, s, p) \/ Has(w, s, p)
      /\ \A s, p : ~Ahead(q, 1, s, p)
      /\ Unstopped(q) <=> Unstopped(w) /\ Unstopped(t)
  <2> HIDE DEF q, w, t
  <2> QED
    BY <1>1, TakeParts
<1>7. \A s, p : ~Has(writing[r], s, p)
  BY <1>1 DEF Has
<1>8. RecordingInv(r)'
  <2>1. phase[r] \notin Early
    BY <1>1 DEF RecordingInv, Shape, Quiet
  <2>2. Shape(r)'
    BY <1>1, <1>6, <2>1 DEF RecordingInv, Shape, Untold, start, LiveWriter, Unstopped, Early
  <2>3. Pipes(r)'
    BY <1>1, <1>2 DEF RecordingInv, Pipes, LiveWriter, database, Unstopped
  <2>4. Ordered(r)'
    <3> DEFINE d == saved[r]
               v == writing[r]
               k == cursor[r]
    <3>1. /\ InOrder(d, v, q) /\ AllRead(k, d) /\ AllRead(k, q)
          /\ d \in Seq(Command) /\ v \in Seq(Command)
      BY DEF RecordingInv, Ordered, TypeOK
    <3> HIDE DEF d, v, k, q, w, t
    <3>2. /\ InOrder(d, w, t) /\ AllRead(k, w) /\ AllRead(k, t)
      BY <1>1, <3>1, TakeParts
    <3> QED
      BY <1>1, <3>1, <3>2 DEF Ordered, database, d, k, w, t
  <2>5. Counted(r)' /\ Attended(r)'
    BY <1>1, CountedSame DEF RecordingInv, Attended, database, bounds
  <2>6. \A s, p : /\ Settled(r, s, p)' <=> Settled(r, s, p)
                  /\ Owed(r, s, p)' <=> Owed(r, s, p)
                  /\ OwedAtStop(r, s, p)' <=> OwedAtStop(r, s, p)
    BY <1>1 DEF Settled, Owed, OwedAtStop, env, start, database, Carries
  <2>7. ASSUME NEW s, NEW p PROVE InFlight(r, s, p)' <=> InFlight(r, s, p)
    <3>1. InFlight(r, s, p) <=> Has(q, s, p) \/ Has(writing[r], s, p)
      BY InFlightWhere
    <3>2. InFlight(r, s, p)' <=> Has(t, s, p) \/ Has(w, s, p)
      <4>1. \A x : x \in Range(t \o w) <=> x \in Range(t) \/ x \in Range(w)
        BY <1>2, RangeOfBoth
      <4>2. \A x : /\ x \in Range(t) <=> \E i \in 1..Len(t) : x = t[i]
                   /\ x \in Range(w) <=> \E i \in 1..Len(w) : x = w[i]
        BY <1>2, InRange
      <4>3. InFlight(r, s, p)' <=> \E x \in Range(t \o w) : Carries(x, s, p)
        BY DEF InFlight, Carries
      <4> HIDE DEF t, w
      <4> QED
        BY <4>1, <4>2, <4>3 DEF Has
    <3> QED
      BY <1>6, <1>7, <3>1, <3>2
  <2>8. Conserved(r)'
    BY <1>1, <2>1, <2>6, <2>7 DEF RecordingInv, Conserved, start
  <2>9. Flushing(r)'
    <3>1. ASSUME NEW i \in 1..Len(t), t[i].kind = "stop",
                 NEW s \in Streams, NEW p \in Positions, OwedAtStop(r, s, p)
          PROVE  Settled(r, s, p) \/ Ahead(t, i, s, p) \/ Has(w, s, p)
      <4>1. i + 1 \in 1..Len(q) /\ q[i + 1].kind = "stop"
        BY <1>1, <3>1, HeadAndTail
      <4>2. Settled(r, s, p) \/ Ahead(q, i + 1, s, p) \/ Has(writing[r], s, p)
        BY <3>1, <4>1 DEF RecordingInv, Flushing
      <4> QED
        BY <1>6, <1>7, <4>2
    <3>2. ASSUME ~Unstopped(w), NEW s \in Streams, NEW p \in Positions, OwedAtStop(r, s, p)
          PROVE  Settled(r, s, p)
      <4>1. 1 \in 1..Len(q) /\ w[1] = q[1] /\ 1..Len(w) = {1}
        BY <1>1, HeadAndTail
      <4>2. q[1].kind = "stop"
        BY <3>2, <4>1 DEF Unstopped
      <4>3. Settled(r, s, p) \/ Ahead(q, 1, s, p) \/ Has(writing[r], s, p)
        BY <3>2, <4>1, <4>2 DEF RecordingInv, Flushing
      <4> QED
        BY <1>6, <1>7, <4>3
    <3>3. ack'[r] = ack[r] /\ atStop'[r] = atStop[r] /\ cursor'[r] = cursor[r]
      BY <1>1
    <3>4. \A i \in 1..Len(queue'[r]) : queue'[r][i].kind = "stop" =>
              \A s \in Streams, p \in Positions : OwedAtStop(r, s, p)' =>
                  Settled(r, s, p)' \/ Ahead(queue'[r], i, s, p) \/ Has(writing'[r], s, p)
      BY <2>6, <3>1
    <3>5. ~Unstopped(writing'[r]) \/ ack'[r] = "ok" =>
              \A s \in Streams, p \in Positions : OwedAtStop(r, s, p)' => Settled(r, s, p)'
      BY <2>6, <3>2, <3>3 DEF RecordingInv, Flushing
    <3> QED
      BY <3>3, <3>4, <3>5 DEF RecordingInv, Flushing, Ahead, Has, Unstopped, Carries
  <2> QED
    BY <2>2, <2>3, <2>4, <2>5, <2>8, <2>9 DEF RecordingInv
<1> QED
  BY <1>1, <1>3, <1>4, <1>5, <1>8, OneRecording DEF env, start, bounds

\* The positions that the gaps among the commands saved count.
GapSet(d, s) == {p \in Positions : \E cmd \in Range(d) : cmd.kind = "gap" /\ Carries(cmd, s, p)}

LEMMA GapFinite ==
    ASSUME NEW d, NEW s
    PROVE  IsFiniteSet(GapSet(d, s))
<1>1. IsFiniteSet(0..MaxSent)
  BY Numbers, FS_Interval
<1>2. GapSet(d, s) \subseteq 0..MaxSent
  BY DEF GapSet, Positions
<1> QED
  BY <1>1, <1>2, FS_Subset

\* A gap that is written is counted once, as no gap before it reaches so far.
LEMMA GapCount ==
    ASSUME NEW d \in Seq(Command), NEW cmd \in Command, NEW s \in Streams,
           Data(cmd) => First(cmd) <= Last(cmd), \A i \in 1..Len(d) : Before(d[i], cmd)
    PROVE  Cardinality(GapSet(Append(d, cmd), s)) = Cardinality(GapSet(d, s)) +
               (IF cmd.kind = "gap" /\ cmd.stream = s THEN cmd.upto - cmd.after ELSE 0)
<1>1. \A x : x \in Range(Append(d, cmd)) <=> x \in Range(d) \/ x = cmd
  BY RangeGrows
<1>2. Cardinality(GapSet(d, s)) \in Nat /\ IsFiniteSet(GapSet(d, s))
  BY GapFinite, FS_CardinalityType
<1>3. CASE ~(cmd.kind = "gap" /\ cmd.stream = s)
  <2>1. \A p : ~(cmd.kind = "gap" /\ Carries(cmd, s, p))
    BY <1>3 DEF Carries
  <2>2. GapSet(Append(d, cmd), s) = GapSet(d, s)
    BY <1>1, <2>1 DEF GapSet
  <2> QED
    BY <1>2, <1>3, <2>2
<1>4. CASE cmd.kind = "gap" /\ cmd.stream = s
  <2> DEFINE a == cmd.after
             b == cmd.upto
  <2>1. /\ a \in Nat /\ b \in Nat /\ a + 1 <= b /\ b <= MaxSent /\ First(cmd) = a + 1
        /\ Last(cmd) = b /\ Data(cmd)
    BY <1>4, CommandForms, Numbers DEF Data, First, Last
  <2>2. \A p \in Positions : cmd.kind = "gap" /\ Carries(cmd, s, p) <=> p \in (a + 1)..b
    <3>1. \A p \in Positions : p \in Nat
      BY Numbers
    <3> QED
      BY <1>4, <2>1, <3>1 DEF Carries
  <2>3. \A p \in (a + 1)..b : p \in Positions
    BY <2>1, Numbers DEF Positions
  <2>4. GapSet(Append(d, cmd), s) = GapSet(d, s) \cup ((a + 1)..b)
    <3>1. \A p : p \in GapSet(Append(d, cmd), s)
                 <=> p \in Positions /\ (p \in GapSet(d, s) \/ (cmd.kind = "gap" /\ Carries(cmd, s, p)))
      BY <1>1 DEF GapSet
    <3>2. \A p : p \in GapSet(d, s) => p \in Positions
      BY DEF GapSet
    <3> QED
      BY <2>2, <2>3, <3>1, <3>2
  <2>5. GapSet(d, s) \cap ((a + 1)..b) = {}
    <3> SUFFICES ASSUME NEW p \in GapSet(d, s), p \in (a + 1)..b
                 PROVE  FALSE
      OBVIOUS
    <3>1. PICK x \in Range(d) : x.kind = "gap" /\ Carries(x, s, p)
      BY DEF GapSet
    <3>2. PICK i \in 1..Len(d) : x = d[i]
      BY <3>1, InRange
    <3>3. x \in Command /\ p \in Positions
      BY <3>2 DEF GapSet
    <3>4. Data(x) /\ x.stream = s /\ p <= Last(x) /\ Last(x) \in Nat /\ p \in Nat
      BY <3>1, <3>3, CarriesBetween, CommandForms, Numbers
    <3>5. Last(x) < a + 1
      BY <1>4, <2>1, <3>2, <3>4 DEF Before
    <3> QED
      BY <2>1, <3>4, <3>5
  <2>6. IsFiniteSet((a + 1)..b) /\ Cardinality((a + 1)..b) = b - a
    <3>0. a + 1 \in Int /\ b \in Int
      BY <2>1
    <3>1. /\ IsFiniteSet((a + 1)..b)
          /\ Cardinality((a + 1)..b) = IF a + 1 > b THEN 0 ELSE b - (a + 1) + 1
      BY <3>0, FS_Interval
    <3>2. Cardinality((a + 1)..b) = b - (a + 1) + 1
      BY <2>1, <3>1
    <3> QED
      BY <2>1, <3>1, <3>2
  <2>7. Cardinality(GapSet(d, s) \cup ((a + 1)..b))
          = Cardinality(GapSet(d, s)) + Cardinality((a + 1)..b)
              - Cardinality(GapSet(d, s) \cap ((a + 1)..b))
    BY <1>2, <2>6, FS_Union
  <2>8. Cardinality(GapSet(d, s) \cap ((a + 1)..b)) = 0
    BY <2>5, FS_EmptySet
  <2>9. Cardinality(GapSet(Append(d, cmd), s)) = Cardinality(GapSet(d, s)) + (b - a)
    BY <1>2, <2>1, <2>4, <2>6, <2>7, <2>8
  <2> QED
    BY <1>4, <2>9
<1> QED
  BY <1>3, <1>4

\* What a write does to the row and to the table.
LEMMA ExecuteRows ==
    ASSUME TypeOK, NEW r \in Recordings, NEW cmd \in Command, WasRead(cursor[r], cmd),
           Execute(r, cmd)
    PROVE  /\ rows' \in [Recordings -> Row]
           /\ \A q \in Recordings \ {r} : rows'[q] = rows[q]
           /\ rows'[r].status = IF cmd.kind = "stop" THEN "stopped" ELSE rows[r].status
           /\ \A s \in Streams : rows'[r].dropped[s] = rows[r].dropped[s] +
                 (IF cmd.kind = "gap" /\ cmd.stream = s THEN cmd.upto - cmd.after ELSE 0)
           /\ saved' = [saved EXCEPT ![r] = Append(@, cmd)] /\ failed' = failed /\ faults' = faults
<1>1. /\ rows[r] \in Row /\ rows[r].dropped \in [Streams -> Nat]
      /\ \A s \in Streams : rows[r].dropped[s] \in Nat
  BY DEF TypeOK, Row
<1>2. /\ saved' = [saved EXCEPT ![r] = Append(@, cmd)] /\ failed' = failed /\ faults' = faults
      /\ cmd.kind = "gap" => rows' = [rows EXCEPT ![r].dropped[cmd.stream] =
                                          @ + (cmd.upto - cmd.after)]
      /\ cmd.kind = "stop" => rows' = [rows EXCEPT ![r].status = "stopped"]
      /\ cmd.kind \notin {"gap", "stop"} => rows' = rows
  BY DEF Execute
<1>3. CASE cmd.kind = "gap"
  <2> DEFINE n == cmd.upto - cmd.after
             row == [rows[r] EXCEPT !.dropped[cmd.stream] = @ + n]
  <2>1. n \in Nat /\ cmd.stream \in Streams
    <3>1. /\ cmd.upto \in Nat /\ cmd.after \in Nat /\ cmd.stream \in Streams
          /\ cmd.after + 1 <= cmd.upto
      BY <1>3, CommandForms, Numbers DEF WasRead, Data, First, Last
    <3> QED
      BY <3>1
  <2> HIDE DEF n
  <2>2. /\ row \in Row /\ row.status = rows[r].status
        /\ \A s \in Streams : row.dropped[s] = IF cmd.stream = s THEN rows[r].dropped[s] + n
                                                                 ELSE rows[r].dropped[s]
    BY <1>1, <2>1 DEF Row
  <2>3. rows' = [rows EXCEPT ![r] = row]
    BY <1>2, <1>3 DEF n
  <2> HIDE DEF row
  <2>4. rows' \in [Recordings -> Row] /\ rows'[r] = row /\ \A q \in Recordings \ {r} : rows'[q] = rows[q]
    BY <2>2, <2>3 DEF TypeOK
  <2>5. \A s \in Streams : rows[r].dropped[s] + 0 = rows[r].dropped[s]
    BY <1>1
  <2> QED
    BY <1>2, <1>3, <2>2, <2>4, <2>5 DEF n
<1>4. CASE cmd.kind = "stop"
  <2> DEFINE row == [rows[r] EXCEPT !.status = "stopped"]
  <2>1. row \in Row /\ row.status = "stopped" /\ row.dropped = rows[r].dropped
    BY <1>1 DEF Row
  <2>2. rows' = [rows EXCEPT ![r] = row]
    BY <1>2, <1>4
  <2> HIDE DEF row
  <2>3. rows' \in [Recordings -> Row] /\ rows'[r] = row /\ \A q \in Recordings \ {r} : rows'[q] = rows[q]
    BY <2>1, <2>2 DEF TypeOK
  <2> QED
    BY <1>1, <1>2, <1>4, <2>1, <2>3
<1>5. CASE cmd.kind \notin {"gap", "stop"}
  BY <1>1, <1>2, <1>5 DEF TypeOK
<1> QED
  BY <1>3, <1>4, <1>5

LEMMA FailRows ==
    ASSUME TypeOK, NEW r \in Recordings, NEW cmd \in Command, ExecuteFails(r, cmd)
    PROVE  /\ rows' \in [Recordings -> Row]
           /\ \A q \in Recordings \ {r} : rows'[q] = rows[q]
           /\ rows'[r].status = rows[r].status /\ rows'[r].dropped = rows[r].dropped
           /\ saved' = saved /\ failed' = [failed EXCEPT ![r] = @ \cup {cmd}]
           /\ faults' \in 0..MaxFaults
<1>1. /\ rows[r] \in Row /\ rows' \in {rows, [rows EXCEPT ![r].errors = @ + 1]}
      /\ saved' = saved /\ failed' = [failed EXCEPT ![r] = @ \cup {cmd}]
      /\ faults \in 0..MaxFaults /\ faults < MaxFaults /\ faults' = faults + 1
  BY DEF TypeOK, ExecuteFails
<1>2. faults' \in 0..MaxFaults
  BY <1>1, Numbers
<1> DEFINE row == [rows[r] EXCEPT !.errors = @ + 1]
<1>3. row \in Row /\ row.status = rows[r].status /\ row.dropped = rows[r].dropped
  BY <1>1 DEF Row
<1>4. rows' = rows \/ rows' = [rows EXCEPT ![r] = row]
  BY <1>1
<1> HIDE DEF row
<1>5. /\ rows' \in [Recordings -> Row] /\ (rows'[r] = rows[r] \/ rows'[r] = row)
      /\ \A q \in Recordings \ {r} : rows'[q] = rows[q]
  <2>1. CASE rows' = rows
    BY <2>1 DEF TypeOK
  <2>2. CASE rows' = [rows EXCEPT ![r] = row]
    BY <1>3, <2>2 DEF TypeOK
  <2> QED
    BY <1>4, <2>1, <2>2
<1> QED
  BY <1>1, <1>2, <1>3, <1>5

LEMMA WriteOrder ==
    ASSUME NEW d \in Seq(Command), NEW w \in Seq(Command), NEW q \in Seq(Command),
           NEW cmd \in Command, Len(w) = 1, w[1] = cmd, NEW k, Unstopped(d),
           InOrder(d, w, q), AllRead(k, d), AllRead(k, w)
    PROVE  /\ InOrder(Append(d, cmd), << >>, q) /\ InOrder(Append(d, cmd), << >>, << >>)
           /\ InOrder(d, << >>, q) /\ InOrder(d, << >>, << >>)
           /\ AllRead(k, Append(d, cmd)) /\ AllRead(k, << >>)
<1> DEFINE t == Append(d, cmd)
           e == << >>
<1>1. /\ Len(t) = Len(d) + 1 /\ Len(d) \in Nat
      /\ \A i \in 1..Len(d) : t[i] = d[i]
      /\ t[Len(d) + 1] = cmd
      /\ \A i \in 1..Len(t) : i \in 1..Len(d) \/ (i = Len(d) + 1 /\ t[i] = cmd)
  BY Appended
<1>2. 1..Len(e) = {} /\ 1 \in 1..Len(w)
  OBVIOUS
<1>3. /\ \A i \in 1..Len(d) : Before(d[i], cmd) /\ d[i].kind # "stop"
      /\ \A j \in 1..Len(q) : Before(cmd, q[j])
      /\ WasRead(k, cmd)
  BY <1>2 DEF InOrder, Unstopped, AllRead
<1>4. \A i, j \in 1..Len(t) : i < j => Before(t[i], t[j])
  BY <1>3, BeforeAppended DEF InOrder
<1> HIDE DEF t, e
<1>5. \A i, j \in 1..Len(t) : i < j => Before(t[i], t[j]) /\ t[i].kind # "stop"
  <2> SUFFICES ASSUME NEW i \in 1..Len(t), NEW j \in 1..Len(t), i < j
               PROVE  t[i].kind # "stop"
    BY <1>4
  <2>1. i \in 1..Len(d)
    BY <1>1
  <2> QED
    BY <1>1, <1>3, <2>1
<1>6. \A i \in 1..Len(t), j \in 1..Len(q) : Before(t[i], q[j])
  BY <1>1, <1>3 DEF InOrder
<1>7. InOrder(t, e, q) /\ InOrder(t, e, e) /\ InOrder(d, e, q) /\ InOrder(d, e, e)
  BY <1>2, <1>5, <1>6 DEF InOrder
<1>8. AllRead(k, t) /\ AllRead(k, e)
  BY <1>1, <1>2, <1>3 DEF AllRead
<1> QED
  BY <1>7, <1>8 DEF t, e

\* A write settles what it carries, whether it succeeds or fails.
LEMMA WriteEffect ==
    ASSUME RInv, NEW r \in Recordings, NEW cmd, cmd = writing[r][1], Write(r)
    PROVE  /\ cmd \in Command /\ writing[r] \in Seq(Command) /\ Len(writing[r]) = 1
           /\ WasRead(cursor[r], cmd)
           /\ rows' \in [Recordings -> Row] /\ saved' \in [Recordings -> Seq(Command)]
           /\ failed' \in [Recordings -> SUBSET Command] /\ faults' \in 0..MaxFaults
           /\ \A q \in Recordings \ {r} : /\ rows'[q] = rows[q] /\ saved'[q] = saved[q]
                                          /\ failed'[q] = failed[q]
           /\ \/ /\ saved'[r] = Append(saved[r], cmd) /\ failed' = failed
                 /\ rows'[r].status = IF cmd.kind = "stop" THEN "stopped" ELSE rows[r].status
                 /\ \A s \in Streams : rows'[r].dropped[s] = rows[r].dropped[s] +
                       (IF cmd.kind = "gap" /\ cmd.stream = s THEN cmd.upto - cmd.after ELSE 0)
              \/ /\ saved'[r] = saved[r] /\ failed'[r] = failed[r] \cup {cmd}
                 /\ rows'[r].status = rows[r].status /\ rows'[r].dropped = rows[r].dropped
           /\ \A s, p : Settled(r, s, p)' <=> Settled(r, s, p) \/ Carries(cmd, s, p)
<1> USE DEF RInv
<1>1. /\ writing[r] \in Seq(Command) /\ Len(writing[r]) = 1
      /\ saved[r] \in Seq(Command) /\ failed[r] \subseteq Command
  BY DEF Write, RecordingInv, Pipes, TypeOK
<1>2. cmd \in Command /\ 1 \in 1..Len(writing[r])
  BY <1>1
<1>3. WasRead(cursor[r], cmd)
  BY <1>2 DEF RecordingInv, Ordered, AllRead
<1>4. Execute(r, cmd) \/ ExecuteFails(r, cmd)
  BY DEF Write
<1>5. CASE Execute(r, cmd)
  <2>1. /\ rows' \in [Recordings -> Row]
        /\ \A q \in Recordings \ {r} : rows'[q] = rows[q]
        /\ rows'[r].status = IF cmd.kind = "stop" THEN "stopped" ELSE rows[r].status
        /\ \A s \in Streams : rows'[r].dropped[s] = rows[r].dropped[s] +
              (IF cmd.kind = "gap" /\ cmd.stream = s THEN cmd.upto - cmd.after ELSE 0)
        /\ saved' = [saved EXCEPT ![r] = Append(@, cmd)] /\ failed' = failed /\ faults' = faults
    BY <1>2, <1>3, <1>5, ExecuteRows
  <2>2. Append(saved[r], cmd) \in Seq(Command)
    BY <1>1, <1>2
  <2>3. /\ saved' \in [Recordings -> Seq(Command)] /\ saved'[r] = Append(saved[r], cmd)
        /\ \A q \in Recordings \ {r} : saved'[q] = saved[q]
    BY <2>1, <2>2 DEF TypeOK
  <2>4. \A x : x \in Range(saved'[r]) <=> x \in Range(saved[r]) \/ x = cmd
    BY <1>1, <1>2, <2>3, RangeGrows
  <2>5. ASSUME NEW s, NEW p
        PROVE  Settled(r, s, p)' <=> Settled(r, s, p) \/ Carries(cmd, s, p)
    <3>1. Settled(r, s, p)' <=> \E x \in Range(saved'[r]) \cup failed[r] : Carries(x, s, p)
      BY <2>1 DEF Settled, Carries
    <3>2. Settled(r, s, p) <=> \E x \in Range(saved[r]) \cup failed[r] : Carries(x, s, p)
      BY DEF Settled
    <3> QED
      BY <2>4, <3>1, <3>2
  <2> QED
    BY <1>1, <1>2, <1>3, <2>1, <2>3, <2>5 DEF TypeOK
<1>6. CASE ExecuteFails(r, cmd)
  <2>1. /\ rows' \in [Recordings -> Row]
        /\ \A q \in Recordings \ {r} : rows'[q] = rows[q]
        /\ rows'[r].status = rows[r].status /\ rows'[r].dropped = rows[r].dropped
        /\ saved' = saved /\ failed' = [failed EXCEPT ![r] = @ \cup {cmd}]
        /\ faults' \in 0..MaxFaults
    BY <1>2, <1>6, FailRows
  <2>2. /\ failed' \in [Recordings -> SUBSET Command] /\ failed'[r] = failed[r] \cup {cmd}
        /\ \A q \in Recordings \ {r} : failed'[q] = failed[q]
    BY <1>2, <2>1 DEF TypeOK
  <2>3. ASSUME NEW s, NEW p
        PROVE  Settled(r, s, p)' <=> Settled(r, s, p) \/ Carries(cmd, s, p)
    <3>1. Settled(r, s, p)'
             <=> \E x \in Range(saved[r]) \cup (failed[r] \cup {cmd}) : Carries(x, s, p)
      BY <2>1, <2>2 DEF Settled, Carries
    <3>2. Settled(r, s, p) <=> \E x \in Range(saved[r]) \cup failed[r] : Carries(x, s, p)
      BY DEF Settled
    <3> QED
      BY <3>1, <3>2
  <2> QED
    BY <1>1, <1>2, <1>3, <2>1, <2>2, <2>3 DEF TypeOK
<1> QED
  BY <1>4, <1>5, <1>6

LEMMA WriteStep ==
    ASSUME RInv, NEW r \in Recordings, Write(r)
    PROVE  RInv'
<1> USE DEF RInv
<1>0. PICK cmd : cmd = writing[r][1]
  OBVIOUS
<1>1. /\ cmd \in Command /\ writing[r] \in Seq(Command) /\ Len(writing[r]) = 1
      /\ rows' \in [Recordings -> Row] /\ saved' \in [Recordings -> Seq(Command)]
      /\ failed' \in [Recordings -> SUBSET Command] /\ faults' \in 0..MaxFaults
      /\ \A q \in Recordings \ {r} : /\ rows'[q] = rows[q] /\ saved'[q] = saved[q]
                                     /\ failed'[q] = failed[q]
  BY <1>0, WriteEffect
<1>2. \/ /\ saved'[r] = Append(saved[r], cmd) /\ failed' = failed
         /\ rows'[r].status = IF cmd.kind = "stop" THEN "stopped" ELSE rows[r].status
         /\ \A s \in Streams : rows'[r].dropped[s] = rows[r].dropped[s] +
               (IF cmd.kind = "gap" /\ cmd.stream = s THEN cmd.upto - cmd.after ELSE 0)
      \/ /\ saved'[r] = saved[r] /\ failed'[r] = failed[r] \cup {cmd}
         /\ rows'[r].status = rows[r].status /\ rows'[r].dropped = rows[r].dropped
  BY <1>0, WriteEffect
<1>3. WasRead(cursor[r], cmd) /\ \A s, p : Settled(r, s, p)' <=> Settled(r, s, p) \/ Carries(cmd, s, p)
  BY <1>0, WriteEffect
<1>4. /\ up /\ writer[r] = "writing" /\ writing' = [writing EXCEPT ![r] = << >>]
      /\ UNCHANGED <<env, start, cursor, task, cancelled, active, atStop, calls, crashes, up>>
      /\ \/ /\ cmd.kind = "stop" /\ writer' = [writer EXCEPT ![r] = "done"]
            /\ queue' = [queue EXCEPT ![r] = << >>]
            /\ ack' = [ack EXCEPT ![r] = IF failed' = failed THEN "ok" ELSE "failed"]
         \/ /\ cmd.kind # "stop" /\ writer' = [writer EXCEPT ![r] = "receiving"]
            /\ queue' = queue /\ ack' = ack
  BY <1>0 DEF Write, Finish
<1>5. TypeOK'
  <2>1. << >> \in Seq(Command)
    OBVIOUS
  <2>2. /\ writing' \in [Recordings -> Seq(Command)] /\ queue' \in [Recordings -> Seq(Command)]
        /\ writer' \in [Recordings -> {"none", "receiving", "writing", "done"}]
        /\ ack' \in [Recordings -> {"none", "ok", "failed"}]
    <3>1. writing' \in [Recordings -> Seq(Command)]
      BY <1>4, <2>1 DEF TypeOK
    <3>2. queue' \in [Recordings -> Seq(Command)]
      <4>1. queue' = queue \/ queue' = [queue EXCEPT ![r] = << >>]
        BY <1>4
      <4> QED
        BY <2>1, <4>1 DEF TypeOK
    <3>3. writer' \in [Recordings -> {"none", "receiving", "writing", "done"}]
      <4>1. writer' = [writer EXCEPT ![r] = "receiving"] \/ writer' = [writer EXCEPT ![r] = "done"]
        BY <1>4
      <4> QED
        BY <4>1 DEF TypeOK
    <3>4. ack' \in [Recordings -> {"none", "ok", "failed"}]
      BY <1>4 DEF TypeOK
    <3> QED
      BY <3>1, <3>2, <3>3, <3>4
  <2> QED
    BY <1>1, <1>4, <2>2 DEF TypeOK, env, start, calls
<1>6. \A q \in Recordings \ {r} : Same(q) /\ since'[q] = since[q]
  BY <1>1, <1>4 DEF TypeOK, Same, start
<1>7. BroadcastInv' /\ CursorInv'
  BY <1>4, EnvSame
<1>8. RecordingInv(r)'
  <2>1. /\ phase[r] \notin Early /\ ack[r] = "none" /\ Unstopped(saved[r]) /\ Stopping \notin failed[r]
        /\ saved[r] \in Seq(Command) /\ queue[r] \in Seq(Command) /\ ack'[r] \in {"none", "ok", "failed"}
        /\ writing'[r] = << >>
    <3>1. Shape(r) /\ Pipes(r)
      BY DEF RecordingInv
    <3>2. phase[r] \notin Early
      <4>1. writing[r] # << >>
        <5> SUFFICES ASSUME writing[r] = << >> PROVE FALSE
          OBVIOUS
        <5>1. Len(writing[r]) = 0
          OBVIOUS
        <5>2. Len(writing[r]) = 1
          BY <1>1
        <5> QED
          BY <5>1, <5>2
      <4> QED
        BY <3>1, <4>1 DEF Shape, Quiet
    <3>3. ack[r] = "none" /\ Unstopped(saved[r]) /\ Stopping \notin failed[r]
      BY <1>4, <3>1 DEF Pipes
    <3>4. /\ saved[r] \in Seq(Command) /\ queue[r] \in Seq(Command)
          /\ ack'[r] \in {"none", "ok", "failed"} /\ writing'[r] = << >>
      BY <1>4, <1>5 DEF TypeOK
    <3> QED
      BY <3>2, <3>3, <3>4
  <2>2. /\ Unstopped(writing[r]) <=> cmd.kind # "stop"
        /\ \A s, p : Has(writing[r], s, p) <=> Carries(cmd, s, p)
    BY <1>0, <1>1 DEF Unstopped, Has
  <2>3. /\ Unstopped(<< >>) /\ \A s, p : ~Has(<< >>, s, p)
        /\ Len(<< >>) = 0 /\ 1..0 = {}
    BY DEF Unstopped, Has
  <2>4. \A s, p : /\ Owed(r, s, p)' <=> Owed(r, s, p)
                  /\ OwedAtStop(r, s, p)' <=> OwedAtStop(r, s, p)
    BY <1>4 DEF Owed, OwedAtStop, env, start
  <2>5. Counted(r)'
    <3>1. \A i \in 1..Len(saved[r]) : Before(saved[r][i], cmd)
      <4>1. 1 \in 1..Len(writing[r])
        BY <1>1
      <4> QED
        BY <1>0, <4>1 DEF RecordingInv, Ordered, InOrder
    <3>2. ASSUME NEW s \in Streams PROVE rows'[r].dropped[s] = Cardinality(GapSet(saved'[r], s))
      <4>1. rows[r].dropped[s] = Cardinality(GapSet(saved[r], s))
        BY DEF RecordingInv, Counted, GapSet
      <4>2. CASE saved'[r] = saved[r] /\ rows'[r].dropped = rows[r].dropped
        BY <4>1, <4>2
      <4>3. CASE /\ saved'[r] = Append(saved[r], cmd)
                 /\ rows'[r].dropped[s] = rows[r].dropped[s] +
                      (IF cmd.kind = "gap" /\ cmd.stream = s THEN cmd.upto - cmd.after ELSE 0)
        <5>1. Cardinality(GapSet(saved'[r], s)) = Cardinality(GapSet(saved[r], s)) +
                 (IF cmd.kind = "gap" /\ cmd.stream = s THEN cmd.upto - cmd.after ELSE 0)
          <6> DEFINE d == saved[r]
          <6>1. Data(cmd) => First(cmd) <= Last(cmd)
            BY <1>3 DEF WasRead
          <6>2. d \in Seq(Command) /\ \A i \in 1..Len(d) : Before(d[i], cmd)
            BY <2>1, <3>1
          <6> HIDE DEF d
          <6>3. Cardinality(GapSet(Append(d, cmd), s)) = Cardinality(GapSet(d, s)) +
                   (IF cmd.kind = "gap" /\ cmd.stream = s THEN cmd.upto - cmd.after ELSE 0)
            BY <1>1, <6>1, <6>2, GapCount
          <6> QED
            BY <4>3, <6>3 DEF d
        <5> QED
          BY <4>1, <4>3, <5>1
      <4> QED
        BY <1>2, <4>2, <4>3
    <3> QED
      BY <3>2 DEF Counted, GapSet, Carries
  <2>6. Ordered(r)'
    <3> DEFINE d == saved[r]
               w == writing[r]
               q == queue[r]
               k == cursor[r]
    <3>1. /\ InOrder(d, w, q) /\ AllRead(k, d) /\ AllRead(k, w) /\ AllRead(k, q) /\ Unstopped(d)
          /\ d \in Seq(Command) /\ w \in Seq(Command) /\ q \in Seq(Command) /\ Len(w) = 1 /\ w[1] = cmd
      BY <1>0, <1>1, <2>1 DEF RecordingInv, Ordered
    <3>2. /\ saved'[r] = d \/ saved'[r] = Append(d, cmd)
          /\ writing'[r] = << >> /\ cursor'[r] = k
          /\ queue'[r] = q \/ queue'[r] = << >>
      BY <1>2, <1>4, <2>1 DEF TypeOK
    <3> HIDE DEF d, w, q, k
    <3>3. /\ InOrder(Append(d, cmd), << >>, q) /\ InOrder(Append(d, cmd), << >>, << >>)
          /\ InOrder(d, << >>, q) /\ InOrder(d, << >>, << >>)
          /\ AllRead(k, Append(d, cmd)) /\ AllRead(k, << >>)
      BY <1>1, <3>1, WriteOrder
    <3> QED
      BY <3>1, <3>2, <3>3 DEF Ordered
  <2>7. CASE cmd.kind # "stop"
    <3>1. writer'[r] = "receiving" /\ queue'[r] = queue[r] /\ ack'[r] = "none"
      BY <1>4, <2>1, <2>7 DEF TypeOK
    <3>2. rows'[r].status = rows[r].status
      BY <1>2, <2>7
    <3>3. Shape(r)'
      BY <1>4, <2>1, <2>2, <2>3, <2>7, <3>1
         DEF RecordingInv, Shape, Untold, start, LiveWriter, Unstopped, Early
    <3>4. Pipes(r)'
      <4>1. Unstopped(saved'[r])
        BY <1>1, <1>2, <2>1, <2>7, HasAppended
      <4>2. Stopping \notin failed'[r]
        <5>1. cmd # Stopping
          BY <2>7 DEF Stopping
        <5> QED
          BY <1>2, <2>1, <5>1
      <4> QED
        BY <2>1, <2>3, <3>1, <4>1, <4>2 DEF Pipes, LiveWriter, Unstopped
    <3>5. Attended(r)'
      BY <3>1 DEF Attended
    <3>6. ASSUME NEW s \in Streams, NEW p \in Positions
          PROVE  InFlight(r, s, p) \/ Settled(r, s, p) => InFlight(r, s, p)' \/ Settled(r, s, p)'
      <4>1. InFlight(r, s, p) <=> Has(queue[r], s, p) \/ Has(writing[r], s, p)
        BY InFlightWhere
      <4>2. \A x : /\ x \in Range(queue'[r] \o writing'[r]) <=> x \in Range(queue'[r]) \/ x \in Range(writing'[r])
                   /\ x \in Range(queue[r]) <=> \E i \in 1..Len(queue[r]) : x = queue[r][i]
        <5>1. queue'[r] \in Seq(Command) /\ writing'[r] \in Seq(Command)
          BY <1>5 DEF TypeOK
        <5> QED
          BY <2>1, <5>1, RangeOfBoth, InRange
      <4>3. InFlight(r, s, p)' <=> \E x \in Range(queue'[r] \o writing'[r]) : Carries(x, s, p)
        BY DEF InFlight, Carries
      <4>4. Has(queue[r], s, p) => InFlight(r, s, p)'
        BY <3>1, <4>2, <4>3 DEF Has
      <4> QED
        BY <1>3, <2>2, <4>1, <4>4
    <3>7. Conserved(r)'
      BY <1>4, <2>1, <2>4, <3>6 DEF RecordingInv, Conserved, start
    <3>8. Flushing(r)'
      <4>1. \A i \in 1..Len(queue'[r]) : queue'[r][i].kind = "stop" =>
                \A s \in Streams, p \in Positions : OwedAtStop(r, s, p)' =>
                    Settled(r, s, p)' \/ Ahead(queue'[r], i, s, p) \/ Has(writing'[r], s, p)
        BY <1>3, <2>2, <2>4, <3>1 DEF RecordingInv, Flushing
      <4>2. /\ Unstopped(writing'[r]) /\ ack'[r] # "ok"
            /\ \A s \in Streams : atStop'[r][s] <= cursor'[r][s]
        BY <1>4, <2>1, <2>3, <3>1 DEF RecordingInv, Flushing
      <4> QED
        BY <4>1, <4>2 DEF Flushing, Ahead, Has, Unstopped, Carries
    <3> QED
      BY <2>5, <2>6, <3>3, <3>4, <3>5, <3>7, <3>8 DEF RecordingInv
  <2>8. CASE cmd.kind = "stop"
    <3>1. /\ writer'[r] = "done" /\ queue'[r] = << >>
          /\ ack'[r] = IF failed' = failed THEN "ok" ELSE "failed"
      BY <1>4, <2>8 DEF TypeOK
    <3>2. phase[r] # "spawned" /\ r \notin active /\ (phase[r] = "dead" => task[r] # "receiving")
      BY <2>2, <2>8 DEF RecordingInv, Shape, Untold
    <3>3. Shape(r)'
      BY <1>4, <2>1, <3>1, <3>2 DEF RecordingInv, Shape, start, LiveWriter, Early
    <3>4. /\ ack'[r] = "ok" /\ rows'[r].status = "stopped"
          \/ ack'[r] = "failed"
      <4>1. cmd = Stopping
        BY <1>1, <2>8, CommandForms
      <4> QED
        BY <1>2, <2>1, <2>8, <3>1, <4>1
    <3>5. Pipes(r)' /\ Attended(r)'
      BY <2>1, <2>3, <3>1, <3>4 DEF Pipes, Attended, LiveWriter
    <3>6. Conserved(r)'
      BY <1>4, <2>1, <3>1 DEF Conserved, start
    <3>7. Flushing(r)'
      <4>1. \A s \in Streams, p \in Positions : OwedAtStop(r, s, p)' => Settled(r, s, p)'
        BY <1>3, <2>2, <2>4, <2>8 DEF RecordingInv, Flushing
      <4>2. \A s \in Streams : atStop'[r][s] <= cursor'[r][s]
        BY <1>4 DEF RecordingInv, Flushing
      <4> QED
        BY <2>3, <3>1, <4>1, <4>2 DEF Flushing
    <3> QED
      BY <2>5, <2>6, <3>3, <3>5, <3>6, <3>7 DEF RecordingInv
  <2> QED
    BY <2>7, <2>8
<1> QED
  BY <1>4, <1>5, <1>6, <1>7, <1>8, OneRecording DEF env

-----------------------------------------------------------------------------
(* stop and stop_all. *)

LEMMA CallTypes ==
    ASSUME TypeOK, NEW c \in Callers,
           \/ \E r \in Recordings : StopCall(c, r) \/ Lock(c, r)
           \/ StopAllCall(c) \/ Flushed(c) \/ Read(c)
    PROVE  /\ pc' \in [Callers -> {"idle", "locking", "flushing", "reading"}]
           /\ todo' \in [Callers -> SUBSET Recordings]
           /\ target' \in [Callers -> Recordings]
           /\ answer' \in [Callers -> {"none", "active", "final", "error"}]
<1> USE DEF TypeOK
<1>1. ASSUME NEW r \in Recordings, StopCall(c, r)
      PROVE  /\ pc' \in [Callers -> {"idle", "locking", "flushing", "reading"}]
             /\ todo' \in [Callers -> SUBSET Recordings]
             /\ target' \in [Callers -> Recordings]
             /\ answer' \in [Callers -> {"none", "active", "final", "error"}]
  BY <1>1 DEF StopCall
<1>2. ASSUME NEW r \in Recordings, Lock(c, r)
      PROVE  /\ pc' \in [Callers -> {"idle", "locking", "flushing", "reading"}]
             /\ todo' \in [Callers -> SUBSET Recordings]
             /\ target' \in [Callers -> Recordings]
             /\ answer' \in [Callers -> {"none", "active", "final", "error"}]
  <2>1. /\ todo' = [todo EXCEPT ![c] = @ \ {r}] /\ target' = [target EXCEPT ![c] = r]
        /\ pc' = [pc EXCEPT ![c] = "flushing"] \/ pc' = [pc EXCEPT ![c] = "reading"]
        /\ answer' = answer
    BY <1>2 DEF Lock
  <2>2. pc' \in [Callers -> {"idle", "locking", "flushing", "reading"}]
    BY <2>1
  <2> QED
    BY <2>1, <2>2
<1>3. CASE StopAllCall(c)
  BY <1>3 DEF StopAllCall
<1>4. CASE Flushed(c)
  <2>1. Resume(c) \in {"idle", "locking"}
    BY DEF Resume
  <2>2. /\ todo' = todo /\ target' = target
        /\ pc' = [pc EXCEPT ![c] = "reading"] \/ pc' = [pc EXCEPT ![c] = Resume(c)]
        /\ answer' = answer \/ answer' = [answer EXCEPT ![c] = "error"]
    BY <1>4 DEF Flushed
  <2>3. pc' \in [Callers -> {"idle", "locking", "flushing", "reading"}]
    BY <2>1, <2>2
  <2>4. answer' \in [Callers -> {"none", "active", "final", "error"}]
    BY <2>2
  <2> QED
    BY <2>2, <2>3, <2>4
<1>5. CASE Read(c)
  <2>1. Resume(c) \in {"idle", "locking"}
    BY DEF Resume
  <2> QED
    BY <1>5, <2>1 DEF Read
<1> QED
  BY <1>1, <1>2, <1>3, <1>4, <1>5

\* A call that takes nothing off the map.
LEMMA CallStepInv ==
    ASSUME RInv, NEW c \in Callers,
           \/ \E r \in Recordings : StopCall(c, r) \/ (Lock(c, r) /\ r \notin active)
           \/ StopAllCall(c) \/ Flushed(c) \/ Read(c)
    PROVE  RInv'
<1> USE DEF RInv
<1>1. UNCHANGED <<env, start, pipeline, database, active, atStop, bounds>>
  <2>1. ASSUME NEW r \in Recordings, Lock(c, r), r \notin active
        PROVE  UNCHANGED <<env, start, pipeline, database, active, atStop, bounds>>
    BY <2>1 DEF Lock, pipeline
  <2> QED
    BY <2>1 DEF StopCall, StopAllCall, Flushed, Read
<1>2. TypeOK'
  <2>1. /\ pc' \in [Callers -> {"idle", "locking", "flushing", "reading"}]
        /\ todo' \in [Callers -> SUBSET Recordings]
        /\ target' \in [Callers -> Recordings]
        /\ answer' \in [Callers -> {"none", "active", "final", "error"}]
    BY CallTypes
  <2> QED
    BY <1>1, <2>1 DEF TypeOK, env, start, pipeline, database, bounds
<1>3. \A r \in Recordings : Same(r) /\ OwedSame(r)
  BY <1>1, SameHere, OwedSameHere DEF env, start
<1>4. BroadcastInv' /\ CursorInv'
  BY <1>1, EnvSame DEF pipeline
<1> QED
  BY <1>1, <1>2, <1>3, <1>4, NoRecording DEF bounds

\* The stop goes behind all that the task has read.
LEMMA LockStep ==
    ASSUME RInv, NEW c \in Callers, NEW r \in Recordings, Lock(c, r), r \in active
    PROVE  RInv'
<1> USE DEF RInv
<1>1. /\ active' = active \ {r} /\ cancelled' = cancelled \cup {r} /\ Enqueue(r, Stopping)
      /\ atStop' = [atStop EXCEPT ![r] = cursor[r]]
      /\ UNCHANGED <<env, start, cursor, task, writer, writing, ack, database, bounds>>
  BY DEF Lock
<1>2. Stopping \in Command /\ Stopping.kind = "stop"
  BY DEF Command, Stopping
<1>3. /\ queue' \in [Recordings -> Seq(Command)] /\ queue'[r] = Append(queue[r], Stopping)
      /\ \A q \in Recordings \ {r} : queue'[q] = queue[q]
  BY <1>1, <1>2, QueueType
<1>4. TypeOK'
  <2>1. /\ pc' \in [Callers -> {"idle", "locking", "flushing", "reading"}]
        /\ todo' \in [Callers -> SUBSET Recordings]
        /\ target' \in [Callers -> Recordings]
        /\ answer' \in [Callers -> {"none", "active", "final", "error"}]
    BY CallTypes
  <2>2. atStop' \in [Recordings -> [Streams -> Positions]] /\ cancelled' \subseteq Recordings
        /\ active' \subseteq Recordings
    BY <1>1 DEF TypeOK
  <2> QED
    BY <1>1, <1>3, <2>1, <2>2 DEF TypeOK, env, start, database, bounds
<1>5. \A q \in Recordings \ {r} : Same(q) /\ since'[q] = since[q]
  BY <1>1, <1>3 DEF Same, start, database, TypeOK
<1>6. BroadcastInv' /\ CursorInv'
  BY <1>1, EnvSame
<1>7. RecordingInv(r)'
  <2>1. /\ Untold(r) /\ phase[r] = "recording" /\ Behind(r) /\ atStop'[r] = cursor[r]
        /\ queue[r] \in Seq(Command) /\ writing[r] \in Seq(Command)
    BY <1>1 DEF RecordingInv, Shape, Behind, database, TypeOK
  <2>2. Shape(r)'
    BY <1>1, <2>1 DEF RecordingInv, Shape, Untold, start, Early
  <2>3. Pipes(r)'
    BY <1>1, <2>1 DEF RecordingInv, Pipes, Untold, LiveWriter, database, Unstopped
  <2>4. Ordered(r)'
    <3>1. New(cursor[r], Stopping) /\ WasRead(cursor[r], Stopping)
      BY <1>2 DEF New, WasRead, Data
    <3> QED
      BY <1>1, <1>2, <1>3, <1>4, <2>1, <3>1, CursorOf, EnqueueOrdered DEF RecordingInv
  <2>5. Counted(r)' /\ Attended(r)'
    BY <1>1, CountedSame DEF RecordingInv, Attended, database, bounds
  <2>6. \A s \in Streams, p \in Positions : ~Carries(Stopping, s, p)
    BY <1>2 DEF Carries
  <2>7. ASSUME NEW s \in Streams, NEW p \in Positions
        PROVE  /\ InFlight(r, s, p)' <=> InFlight(r, s, p)
               /\ Settled(r, s, p)' <=> Settled(r, s, p)
               /\ Owed(r, s, p)' <=> Owed(r, s, p)
               /\ OwedAtStop(r, s, p)' <=> Owed(r, s, p) /\ p <= cursor[r][s]
    <3>1. /\ InFlight(r, s, p)' <=> InFlight(r, s, p)
          /\ Settled(r, s, p)' <=> Settled(r, s, p)
      BY <1>2, <1>3, <1>4, <2>1, <2>6, FlightGrows
    <3>2. Owed(r, s, p)' <=> Owed(r, s, p)
      BY <1>1 DEF Owed, env, start
    <3> QED
      BY <2>1, <3>1, <3>2 DEF OwedAtStop
  <2>8. Conserved(r)'
    BY <1>1, <2>1, <2>7 DEF RecordingInv, Conserved, start, Early
  <2>9. Flushing(r)'
    <3> DEFINE t == queue'[r]
               n == Len(queue[r])
    <3>1. /\ \A i \in 1..Len(t) : i \in 1..n \/ i = n + 1
          /\ \A i \in 1..n : t[i] = queue[r][i]
      BY <1>2, <1>3, <2>1, Appended
    <3>2. ASSUME NEW i \in 1..Len(t), t[i].kind = "stop",
                 NEW s \in Streams, NEW p \in Positions, Owed(r, s, p), p <= cursor[r][s]
          PROVE  Settled(r, s, p) \/ Ahead(t, i, s, p) \/ Has(writing[r], s, p)
      <4>1. i = n + 1
        BY <2>1, <3>1, <3>2 DEF Untold, Unstopped
      <4>2. Ahead(t, i, s, p) <=> Has(queue[r], s, p)
        <5>1. Ahead(Append(queue[r], Stopping), Len(queue[r]) + 1, s, p) <=> Has(queue[r], s, p)
          BY <1>2, <2>1, HasAppended
        <5> QED
          BY <1>3, <4>1, <5>1
      <4>3. InFlight(r, s, p) <=> Has(queue[r], s, p) \/ Has(writing[r], s, p)
        BY InFlightWhere
      <4>4. InFlight(r, s, p) \/ Settled(r, s, p)
        BY <2>1, <3>2 DEF RecordingInv, Conserved, Untold, LiveWriter
      <4> QED
        BY <4>2, <4>3, <4>4
    <3>3. writing'[r] = writing[r] /\ Unstopped(writing'[r]) /\ ack'[r] # "ok"
      BY <1>1, <2>1 DEF Untold
    <3>4. \A i \in 1..Len(queue'[r]) : queue'[r][i].kind = "stop" =>
              \A s \in Streams, p \in Positions : OwedAtStop(r, s, p)' =>
                  Settled(r, s, p)' \/ Ahead(queue'[r], i, s, p) \/ Has(writing'[r], s, p)
      BY <2>7, <3>2, <3>3
    <3>5. \A s \in Streams : atStop'[r][s] <= cursor'[r][s]
      BY <1>1, <2>1, CursorOf
    <3> QED
      BY <3>3, <3>4, <3>5 DEF Flushing, Ahead, Has, Unstopped, Carries
  <2> QED
    BY <2>2, <2>3, <2>4, <2>5, <2>8, <2>9 DEF RecordingInv
<1> QED
  BY <1>1, <1>4, <1>5, <1>6, <1>7, OneRecording DEF env, bounds

-----------------------------------------------------------------------------
(* Crashes and restarts. *)

LEMMA CrashStep ==
    ASSUME RInv, Crash
    PROVE  RInv'
<1> USE DEF RInv
<1>1. /\ up' = FALSE /\ active' = {}
      /\ UNCHANGED <<env, since, cursor, cancelled, ack, database, atStop, target, faults>>
      /\ \A r \in Recordings :
            /\ phase'[r] = IF phase[r] = "none" THEN "none" ELSE "dead"
            /\ task'[r] = IF task[r] = "none" THEN "none" ELSE "done"
            /\ writer'[r] = IF writer[r] = "none" THEN "none" ELSE "done"
            /\ queue'[r] = << >> /\ writing'[r] = << >>
  BY DEF Crash
<1>2. TypeOK'
  <2>1. crashes' \in 0..MaxCrashes
    <3>1. /\ crashes \in 0..MaxCrashes /\ crashes < MaxCrashes /\ crashes' = crashes + 1
          /\ MaxCrashes \in Nat
      BY RecorderAssumption DEF Crash, TypeOK
    <3> QED
      BY <3>1
  <2>2. /\ phase' \in [Recordings -> {"none", "subscribed", "seen", "opened", "described",
                                      "spawned", "recording", "failed", "dead"}]
        /\ task' \in [Recordings -> {"none", "receiving", "done"}]
        /\ writer' \in [Recordings -> {"none", "receiving", "writing", "done"}]
    BY DEF Crash
  <2>3. queue' \in [Recordings -> Seq(Command)] /\ writing' \in [Recordings -> Seq(Command)]
    BY DEF Crash
  <2>4. /\ pc' \in [Callers -> {"idle", "locking", "flushing", "reading"}]
        /\ todo' \in [Callers -> SUBSET Recordings]
        /\ answer' \in [Callers -> {"none", "active", "final", "error"}]
    BY DEF Crash
  <2> QED
    BY <1>1, <2>1, <2>2, <2>3, <2>4 DEF TypeOK, env, database
<1>3. BroadcastInv' /\ CursorInv'
  BY <1>1, EnvSame
<1>4. ASSUME NEW r \in Recordings PROVE RecordingInv(r)'
  <2>1. /\ phase'[r] = "none" \/ phase'[r] = "dead"
        /\ task'[r] # "receiving" /\ writer'[r] \notin LiveWriter /\ r \notin active'
        /\ queue'[r] = << >> /\ writing'[r] = << >>
        /\ Len(queue'[r]) = 0 /\ Len(writing'[r]) = 0 /\ 1..0 = {}
    BY <1>1 DEF LiveWriter
  <2>2. Shape(r)'
    <3>1. CASE phase[r] = "none"
      <4>1. Quiet(r) /\ writer[r] = "none" /\ rows[r].status = "none"
        BY <3>1 DEF RecordingInv, Shape, Early
      <4>2. Quiet(r)'
        BY <1>1, <2>1, <4>1 DEF Quiet, database
      <4> QED
        BY <1>1, <2>1, <3>1, <4>1, <4>2 DEF Shape, database
    <3>2. CASE phase[r] # "none"
      <4>1. phase'[r] = "dead"
        BY <1>1, <3>2
      <4> QED
        BY <2>1, <4>1 DEF Shape, Early
    <3> QED
      BY <3>1, <3>2
  <2>3. Pipes(r)'
    <3>1. /\ writer'[r] # "done" => writer[r] = "none"
          /\ writer[r] = "done" => writer'[r] = "done"
          /\ writer'[r] # "writing"
      BY <1>1
    <3> QED
      BY <1>1, <2>1, <3>1 DEF RecordingInv, Pipes, database, Unstopped
  <2>4. Ordered(r)'
    BY <1>1, <2>1 DEF RecordingInv, Ordered, InOrder, AllRead, database
  <2>5. Counted(r)' /\ Attended(r)'
    BY <1>1, CountedSame DEF RecordingInv, Attended, database
  <2>6. Conserved(r)'
    BY <2>1 DEF Conserved, Early
  <2>7. Flushing(r)'
    <3>1. \A s, p : /\ Settled(r, s, p)' <=> Settled(r, s, p)
                    /\ OwedAtStop(r, s, p)' <=> OwedAtStop(r, s, p)
      BY <1>1 DEF Settled, Owed, OwedAtStop, env, database, Carries
    <3> QED
      BY <1>1, <2>1, <3>1 DEF RecordingInv, Flushing, Unstopped
  <2> QED
    BY <2>2, <2>3, <2>4, <2>5, <2>6, <2>7 DEF RecordingInv
<1> QED
  BY <1>2, <1>3, <1>4

\* What the restart does to a row.
Closed(r) ==
    IF rows[r].status = "active"
    THEN [rows[r] EXCEPT !.status = "stopped", !.errors = @ + 1, !.interrupted = TRUE]
    ELSE rows[r]

LEMMA RecoverStep ==
    ASSUME RInv, Recover, up' \in BOOLEAN
    PROVE  RInv'
<1> USE DEF RInv
<1>1. /\ rows' = [r \in Recordings |-> Closed(r)]
      /\ UNCHANGED <<env, start, pipeline, saved, failed, active, atStop, calls, faults, crashes>>
  BY DEF Recover, Closed
<1>2. ASSUME NEW r \in Recordings
      PROVE  /\ Closed(r) \in Row /\ Closed(r).dropped = rows[r].dropped
             /\ Closed(r).status = IF rows[r].status = "active" THEN "stopped" ELSE rows[r].status
  <2>1. rows[r] \in Row
    BY DEF TypeOK
  <2>2. CASE rows[r].status = "active"
    <3> DEFINE row == [rows[r] EXCEPT !.status = "stopped", !.errors = @ + 1, !.interrupted = TRUE]
    <3>1. rows[r].errors + 1 \in Nat
      BY <2>1 DEF Row
    <3>2. row \in Row /\ row.dropped = rows[r].dropped /\ row.status = "stopped"
      BY <2>1, <3>1 DEF Row
    <3>3. Closed(r) = row
      BY <2>2 DEF Closed
    <3> HIDE DEF row
    <3> QED
      BY <2>2, <3>2, <3>3
  <2>3. CASE rows[r].status # "active"
    BY <2>1, <2>3 DEF Closed
  <2> QED
    BY <2>2, <2>3
<1>3. TypeOK'
  <2>1. rows' \in [Recordings -> Row]
    BY <1>1, <1>2
  <2> QED
    BY <1>1, <2>1 DEF TypeOK, env, start, pipeline, calls
<1>4. BroadcastInv' /\ CursorInv'
  BY <1>1, EnvSame DEF pipeline
<1>5. ASSUME NEW r \in Recordings PROVE RecordingInv(r)'
  <2>1. /\ rows'[r].dropped = rows[r].dropped
        /\ rows'[r].status = IF rows[r].status = "active" THEN "stopped" ELSE rows[r].status
    BY <1>1, <1>2
  <2>2. Shape(r)'
    BY <1>1, <2>1 DEF RecordingInv, Shape, Quiet, Untold, start, pipeline, Unstopped
  <2>3. Pipes(r)'
    BY <1>1, <2>1 DEF RecordingInv, Pipes, pipeline, Unstopped
  <2>4. Ordered(r)'
    BY <1>1 DEF RecordingInv, Ordered, pipeline
  <2>5. Counted(r)' /\ Attended(r)'
    BY <1>1, <2>1, CountedSame DEF RecordingInv, Attended
  <2>6. /\ queue'[r] = queue[r] /\ writing'[r] = writing[r]
        /\ saved'[r] = saved[r] /\ failed'[r] = failed[r]
    BY <1>1 DEF pipeline
  <2>7. \A s, p : /\ InFlight(r, s, p)' <=> InFlight(r, s, p)
                  /\ Settled(r, s, p)' <=> Settled(r, s, p)
                  /\ Owed(r, s, p)' <=> Owed(r, s, p)
                  /\ OwedAtStop(r, s, p)' <=> OwedAtStop(r, s, p)
    BY <1>1, <2>6, SameFlight DEF Owed, OwedAtStop, env, start
  <2>8. Conserved(r)'
    BY <1>1, <2>7 DEF RecordingInv, Conserved, pipeline, start
  <2>9. Flushing(r)'
    BY <1>1, <2>7 DEF RecordingInv, Flushing, pipeline, Ahead, Has, Unstopped, Carries
  <2> QED
    BY <2>2, <2>3, <2>4, <2>5, <2>8, <2>9 DEF RecordingInv
<1> QED
  BY <1>3, <1>4, <1>5

-----------------------------------------------------------------------------
(* The invariant. *)

LEMMA InitRInv == Init => RInv
<1> SUFFICES ASSUME Init PROVE RInv
  OBVIOUS
<1>1. Zero \in [Streams -> Positions] /\ \A s \in Streams : Zero[s] = 0
  BY Numbers DEF Zero
<1>2. NoRow \in Row /\ NoRow.status = "none" /\ \A s \in Streams : NoRow.dropped[s] = 0
  BY DEF NoRow, Row
<1>3. << >> \in Seq(Command) /\ << >> \in Seq(Positions) /\ Len(<< >>) = 0 /\ 1..0 = {}
  OBVIOUS
<1>4. TypeOK
  <2>1. /\ applied \in [Streams -> Positions] /\ sent \in [Streams -> Seq(Positions)]
        /\ since \in [Recordings -> [Streams -> Positions]]
        /\ cursor \in [Recordings -> [Streams -> Positions]]
        /\ atStop \in [Recordings -> [Streams -> Positions]]
    BY <1>1, <1>3 DEF Init
  <2>2. /\ queue \in [Recordings -> Seq(Command)] /\ writing \in [Recordings -> Seq(Command)]
        /\ saved \in [Recordings -> Seq(Command)] /\ failed \in [Recordings -> SUBSET Command]
        /\ rows \in [Recordings -> Row]
    BY <1>2, <1>3 DEF Init
  <2>3. faults \in 0..MaxFaults /\ crashes \in 0..MaxCrashes /\ up \in BOOLEAN
    BY RecorderAssumption DEF Init
  <2> QED
    BY <2>1, <2>2, <2>3 DEF TypeOK, Init
<1>5. ASSUME NEW s \in Streams
      PROVE  Len(sent[s]) = 0 /\ LastSent(s) = 0 /\ applied[s] = 0
  <2>1. sent[s] = << >> /\ applied[s] = 0
    BY <1>1 DEF Init
  <2>2. {p \in 1..Len(sent[s]) : sent[s][p] # Foreign} = {}
    BY <1>3, <2>1
  <2> QED
    BY <1>3, <2>1, <2>2, FS_EmptySet DEF LastSent
<1>6. BroadcastInv
  BY <1>3, <1>5, Numbers DEF BroadcastInv
<1>7. CursorInv
  BY <1>1, <1>5 DEF CursorInv, Init
<1>8. ASSUME NEW r \in Recordings PROVE RecordingInv(r)
  <2>1. /\ phase[r] = "none" /\ task[r] = "none" /\ writer[r] = "none" /\ ack[r] = "none"
        /\ queue[r] = << >> /\ writing[r] = << >> /\ saved[r] = << >> /\ failed[r] = {}
        /\ r \notin active /\ r \notin cancelled /\ rows[r] = NoRow
        /\ cursor[r] = Zero /\ atStop[r] = Zero
    BY DEF Init
  <2>2. Shape(r) /\ Quiet(r)
    BY <1>2, <2>1 DEF Shape, Quiet, Early
  <2>3. Pipes(r)
    BY <1>3, <2>1 DEF Pipes, LiveWriter, Unstopped
  <2>4. Ordered(r)
    BY <1>3, <2>1 DEF Ordered, InOrder, AllRead
  <2>5. Counted(r)
    <3>1. \A x : x \notin Range(saved[r])
      BY <1>3, <2>1, InRange
    <3>2. \A s : {p \in Positions : \E cmd \in Range(saved[r]) :
                     cmd.kind = "gap" /\ Carries(cmd, s, p)} = {}
      BY <3>1
    <3> QED
      BY <1>2, <2>1, <3>2, FS_EmptySet DEF Counted
  <2>6. Conserved(r)
    BY <2>1 DEF Conserved, Early
  <2>7. Flushing(r)
    BY <1>1, <1>3, <2>1 DEF Flushing, Unstopped
  <2>8. Attended(r)
    BY <1>2, <2>1 DEF Attended
  <2> QED
    BY <2>2, <2>3, <2>4, <2>5, <2>6, <2>7, <2>8 DEF RecordingInv
<1> QED
  BY <1>4, <1>6, <1>7, <1>8 DEF RInv

LEMMA StepRInv == RInv /\ [Next]_vars => RInv'
<1> SUFFICES ASSUME RInv, [Next]_vars PROVE RInv'
  OBVIOUS
<1>1. ASSUME NEW s \in Streams, Change(s) \/ Broadcast(s) \/ BroadcastForeign(s) PROVE RInv'
  BY <1>1, ChangeStep, SendStep
<1>2. ASSUME NEW r \in Recordings, Subscribe(r) \/ StartFails(r) \/ StartStep(r) PROVE RInv'
  <2>1. CASE Subscribe(r)
    BY <2>1, SubscribeStep
  <2>2. CASE Snapshot(r)
    BY <2>2, SnapshotStep
  <2>3. CASE Open(r) \/ Describe(r) \/ StartFails(r)
    BY <2>3, ThreadStep
  <2>4. CASE Spawn(r)
    BY <2>4, SpawnStep
  <2>5. CASE Register(r)
    BY <2>5, RegisterStep
  <2> QED
    BY <1>2, <2>1, <2>2, <2>3, <2>4, <2>5 DEF StartStep
<1>3. ASSUME NEW r \in Recordings, NEW s \in Streams, Forward(r, s) PROVE RInv'
  BY <1>3, ForwardStep
<1>4. ASSUME NEW r \in Recordings, EndTask(r) \/ Take(r) \/ Write(r) PROVE RInv'
  BY <1>4, EndTaskStep, TakeStep, WriteStep
<1>5. ASSUME NEW c \in Callers,
             (\E r \in Recordings : StopCall(c, r)) \/ StopAllCall(c) \/ CallStep(c)
      PROVE  RInv'
  <2>1. ASSUME NEW r \in Recordings, Lock(c, r), r \in active PROVE RInv'
    BY <2>1, LockStep
  <2>2. ASSUME \/ \E r \in Recordings : StopCall(c, r) \/ (Lock(c, r) /\ r \notin active)
               \/ StopAllCall(c) \/ Flushed(c) \/ Read(c)
        PROVE  RInv'
    BY <2>2, CallStepInv
  <2> QED
    BY <1>5, <2>1, <2>2 DEF CallStep
<1>6. CASE Crash
  BY <1>6, CrashStep
<1>7. CASE Restart
  <2>1. Recover /\ up' \in BOOLEAN
    BY <1>7 DEF Restart
  <2> QED
    BY <2>1, RecoverStep
<1>8. CASE NeighbourStarts
  <2>1. Recover /\ up' \in BOOLEAN
    BY <1>8 DEF NeighbourStarts, RInv, TypeOK
  <2> QED
    BY <2>1, RecoverStep
<1>9. CASE UNCHANGED vars
  <2>1. UNCHANGED <<env, start, pipeline, database, active, atStop, calls, bounds>>
    BY <1>9 DEF vars
  <2>2. TypeOK'
    BY <2>1 DEF RInv, TypeOK, env, start, pipeline, database, calls, bounds
  <2>3. BroadcastInv' /\ CursorInv'
    BY <2>1, EnvSame DEF RInv, pipeline
  <2>4. \A r \in Recordings : Same(r) /\ OwedSame(r)
    BY <2>1, SameHere, OwedSameHere DEF env, start
  <2> QED
    BY <2>1, <2>2, <2>3, <2>4, NoRecording DEF bounds
<1> QED
  BY <1>1, <1>2, <1>3, <1>4, <1>5, <1>6, <1>7, <1>8, <1>9 DEF Next

\* What every reachable state satisfies: the invariant from which the rest follows.
THEOREM SpecRInv == Spec => []RInv
  BY InitRInv, StepRInv, PTL DEF Spec

-----------------------------------------------------------------------------
(* What the invariant says. *)

\* Whatever happens, positions stay within what was broadcast, and only commands are in
\* the channels, with the writers and in the tables.
THEOREM SpecTypeOK == Spec => []TypeOK
<1>1. RInv => TypeOK
  BY DEF RInv
<1> QED
  BY <1>1, SpecRInv, PTL

\* Nothing that the watch changes after the snapshot falls between the snapshot, the
\* task, the channel, the writer and the tables: each update is still to be read, on its
\* way, written, or in a gap that is counted, however the calls, the lag, the failed
\* writes and the other recordings interleave.
THEOREM SpecNoSilentGap == Spec => []NoSilentGap
<1>1. RInv => NoSilentGap
  <2> SUFFICES ASSUME RInv, NEW r \in Recordings, task[r] = "receiving", writer[r] # "done",
                      NEW s \in Streams, NEW p \in Positions, Owed(r, s, p),
                      ~(p > cursor[r][s])
               PROVE  InFlight(r, s, p) \/ Settled(r, s, p)
    BY DEF NoSilentGap
  <2>1. cursor[r][s] \in Nat /\ p \in Nat
    BY Numbers DEF RInv, TypeOK
  <2>2. p <= cursor[r][s]
    BY <2>1
  <2> QED
    BY <2>2 DEF RInv, RecordingInv, Conserved
<1> QED
  BY <1>1, SpecRInv, PTL

\* The tables hold the snapshot first and each stream in the order of the broadcast, and
\* nothing twice, whatever is lost, retried or interrupted.
THEOREM SpecRecordedInOrder == Spec => []RecordedInOrder
<1>1. RInv => RecordedInOrder
  <2> SUFFICES ASSUME RInv, NEW r \in Recordings, NEW i \in 1..Len(saved[r]),
                      NEW j \in 1..Len(saved[r]), i < j
               PROVE  LET a == saved[r][i]
                          b == saved[r][j]
                      IN /\ b # Seeding /\ a # Stopping
                         /\ a # Seeding /\ b # Stopping /\ a.stream = b.stream
                               => Last(a) < First(b)
    BY DEF RecordedInOrder
  <2> DEFINE a == saved[r][i]
             b == saved[r][j]
  <2>1. Before(a, b) /\ a.kind # "stop"
    BY DEF RInv, RecordingInv, Ordered, InOrder
  <2>2. a \in Command /\ b \in Command
    BY DEF RInv, TypeOK
  <2> HIDE DEF a, b
  <2>3. b # Seeding /\ a # Stopping
    BY <2>1 DEF Before, Seeding, Stopping
  <2>4. a # Seeding => Data(a)
    BY <2>1, <2>2, CommandForms DEF Data
  <2>5. b # Stopping => Data(b)
    BY <2>2, <2>3, CommandForms DEF Data
  <2>6. a # Seeding /\ b # Stopping /\ a.stream = b.stream => Last(a) < First(b)
    BY <2>1, <2>4, <2>5 DEF Before
  <2> QED
    BY <2>3, <2>6 DEF a, b
<1> QED
  BY <1>1, SpecRInv, PTL

\* The dropped counts of a row are the number of the updates that went by unread, each
\* counted once, over any number of lags in both streams.
THEOREM SpecDroppedExact == Spec => []DroppedExact
<1>1. RInv => DroppedExact
  BY DEF RInv, RecordingInv, Counted, DroppedExact
<1> QED
  BY <1>1, SpecRInv, PTL

\* A stop that the writer has acknowledged left nothing behind of what had been read.
THEOREM SpecFlushedAtStop == Spec => []FlushedAtStop
<1>1. RInv => FlushedAtStop
  BY DEF RInv, RecordingInv, Flushing, OwedAtStop, FlushedAtStop
<1> QED
  BY <1>1, SpecRInv, PTL

\* While the process is up, an active row has its writer, or its stop has failed.
THEOREM SpecActiveIsAttended == Spec => []ActiveIsAttended
<1>1. RInv => ActiveIsAttended
  BY DEF RInv, RecordingInv, Attended, ActiveIsAttended
<1> QED
  BY <1>1, SpecRInv, PTL

\* No step changes the row or the tables of a recording whose stop was acknowledged: not
\* the task that still sends, not a second stop, not a restart.
THEOREM SpecStoppedForGood == Spec => StoppedForGood
<1>1. ASSUME RInv, [Next]_vars, NEW r \in Recordings, ack[r] = "ok"
      PROVE  rows'[r] = rows[r] /\ saved'[r] = saved[r]
  <2>1. /\ writer[r] = "done" /\ rows[r].status = "stopped" /\ phase[r] \notin Early
    BY <1>1 DEF RInv, RecordingInv, Pipes, Shape, Quiet
  <2>2. ASSUME NEW q \in Recordings, Describe(q)
        PROVE  rows'[r] = rows[r] /\ saved'[r] = saved[r]
    <3>1. phase[q] = "opened" /\ rows' = [rows EXCEPT ![q].status = "active"] /\ saved' = saved
      BY <2>2 DEF Describe, Advance
    <3>2. q # r
      BY <2>1, <3>1 DEF Early
    <3> QED
      BY <1>1, <3>1, <3>2 DEF RInv, TypeOK
  <2>3. ASSUME NEW q \in Recordings, Write(q)
        PROVE  rows'[r] = rows[r] /\ saved'[r] = saved[r]
    <3>1. q # r
      BY <2>1, <2>3 DEF Write
    <3>2. r \in Recordings \ {q}
      BY <3>1
    <3> QED
      BY <1>1, <2>3, <3>2, WriteEffect
  <2>4. ASSUME Recover
        PROVE  rows'[r] = rows[r] /\ saved'[r] = saved[r]
    BY <2>1, <2>4 DEF Recover
  <2>5. ASSUME UNCHANGED database
        PROVE  rows'[r] = rows[r] /\ saved'[r] = saved[r]
    BY <2>5 DEF database
  <2>6. ASSUME NEW s \in Streams, Change(s) \/ Broadcast(s) \/ BroadcastForeign(s)
        PROVE  UNCHANGED database
    BY <2>6 DEF Change, Broadcast, BroadcastForeign
  <2>7. ASSUME NEW q \in Recordings, \/ Subscribe(q) \/ StartFails(q) \/ Snapshot(q) \/ Open(q)
                                     \/ Spawn(q) \/ Register(q) \/ EndTask(q) \/ Take(q)
                                     \/ \E s \in Streams : Forward(q, s)
        PROVE  UNCHANGED database
    BY <2>7 DEF Subscribe, StartFails, Snapshot, Open, Spawn, Register, EndTask, Take, Forward
  <2>8. ASSUME NEW c \in Callers,
               (\E q \in Recordings : StopCall(c, q)) \/ StopAllCall(c) \/ CallStep(c)
        PROVE  UNCHANGED database
    BY <2>8 DEF StopCall, StopAllCall, CallStep, Lock, Flushed, Read
  <2>9. Crash \/ UNCHANGED vars => UNCHANGED database
    BY DEF Crash, vars
  <2> QED
    BY <1>1, <2>2, <2>3, <2>4, <2>5, <2>6, <2>7, <2>8, <2>9
       DEF Next, StartStep, Restart, NeighbourStarts
<1>2. RInv /\ [Next]_vars =>
         [\A r \in Recordings : ack[r] = "ok" => rows'[r] = rows[r] /\ saved'[r] = saved[r]]_vars
  BY <1>1
<1> QED
  BY <1>2, SpecRInv, PTL DEF Spec, StoppedForGood

=============================================================================
