------------------------- MODULE UserWatchesProofs -------------------------
(***************************************************************************)
(* The event log, for any number of pollers, any capacity, any page sizes  *)
(* and any number of events: what it retains is a log that says where it   *)
(* has gaps.  And the user watches around one, for any number of calls,    *)
(* conditions, watches and events: one watch per set of conditions within  *)
(* the limit, and the last word of a loop that has ended.                  *)
(***************************************************************************)
EXTENDS UserWatches, FiniteSetTheorems, SequenceTheorems, TLAPS

-----------------------------------------------------------------------------
(* The event log by itself: the theorems about LogSpec use nothing of the    *)
(* watches.                                                                  *)

LogInv == LogTypeOK /\ RingExact /\ NoSilentLoss

\* Where a page begins: after the cursor, or after what the ring has dropped.
From(after) == IF after < droppedEvents THEN droppedEvents ELSE after

\* Where it ends.
Upto(after, limit) ==
    IF From(after) + limit < nextSequence THEN From(after) + limit ELSE nextSequence - 1

\* A page is an interval of events: the oldest ones retained beyond the cursor.
LEMMA PageInterval ==
    ASSUME LogTypeOK, RingExact,
           NEW after \in Nat, after < nextSequence,
           NEW limit \in Nat \ {0}
    PROVE  Page(after, limit) = (From(after) + 1)..Upto(after, limit)
<1> DEFINE skip == From(after) - droppedEvents
           top  == Len(ring)
<1>1. /\ ring \in Seq(Nat) /\ DOMAIN ring = 1..top
      /\ top \in Nat /\ droppedEvents \in Nat /\ nextSequence \in Nat \ {0}
      /\ top + droppedEvents + 1 = nextSequence
      /\ \A i \in 1..top : ring[i] = droppedEvents + i
  BY DEF LogTypeOK, RingExact
<1>2. skip \in Nat /\ From(after) = droppedEvents + skip /\ skip <= top
  BY <1>1 DEF From
<1>3. Beyond(after) = (skip + 1)..top
  BY <1>1, <1>2 DEF Beyond, From
<1> HIDE DEF skip, top
<1>4. ASSUME NEW k \in Beyond(after)
      PROVE  Cardinality({j \in Beyond(after) : j < k}) = k - skip - 1
  <2>1. k \in Nat /\ k > skip /\ k <= top  BY <1>1, <1>2, <1>3
  <2>2. {j \in Beyond(after) : j < k} = (skip + 1)..(k - 1)
    BY <1>1, <1>2, <1>3, <2>1
  <2>3. Cardinality((skip + 1)..(k - 1)) = k - skip - 1
    BY <1>2, <2>1, FS_Interval
  <2> QED  BY <2>2, <2>3
<1>5. {k \in Beyond(after) : Cardinality({j \in Beyond(after) : j < k}) < limit}
        = {k \in (skip + 1)..top : k - skip - 1 < limit}
  BY <1>3, <1>4
<1>6. Page(after, limit) = {ring[i] : i \in {k \in (skip + 1)..top : k - skip - 1 < limit}}
  BY <1>5 DEF Page
<1>7. ASSUME NEW n
      PROVE  n \in Page(after, limit) <=> n \in (From(after) + 1)..Upto(after, limit)
  <2>1. ASSUME n \in Page(after, limit)
        PROVE  n \in (From(after) + 1)..Upto(after, limit)
    <3>1. PICK i \in (skip + 1)..top : i - skip - 1 < limit /\ n = ring[i]  BY <1>6, <2>1
    <3>2. i \in 1..top /\ n = droppedEvents + i  BY <1>1, <1>2, <3>1
    <3> QED  BY <1>1, <1>2, <3>1, <3>2 DEF Upto
  <2>2. ASSUME n \in (From(after) + 1)..Upto(after, limit)
        PROVE  n \in Page(after, limit)
    <3> DEFINE i == n - droppedEvents
    <3>1. n \in Int /\ n > droppedEvents + skip /\ n <= droppedEvents + skip + limit
          /\ n < nextSequence
      BY <1>1, <1>2, <2>2 DEF Upto
    <3>2. i \in (skip + 1)..top /\ i - skip - 1 < limit /\ i \in 1..top
      BY <1>1, <1>2, <3>1
    <3>3. ring[i] = n  BY <1>1, <3>1, <3>2
    <3> HIDE DEF i
    <3> QED  BY <1>6, <3>2, <3>3
  <2> QED  BY <2>1, <2>2
<1> QED  BY <1>7

LEMMA InitLogInv == LogInit => LogInv
  BY LogAssumption DEF LogInit, LogInv, LogTypeOK, RingExact, NoSilentLoss

\* The ring of the events d + 1 to n - 1 goes on with n, the oldest dropped or not.
LEMMA RingGrows ==
    ASSUME NEW s \in Seq(Nat), NEW d \in Nat, NEW n \in Nat, Len(s) + d + 1 = n,
           \A i \in 1..Len(s) : s[i] = d + i
    PROVE  /\ Append(s, n) \in Seq(Nat)
           /\ Len(Append(s, n)) + d + 1 = n + 1
           /\ \A i \in DOMAIN Append(s, n) : Append(s, n)[i] = d + i
<1> DEFINE t == Append(s, n)
           k == Len(s)
<1>1. /\ t \in Seq(Nat) /\ Len(t) = k + 1
      /\ t[k + 1] = n /\ \A i \in 1..k : t[i] = s[i]
  BY AppendProperties
<1>2. DOMAIN t = 1..(k + 1) /\ k \in Nat  BY <1>1, LenProperties
<1>3. \A i \in 1..k : t[i] = d + i  BY <1>1
<1>4. k + d + 1 = n  OBVIOUS
<1> HIDE DEF t, k
<1>5. \A i \in 1..(k + 1) : t[i] = d + i
  <2> TAKE i \in 1..(k + 1)
  <2>1. CASE i = k + 1  BY <1>1, <1>2, <1>4, <2>1
  <2>2. CASE i # k + 1
    <3>1. i \in 1..k  BY <1>2, <2>2
    <3> QED  BY <1>3, <3>1
  <2> QED  BY <2>1, <2>2
<1>6. k + 1 + d + 1 = n + 1  BY <1>2, <1>4
<1> QED  BY <1>1, <1>2, <1>5, <1>6 DEF t

LEMMA TailDrops ==
    ASSUME NEW s \in Seq(Nat), s # << >>, NEW d \in Nat,
           \A i \in 1..Len(s) : s[i] = d + i
    PROVE  /\ Tail(s) \in Seq(Nat) /\ Len(Tail(s)) = Len(s) - 1
           /\ \A i \in 1..Len(Tail(s)) : Tail(s)[i] = (d + 1) + i
<1> DEFINE t == Tail(s)
           k == Len(s)
<1>1. t \in Seq(Nat) /\ Len(t) = k - 1 /\ \A i \in 1..Len(t) : t[i] = s[i + 1]
  BY HeadTailProperties
<1>2. k \in Nat /\ \A i \in 1..k : s[i] = d + i  BY LenProperties
<1> HIDE DEF t, k
<1>3. \A i \in 1..Len(t) : t[i] = (d + 1) + i
  <2> TAKE i \in 1..Len(t)
  <2>1. i \in Nat /\ i + 1 \in 1..k  BY <1>1, <1>2
  <2>2. t[i] = s[i + 1] /\ s[i + 1] = d + (i + 1)  BY <1>1, <1>2, <2>1
  <2> QED  BY <2>1, <2>2
<1> QED  BY <1>1, <1>3 DEF t, k

LEMMA PushLogInv ==
    ASSUME LogInv, Push
    PROVE  LogInv'
<1>1. /\ Retained \in Nat \ {0} /\ nextSequence \in Nat \ {0} /\ droppedEvents \in Nat
      /\ Len(ring) \in Nat /\ Len(ring) <= Retained
      /\ Len(ring) + droppedEvents + 1 = nextSequence
  BY LenProperties, LogAssumption DEF LogInv, LogTypeOK, RingExact
<1>2. ring \in Seq(Nat) /\ \A i \in 1..Len(ring) : ring[i] = droppedEvents + i
  BY LenProperties DEF LogInv, LogTypeOK, RingExact
<1>3. nextSequence' = nextSequence + 1 /\ UNCHANGED <<cursor, seen, missed>>
  BY DEF Push, pollers
<1>4. /\ ring' \in Seq(Nat) /\ droppedEvents' \in Nat /\ droppedEvents' >= droppedEvents
      /\ Len(ring') + droppedEvents' + 1 = nextSequence' /\ Len(ring') <= Retained
      /\ \A i \in DOMAIN ring' : ring'[i] = droppedEvents' + i
  <2>1. CASE Len(ring) = Retained
    <3>1. ring' = Append(Tail(ring), nextSequence) /\ droppedEvents' = droppedEvents + 1
      BY <2>1 DEF Push
    <3>2. ring # << >>  BY <1>1, <2>1
    <3>3. /\ Tail(ring) \in Seq(Nat) /\ Len(Tail(ring)) = Len(ring) - 1
          /\ \A i \in 1..Len(Tail(ring)) : Tail(ring)[i] = droppedEvents' + i
      BY <1>1, <1>2, <3>1, <3>2, TailDrops
    <3>4. Len(Tail(ring)) + droppedEvents' + 1 = nextSequence  BY <1>1, <3>1, <3>3
    <3>5. /\ ring' \in Seq(Nat) /\ Len(ring') + droppedEvents' + 1 = nextSequence + 1
          /\ \A i \in DOMAIN ring' : ring'[i] = droppedEvents' + i
      <4>1. droppedEvents' \in Nat /\ nextSequence \in Nat  BY <1>1, <3>1
      <4>2. LET t == Append(Tail(ring), nextSequence)
            IN /\ t \in Seq(Nat) /\ Len(t) + droppedEvents' + 1 = nextSequence + 1
               /\ \A i \in DOMAIN t : t[i] = droppedEvents' + i
        BY <3>3, <3>4, <4>1, RingGrows
      <4> QED  BY <3>1, <4>2
    <3>6. Len(ring') \in Nat  BY <3>5, LenProperties
    <3> QED  BY <1>1, <1>3, <2>1, <3>1, <3>5, <3>6
  <2>2. CASE Len(ring) # Retained
    <3>1. ring' = Append(ring, nextSequence) /\ droppedEvents' = droppedEvents
      BY <2>2 DEF Push
    <3>2. /\ ring' \in Seq(Nat) /\ Len(ring') + droppedEvents' + 1 = nextSequence + 1
          /\ \A i \in DOMAIN ring' : ring'[i] = droppedEvents' + i
      <4>1. nextSequence \in Nat /\ droppedEvents \in Nat
            /\ Len(ring) + droppedEvents + 1 = nextSequence
        BY <1>1
      <4>2. LET t == Append(ring, nextSequence)
            IN /\ t \in Seq(Nat) /\ Len(t) + droppedEvents + 1 = nextSequence + 1
               /\ \A i \in DOMAIN t : t[i] = droppedEvents + i
        BY <1>2, <4>1, RingGrows
      <4> QED  BY <3>1, <4>2
    <3>3. Len(ring') \in Nat  BY <3>2, LenProperties
    <3> QED  BY <1>1, <1>3, <2>2, <3>1, <3>2, <3>3
  <2> QED  BY <2>1, <2>2
<1>5. LogTypeOK' /\ RingExact'
  BY <1>1, <1>3, <1>4 DEF LogInv, LogTypeOK, RingExact
<1>6. NoSilentLoss'
  BY <1>1, <1>3, <1>4 DEF LogInv, LogTypeOK, NoSilentLoss
<1> QED  BY <1>5, <1>6 DEF LogInv

\* What a poll does, in terms of the interval it gets.
LEMMA PollInterval ==
    ASSUME LogInv, NEW p \in Pollers, NEW limit \in Limits, Poll(p, limit)
    PROVE  LET gap  == From(cursor[p])
               last == Upto(cursor[p], limit)
           IN /\ gap \in Nat /\ last \in Nat
              /\ cursor[p] \in Nat /\ cursor[p] <= gap /\ gap < last /\ last < nextSequence
              /\ gap # cursor[p] => gap = droppedEvents
              /\ cursor' = [cursor EXCEPT ![p] = last]
              /\ seen' = [seen EXCEPT ![p] = @ \cup (gap + 1)..last]
              /\ missed' = [missed EXCEPT ![p] = @ \cup (cursor[p] + 1)..gap]
<1> DEFINE gap == From(cursor[p])
           last == Upto(cursor[p], limit)
           page == Page(cursor[p], limit)
<1>1. limit \in Nat \ {0} /\ droppedEvents \in Nat /\ nextSequence \in Nat \ {0}
      /\ cursor[p] \in Nat /\ cursor[p] < nextSequence
  BY LogAssumption DEF LogInv, LogTypeOK, NoSilentLoss
<1>2. page = (gap + 1)..last
  BY <1>1, PageInterval DEF LogInv
<1>3. gap \in Nat /\ cursor[p] <= gap /\ (gap # cursor[p] => gap = droppedEvents)
  BY <1>1 DEF From
<1>4. last \in Int /\ last < nextSequence
  BY <1>1, <1>3 DEF Upto
<1> HIDE DEF gap, last, page
<1>5. page # {}  BY DEF Poll, page
<1>6. gap < last /\ last \in Nat
  BY <1>2, <1>3, <1>4, <1>5
<1>7. cursor' = [cursor EXCEPT ![p] = last]
  <2>1. PICK top \in page : (\A n \in page : n <= top) /\ cursor' = [cursor EXCEPT ![p] = top]
    BY DEF Poll, page
  <2>2. last \in page /\ top \in Int /\ top <= last  BY <1>2, <1>3, <1>6, <2>1
  <2>3. top = last  BY <1>6, <2>1, <2>2
  <2> QED  BY <2>1, <2>3
<1>8. seen' = [seen EXCEPT ![p] = @ \cup (gap + 1)..last]
  BY <1>2 DEF Poll, page
<1>9. (IF TruncatedBefore(cursor[p]) THEN (cursor[p] + 1)..(Head(ring) - 1) ELSE {})
        = (cursor[p] + 1)..gap
  <2>1. ring # << >>
    BY <1>1, <1>3, <1>4, <1>6 DEF LogInv, RingExact, gap, From
  <2>2. Head(ring) = droppedEvents + 1
    BY <2>1 DEF LogInv, LogTypeOK, RingExact
  <2>3. TruncatedBefore(cursor[p]) <=> cursor[p] < droppedEvents
    BY <1>1, <2>1, <2>2 DEF TruncatedBefore
  <2>4. CASE cursor[p] < droppedEvents
    BY <1>1, <2>2, <2>3, <2>4 DEF gap, From
  <2>5. CASE ~(cursor[p] < droppedEvents)
    BY <1>1, <2>3, <2>5 DEF gap, From
  <2> QED  BY <2>4, <2>5
<1>10. missed' = [missed EXCEPT ![p] = @ \cup (cursor[p] + 1)..gap]
  BY <1>9 DEF Poll
<1> QED  BY <1>1, <1>3, <1>4, <1>6, <1>7, <1>8, <1>10 DEF gap, last

LEMMA PollLogInv ==
    ASSUME LogInv, NEW p \in Pollers, NEW limit \in Limits, Poll(p, limit)
    PROVE  LogInv'
<1> DEFINE gap == From(cursor[p])
           last == Upto(cursor[p], limit)
<1>1. /\ gap \in Nat /\ last \in Nat
      /\ cursor[p] \in Nat /\ cursor[p] <= gap /\ gap < last /\ last < nextSequence
      /\ gap # cursor[p] => gap = droppedEvents
      /\ cursor' = [cursor EXCEPT ![p] = last]
      /\ seen' = [seen EXCEPT ![p] = @ \cup (gap + 1)..last]
      /\ missed' = [missed EXCEPT ![p] = @ \cup (cursor[p] + 1)..gap]
  BY PollInterval
<1>2. UNCHANGED log  BY DEF Poll
<1> HIDE DEF gap, last
<1>3. LogTypeOK'
  BY <1>1, <1>2 DEF LogInv, LogTypeOK, log
<1>4. RingExact'
  BY <1>2 DEF LogInv, RingExact, log
<1>5. NoSilentLoss'
  <2> SUFFICES ASSUME NEW q \in Pollers
               PROVE  /\ cursor'[q] < nextSequence'
                      /\ seen'[q] \cup missed'[q] = 1..cursor'[q]
                      /\ seen'[q] \cap missed'[q] = {}
                      /\ missed'[q] \subseteq 1..droppedEvents'
    BY DEF NoSilentLoss
  <2>1. /\ cursor[q] < nextSequence
        /\ seen[q] \cup missed[q] = 1..cursor[q]
        /\ seen[q] \cap missed[q] = {}
        /\ missed[q] \subseteq 1..droppedEvents
        /\ seen[q] \subseteq Nat /\ missed[q] \subseteq Nat
        /\ droppedEvents \in Nat /\ nextSequence \in Nat
    BY DEF LogInv, LogTypeOK, NoSilentLoss
  <2>2. CASE q # p
    BY <1>1, <1>2, <2>1, <2>2 DEF LogInv, LogTypeOK, log
  <2>3. CASE q = p
    <3>1. /\ cursor'[q] = last
          /\ seen'[q] = seen[q] \cup (gap + 1)..last
          /\ missed'[q] = missed[q] \cup (cursor[q] + 1)..gap
      BY <1>1, <2>3 DEF LogInv, LogTypeOK
    <3>2. seen'[q] \cup missed'[q] = 1..last
      BY <1>1, <2>1, <2>3, <3>1
    <3>3. seen'[q] \cap missed'[q] = {}
      BY <1>1, <2>1, <2>3, <3>1
    <3>4. missed'[q] \subseteq 1..droppedEvents
      <4>1. CASE gap = cursor[q]  BY <1>1, <2>1, <2>3, <3>1, <4>1
      <4>2. CASE gap # cursor[q]
        <5>1. gap = droppedEvents  BY <1>1, <2>3, <4>2
        <5> QED  BY <1>1, <2>1, <2>3, <3>1, <5>1
      <4> QED  BY <4>1, <4>2
    <3> QED  BY <1>1, <1>2, <3>1, <3>2, <3>3, <3>4 DEF log
  <2> QED  BY <2>2, <2>3
<1> QED  BY <1>3, <1>4, <1>5 DEF LogInv

LEMMA StepLogInv == LogInv /\ [LogNext]_eventLog => LogInv'
<1> SUFFICES ASSUME LogInv, [LogNext]_eventLog PROVE LogInv'
  OBVIOUS
<1>1. CASE Push
  BY <1>1, PushLogInv
<1>2. ASSUME NEW p \in Pollers, NEW limit \in Limits, Poll(p, limit) PROVE LogInv'
  BY <1>2, PollLogInv
<1>3. CASE UNCHANGED eventLog
  BY <1>3 DEF LogInv, LogTypeOK, RingExact, NoSilentLoss, eventLog, log, pollers
<1> QED  BY <1>1, <1>2, <1>3 DEF LogNext

\* The types and what they rest on, at any capacity.
THEOREM SpecLogInv == LogSpec => []LogInv
  BY InitLogInv, StepLogInv, PTL DEF LogSpec

\* push_event and its count of dropped events: whatever the capacity, the ring holds
\* the newest events without a hole.
THEOREM SpecRingExact == LogSpec => []RingExact
<1>1. LogInv => RingExact  BY DEF LogInv
<1> QED  BY <1>1, SpecLogInv, PTL

\* RealtimeService::events: no poller loses an event without being told, whatever the
\* sizes of its pages and however often the ring goes round in between.
THEOREM SpecNoSilentLoss == LogSpec => []NoSilentLoss
<1>1. LogInv => NoSilentLoss  BY DEF LogInv
<1> QED  BY <1>1, SpecLogInv, PTL

-----------------------------------------------------------------------------

LEMMA InitGaps == LogInit => Gaps!Init
  BY DEF LogInit, Gaps!Init

LEMMA PushGaps == ASSUME LogInv, Push PROVE Gaps!Write
  BY DEF Push, pollers, Gaps!Write, LogInv, LogTypeOK

LEMMA PollGaps ==
    ASSUME LogInv, NEW p \in Pollers, NEW limit \in Limits, Poll(p, limit)
    PROVE  Gaps!Deliver(p)
<1> DEFINE gap == From(cursor[p])
           last == Upto(cursor[p], limit)
<1>1. /\ gap \in Nat /\ last \in Nat
      /\ cursor[p] \in Nat /\ cursor[p] <= gap /\ gap < last /\ last < nextSequence
      /\ cursor' = [cursor EXCEPT ![p] = last]
      /\ seen' = [seen EXCEPT ![p] = @ \cup (gap + 1)..last]
      /\ missed' = [missed EXCEPT ![p] = @ \cup (cursor[p] + 1)..gap]
  BY PollInterval
<1>2. nextSequence \in Nat /\ nextSequence' = nextSequence
  BY DEF LogInv, LogTypeOK, Poll, log
<1> HIDE DEF gap, last
<1>3. gap \in cursor[p]..(nextSequence - 1) /\ last \in cursor[p]..(nextSequence - 1)
  BY <1>1, <1>2
<1> QED  BY <1>1, <1>2, <1>3 DEF Gaps!Deliver

LEMMA StepGaps == LogInv /\ [LogNext]_eventLog => [Gaps!Next]_(Gaps!vars)
<1> SUFFICES ASSUME LogInv, [LogNext]_eventLog PROVE [Gaps!Next]_(Gaps!vars)
  OBVIOUS
<1>1. CASE Push
  BY <1>1, PushGaps DEF Gaps!Next
<1>2. ASSUME NEW p \in Pollers, NEW limit \in Limits, Poll(p, limit) PROVE Gaps!Next
  BY <1>2, PollGaps DEF Gaps!Next
<1>3. CASE UNCHANGED eventLog
  BY <1>3 DEF eventLog, log, pollers, Gaps!vars
<1> QED  BY <1>1, <1>2, <1>3 DEF LogNext

\* The ring, its count of dropped events and the pages with their truncated_before are,
\* to every poller, a log that may have gaps and says where.
THEOREM SpecImplementsGapAwareLog == LogSpec => ImplementsGapAwareLog
  BY InitGaps, StepGaps, SpecLogInv, PTL DEF LogSpec, ImplementsGapAwareLog, Gaps!Spec


-----------------------------------------------------------------------------
(* The registry.                                                             *)

\* UserTypeOK without the events.
RegistryTypeOK ==
    /\ Registered \subseteq Ids
    /\ \A id \in Registered : watches[id] \in UserWatch
    /\ nextId \in 1..(MaxId + 1)
    /\ wanted \in [Callers -> SUBSET Conditions]
    /\ mine \in [Callers -> 0..MaxId]
    /\ task \in [Ids -> {"none", "running", "ended"}]

RegistryInv == RegistryTypeOK /\ OnePerConditions /\ DeadSaysSo

LEMMA RegistryFinite ==
    ASSUME RegistryTypeOK
    PROVE  IsFiniteSet(Registered) /\ Cardinality(Registered) \in Nat
<1>1. IsFiniteSet(Ids)
  BY FS_Interval, UserAssumption DEF Ids
<1>2. IsFiniteSet(Registered)
  BY <1>1, FS_Subset DEF RegistryTypeOK
<1> QED
  BY <1>2, FS_CardinalityType

LEMMA InitRegistryInv == UserInit => RegistryInv
<1> SUFFICES ASSUME UserInit PROVE RegistryInv
  OBVIOUS
<1>1. Registered = {}
  BY DEF UserInit, Registered
<1>2. RegistryTypeOK
  BY <1>1, UserAssumption DEF UserInit, RegistryTypeOK, Ids
<1>3. Cardinality(Registered) <= MaxWatches
  BY <1>1, FS_EmptySet, UserAssumption
<1> QED
  BY <1>1, <1>2, <1>3 DEF RegistryInv, OnePerConditions, DeadSaysSo

-----------------------------------------------------------------------------
(* The steps. *)

\* What OnePerConditions and DeadSaysSo are made of stays.
LEMMA RegistryKept ==
    ASSUME RegistryInv, RegistryTypeOK', UNCHANGED <<watches, task>>
    PROVE  RegistryInv'
  BY DEF RegistryInv, OnePerConditions, DeadSaysSo, Registered

LEMMA AskInv ==
    ASSUME RegistryInv, NEW c \in Callers, NEW conds \in SUBSET Conditions, Ask(c, conds)
    PROVE  RegistryInv'
<1>1. RegistryTypeOK'
  BY DEF Ask, RegistryInv, RegistryTypeOK, Registered
<1> QED
  BY <1>1, RegistryKept DEF Ask

LEMMA OpenInv ==
    ASSUME RegistryInv, NEW c \in Callers, Open(c)
    PROVE  RegistryInv'
<1>1. UNCHANGED <<watches, task>>
  BY DEF Open
<1>2. RegistryTypeOK'
  <2>1. CASE UNCHANGED <<mine, nextId>>
    BY <1>1, <2>1 DEF Open, RegistryInv, RegistryTypeOK, Registered
  <2>2. CASE nextId <= MaxId /\ mine' = [mine EXCEPT ![c] = nextId] /\ nextId' = nextId + 1
             /\ UNCHANGED wanted
    <3>1. nextId \in 0..MaxId /\ nextId + 1 \in 1..(MaxId + 1)
      BY <2>2, UserAssumption DEF RegistryInv, RegistryTypeOK
    <3> QED
      BY <1>1, <2>2, <3>1 DEF RegistryInv, RegistryTypeOK, Registered
  <2> QED
    BY <2>1, <2>2 DEF Open
<1> QED
  BY <1>1, <1>2, RegistryKept

\* The second check is what keeps a watch of the same conditions, or one too many, out.
LEMMA InsertInv ==
    ASSUME RegistryInv, NEW c \in Callers, Insert(c)
    PROVE  RegistryInv'
<1>1. CASE Watched(wanted[c]) \/ Full
  <2>1. RegistryTypeOK'
    BY <1>1, UserAssumption DEF Insert, RegistryInv, RegistryTypeOK, Registered
  <2> QED
    BY <1>1, <2>1, RegistryKept DEF Insert
<1>2. CASE ~Watched(wanted[c]) /\ ~Full
  <2> DEFINE id == mine[c]
  <2>1. /\ watches' = [i \in Registered \cup {id} |->
                          IF i = id THEN NewWatch(wanted[c]) ELSE watches[i]]
        /\ task' = [task EXCEPT ![id] = "running"]
        /\ wanted' = [wanted EXCEPT ![c] = {}]
        /\ mine' = [mine EXCEPT ![c] = 0]
        /\ nextId' = nextId
    BY <1>2 DEF Insert, Put
  <2>2. id \in Ids /\ wanted[c] \in SUBSET Conditions
    BY UserAssumption DEF Insert, RegistryInv, RegistryTypeOK, Ids
  <2> HIDE DEF id
  <2>3. /\ Registered' = Registered \cup {id}
        /\ watches'[id] = NewWatch(wanted[c])
        /\ \A i \in Registered : i # id => watches'[i] = watches[i]
    BY <2>1 DEF Registered
  <2>4. RegistryTypeOK'
    <3>1. NewWatch(wanted[c]) \in UserWatch
      BY <2>2 DEF NewWatch, UserWatch, ClientStates
    <3>2. \A i \in Registered' : watches'[i] \in UserWatch
      BY <2>3, <3>1 DEF RegistryInv, RegistryTypeOK
    <3>3. Registered' \subseteq Ids /\ nextId' \in 1..(MaxId + 1)
      BY <2>1, <2>2, <2>3 DEF RegistryInv, RegistryTypeOK
    <3>4. wanted' \in [Callers -> SUBSET Conditions]
      BY <2>1 DEF RegistryInv, RegistryTypeOK
    <3>5. mine' \in [Callers -> 0..MaxId]
      BY <2>1, UserAssumption DEF RegistryInv, RegistryTypeOK
    <3>6. task' \in [Ids -> {"none", "running", "ended"}]
      BY <2>1 DEF RegistryInv, RegistryTypeOK
    <3> QED
      BY <3>2, <3>3, <3>4, <3>5, <3>6 DEF RegistryTypeOK
  <2>5. Cardinality(Registered') <= MaxWatches
    <3>1. IsFiniteSet(Registered) /\ Cardinality(Registered) \in Nat
      BY RegistryFinite DEF RegistryInv
    <3>2. Cardinality(Registered) < MaxWatches
      BY <1>2, <3>1, UserAssumption DEF Full
    <3>3. Cardinality(Registered \cup {id}) \in {Cardinality(Registered), Cardinality(Registered) + 1}
      <4>1. Cardinality(Registered \cup {id}) =
              IF id \in Registered THEN Cardinality(Registered) ELSE Cardinality(Registered) + 1
        BY <3>1, FS_AddElement
      <4> QED
        BY <4>1
    <3>4. Cardinality(Registered \cup {id}) \in Nat
      BY <3>1, FS_AddElement, FS_CardinalityType
    <3> QED
      BY <2>3, <3>1, <3>2, <3>3, <3>4, UserAssumption
  <2>6. \A i, j \in Registered' : watches'[i].conditions = watches'[j].conditions => i = j
    <3>1. \A i \in Registered : watches[i].conditions # wanted[c]
      BY <1>2 DEF Watched
    <3>2. watches'[id].conditions = wanted[c]
      BY <2>3 DEF NewWatch
    <3> QED
      BY <2>3, <3>1, <3>2 DEF RegistryInv, OnePerConditions
  <2>7. DeadSaysSo'
    <3>1. task'[id] = "running" /\ \A i \in Ids : i # id => task'[i] = task[i]
      BY <2>1, <2>2 DEF RegistryInv, RegistryTypeOK
    <3> QED
      BY <2>3, <3>1 DEF RegistryInv, RegistryTypeOK, DeadSaysSo
  <2> QED
    BY <2>4, <2>5, <2>6, <2>7 DEF RegistryInv, OnePerConditions
<1> QED
  BY <1>1, <1>2

LEMMA RemoveInv ==
    ASSUME RegistryInv, NEW S, Remove(S), UNCHANGED <<nextId, calls, task>>
    PROVE  RegistryInv'
<1>1. /\ Registered' = Registered \ S
      /\ \A i \in Registered \ S : watches'[i] = watches[i]
  BY DEF Remove, Restrict, Registered
<1>2. RegistryTypeOK'
  BY <1>1 DEF RegistryInv, RegistryTypeOK, calls
<1>3. Cardinality(Registered') <= MaxWatches
  <2>1. IsFiniteSet(Registered) /\ Cardinality(Registered) \in Nat
    BY RegistryFinite DEF RegistryInv
  <2>2. Cardinality(Registered \ S) <= Cardinality(Registered) /\ IsFiniteSet(Registered \ S)
    BY <2>1, FS_Subset
  <2>3. Cardinality(Registered \ S) \in Nat
    BY <2>2, FS_CardinalityType
  <2> QED
    BY <1>1, <2>1, <2>2, <2>3, UserAssumption DEF RegistryInv, OnePerConditions
<1> QED
  BY <1>1, <1>2, <1>3 DEF RegistryInv, OnePerConditions, DeadSaysSo

\* A change of the state of a watch whose loop runs, or runs no longer and says so.
LEMMA SetStateInv ==
    ASSUME RegistryInv, NEW id \in Registered,
           NEW state \in ClientStates \cup {"Error"}, SetState(id, state),
           NEW loop \in {"running", "ended"}, task' = [task EXCEPT ![id] = loop],
           loop = "ended" => state = "Disconnected",
           UNCHANGED <<nextId, calls>>
    PROVE  RegistryInv'
<1>1. id \in Ids /\ watches[id] \in UserWatch
  BY DEF RegistryInv, RegistryTypeOK
<1>2. /\ Registered' = Registered
      /\ watches'[id] = [watches[id] EXCEPT !.state = state]
      /\ \A i \in Registered : i # id => watches'[i] = watches[i]
  BY DEF SetState, Registered
<1>3. /\ watches'[id] \in UserWatch
      /\ watches'[id].state = state
      /\ watches'[id].conditions = watches[id].conditions
  BY <1>1, <1>2 DEF UserWatch
<1>4. RegistryTypeOK'
  BY <1>1, <1>2, <1>3 DEF RegistryInv, RegistryTypeOK, calls
<1>5. OnePerConditions'
  <2>1. \A i \in Registered : watches'[i].conditions = watches[i].conditions
    BY <1>2, <1>3
  <2> QED
    BY <1>2, <2>1 DEF RegistryInv, OnePerConditions
<1>6. DeadSaysSo'
  <2>1. task'[id] = loop /\ \A i \in Ids : i # id => task'[i] = task[i]
    BY <1>1 DEF RegistryInv, RegistryTypeOK
  <2>2. task'[id] # "running" => watches'[id].state = "Disconnected"
    BY <1>3, <2>1
  <2>3. \A i \in Registered : i # id =>
           (task'[i] # "running" => watches'[i].state = "Disconnected")
    BY <1>2, <2>1 DEF RegistryInv, RegistryTypeOK, DeadSaysSo
  <2> QED
    BY <1>2, <2>2, <2>3 DEF DeadSaysSo
<1> QED
  BY <1>4, <1>5, <1>6 DEF RegistryInv

\* A loop whose watch is gone ends.
LEMMA EndsUnwatchedInv ==
    ASSUME RegistryInv, NEW id \in Ids, id \notin Registered,
           task' = [task EXCEPT ![id] = "ended"], UNCHANGED <<watches, nextId, calls>>
    PROVE  RegistryInv'
<1>1. Registered' = Registered
  BY DEF Registered
<1>2. RegistryTypeOK'
  BY <1>1 DEF RegistryInv, RegistryTypeOK, calls
<1>3. \A i \in Registered : task'[i] = task[i]
  BY DEF RegistryInv, RegistryTypeOK
<1> QED
  BY <1>1, <1>2, <1>3 DEF RegistryInv, OnePerConditions, DeadSaysSo

LEMMA LoopInv ==
    ASSUME RegistryInv, NEW id \in Ids,
           \/ Cancelled(id)
           \/ \E state \in ClientStates : PollConnection(id, state)
           \/ StreamError(id)
           \/ StreamEnds(id)
    PROVE  RegistryInv'
<1>1. CASE Cancelled(id)
  BY <1>1, EndsUnwatchedInv DEF Cancelled
<1> USE DEF RegistryInv, RegistryTypeOK
<1>2. ASSUME NEW state \in ClientStates, PollConnection(id, state) PROVE RegistryInv'
  <2>1. task' = [task EXCEPT ![id] = "running"]
    BY <1>2 DEF PollConnection
  <2> QED
    BY <1>2, <2>1, SetStateInv DEF PollConnection
<1>3. CASE StreamError(id)
  <2>1. task' = [task EXCEPT ![id] = "running"]
    BY <1>3 DEF StreamError
  <2> QED
    BY <1>3, <2>1, SetStateInv DEF StreamError
<1>4. CASE StreamEnds(id)
  <2>1. CASE id \in Registered
    BY <1>4, <2>1, SetStateInv DEF StreamEnds, ClientStates
  <2>2. CASE id \notin Registered
    BY <1>4, <2>2, EndsUnwatchedInv DEF StreamEnds
  <2> QED
    BY <2>1, <2>2
<1> QED
  BY <1>1, <1>2, <1>3, <1>4

LEMMA StepRegistryInv == RegistryInv /\ [UserNext]_userVars => RegistryInv'
<1> SUFFICES ASSUME RegistryInv, [UserNext]_userVars PROVE RegistryInv'
  OBVIOUS
<1>1. ASSUME NEW c \in Callers, NEW conds \in SUBSET Conditions, Ask(c, conds)
      PROVE  RegistryInv'
  BY <1>1, AskInv
<1>2. ASSUME NEW c \in Callers, Open(c) \/ Insert(c) PROVE RegistryInv'
  BY <1>2, OpenInv, InsertInv
<1>3. ASSUME NEW id \in Ids, Stop(id) PROVE RegistryInv'
  BY <1>3, RemoveInv DEF Stop
<1>4. ASSUME NEW id \in Ids,
             \/ Cancelled(id)
             \/ \E state \in ClientStates : PollConnection(id, state)
             \/ StreamError(id)
             \/ StreamEnds(id)
      PROVE  RegistryInv'
  BY <1>4, LoopInv
<1>5. CASE StopAll
  BY <1>5, RemoveInv DEF StopAll
<1>6. CASE UNCHANGED <<watches, nextId, calls, task>>
  <2>1. RegistryTypeOK'
    BY <1>6 DEF RegistryInv, RegistryTypeOK, Registered, calls
  <2> QED
    BY <1>6, <2>1, RegistryKept
<1>7. CASE Receive
  BY <1>6, <1>7 DEF Receive
<1>8. ASSUME NEW p \in Pollers, NEW limit \in Limits, PollEvents(p, limit) PROVE RegistryInv'
  BY <1>6, <1>8 DEF PollEvents
<1>9. CASE UNCHANGED userVars
  BY <1>6, <1>9 DEF userVars
<1> QED
  BY <1>1, <1>2, <1>3, <1>4, <1>5, <1>7, <1>8, <1>9 DEF UserNext

LEMMA SpecRegistryInv == UserSpec => []RegistryInv
  BY InitRegistryInv, StepRegistryInv, PTL DEF UserSpec

-----------------------------------------------------------------------------

\* UserRealtimeService::watch: however many calls overlap, no two watches are of the
\* same conditions, and none is beyond the limit.
THEOREM SpecOnePerConditions == UserSpec => []OnePerConditions
<1>1. RegistryInv => OnePerConditions  BY DEF RegistryInv
<1> QED  BY <1>1, SpecRegistryInv, PTL

\* The spawned loop: a watch left registered by a loop that has ended says so.
THEOREM SpecDeadSaysSo == UserSpec => []DeadSaysSo
<1>1. RegistryInv => DeadSaysSo  BY DEF RegistryInv
<1> QED  BY <1>1, SpecRegistryInv, PTL

\* A step of the registry is one of the events of the watch followed, or leaves them.
LEMMA UserStepIsLogStep == [UserNext]_userVars => [LogNext]_eventLog
<1> SUFFICES ASSUME [UserNext]_userVars PROVE [LogNext]_eventLog
  OBVIOUS
<1>1. CASE Receive
  BY <1>1 DEF Receive, LogNext
<1>2. ASSUME NEW p \in Pollers, NEW limit \in Limits, PollEvents(p, limit)
      PROVE  [LogNext]_eventLog
  BY <1>2 DEF PollEvents, LogNext
<1>3. ASSUME NEW c \in Callers,
             \/ \E conds \in SUBSET Conditions : Ask(c, conds)
             \/ Open(c)
             \/ Insert(c)
      PROVE  [LogNext]_eventLog
  BY <1>3 DEF Ask, Open, Insert
<1>4. ASSUME NEW id \in Ids,
             \/ Stop(id)
             \/ Cancelled(id)
             \/ \E state \in ClientStates : PollConnection(id, state)
             \/ StreamError(id)
             \/ StreamEnds(id)
      PROVE  [LogNext]_eventLog
  BY <1>4 DEF Stop, Cancelled, PollConnection, StreamError, StreamEnds
<1>5. CASE StopAll \/ UNCHANGED userVars
  BY <1>5 DEF StopAll, userVars
<1> QED
  BY <1>1, <1>2, <1>3, <1>4, <1>5 DEF UserNext

\* UserRealtimeService::events: with watches opened, stopped and ending around it, what
\* a watch retains is to every poller a log that may have gaps and says where.
THEOREM UserSpecImplementsGapAwareLog == UserSpec => ImplementsGapAwareLog
<1>1. UserInit => LogInit  BY DEF UserInit
<1>2. UserSpec => LogSpec  BY <1>1, UserStepIsLogStep, PTL DEF UserSpec, LogSpec
<1> QED  BY <1>2, SpecImplementsGapAwareLog

=============================================================================
