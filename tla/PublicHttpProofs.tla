-------------------------- MODULE PublicHttpProofs --------------------------
(***************************************************************************)
(* Public HTTP and its briefs, for any number of requests, clients, keys   *)
(* and ticks: what the cache holds, what the gauge counts, and what the    *)
(* limiter lets pass.                                                      *)
(***************************************************************************)
EXTENDS PublicHttp, FiniteSetTheorems, TLAPS

\* A request is counted at the limiter by a time not long past.
RequestsInTime ==
    \A r \in Requests :
        /\ status[r] \in Pending => arrived[r] <= clock
        /\ status[r] = "limiting" => clock - arrived[r] <= MaxWait

WindowsInTime == \A c \in DOMAIN windows : windows[c].started <= clock

\* The cache is within its limit.
CacheWithin ==
    /\ \A k \in DOMAIN cache : cache[k] <= clock
    /\ IsFiniteSet(DOMAIN cache)
    /\ Cardinality(DOMAIN cache) <= MaxBriefs

TimeInv == TypeOK /\ RequestsInTime /\ WindowsInTime /\ CacheWithin

LEMMA InitTimeInv == Init => TimeInv
<1> SUFFICES ASSUME Init PROVE TimeInv
  OBVIOUS
<1>1. TypeOK
  BY CacheAssumption DEF Init, CacheInit, TypeOK, CacheTypeOK, Ended
<1>2. RequestsInTime /\ WindowsInTime
  BY DEF Init, CacheInit, RequestsInTime, WindowsInTime, Pending
<1>3. CacheWithin
  <2>1. DOMAIN cache = {}
    BY DEF Init, CacheInit
  <2>2. IsFiniteSet({}) /\ Cardinality({}) = 0
    BY FS_EmptySet
  <2> QED
    BY <2>1, <2>2, CacheAssumption DEF CacheWithin
<1> QED
  BY <1>1, <1>2, <1>3 DEF TimeInv

\* Numbers and the ranges of what is read below.
LEMMA Ranges ==
    ASSUME TimeInv
    PROVE  /\ clock \in 0..MaxTime /\ MaxTime \in Nat
           /\ Ttl \in Nat /\ MaxBriefs \in Nat \ {0}
           /\ Limit \in Nat \ {0} /\ Window \in Nat \ {0}
           /\ MaxWait \in Nat /\ MaxWait < Window
           /\ \A r \in Requests : /\ arrived[r] \in 0..MaxTime /\ admitted[r] \in 0..MaxTime
                                  /\ peer[r] \in Clients
           /\ \A k \in DOMAIN cache : cache[k] \in 0..MaxTime
  BY HttpAssumption, CacheAssumption DEF TimeInv, TypeOK, CacheTypeOK

LEMMA ArriveTimeInv == ASSUME TimeInv, NEW r \in Requests, Arrive(r) PROVE TimeInv'
<1>1. /\ status' = [status EXCEPT ![r] = "limiting"]
      /\ arrived' = [arrived EXCEPT ![r] = clock]
      /\ UNCHANGED <<clock, cache, asking, peer, admitted, windows, inFlight>>
      /\ status[r] = "new"
  BY DEF Arrive, briefs
<1>2. TypeOK'
  BY <1>1 DEF TimeInv, TypeOK, CacheTypeOK, Pending
<1>3. RequestsInTime'
  BY <1>1, Ranges DEF TimeInv, TypeOK, CacheTypeOK, RequestsInTime, Pending
<1>4. WindowsInTime' /\ CacheWithin'
  BY <1>1 DEF TimeInv, WindowsInTime, CacheWithin
<1> QED
  BY <1>2, <1>3, <1>4 DEF TimeInv

\* The window a request counts in.
LEMMA CurrentWindow ==
    ASSUME TimeInv, NEW c \in Clients, NEW now \in 0..MaxTime, now <= clock
    PROVE  /\ Kept(now) \subseteq DOMAIN windows
           /\ Current(c, now) \in [started : 0..MaxTime, count : 0..Limit]
           /\ Current(c, now).started <= clock
<1>1. Kept(now) \subseteq DOMAIN windows
  BY DEF Kept
<1>2. [started |-> now, count |-> 0] \in [started : 0..MaxTime, count : 0..Limit]
  BY Ranges
<1> QED
  BY <1>1, <1>2 DEF Current, TimeInv, TypeOK, WindowsInTime

LEMMA AdmitTimeInv == ASSUME TimeInv, NEW r \in Requests, Admit(r) PROVE TimeInv'
<1> DEFINE c   == peer[r]
           now == arrived[r]
           w   == Current(c, now)
           pass == w.count < Limit
<1>1. c \in Clients /\ now \in 0..MaxTime /\ now <= clock
  BY Ranges DEF Admit, TimeInv, RequestsInTime, Pending
<1>2. /\ Kept(now) \subseteq DOMAIN windows
      /\ w \in [started : 0..MaxTime, count : 0..Limit] /\ w.started <= clock
  BY <1>1, CurrentWindow
<1>3. /\ windows' = [d \in Kept(now) \cup {c} |->
                        IF d # c THEN windows[d]
                        ELSE IF pass THEN [w EXCEPT !.count = @ + 1] ELSE w]
      /\ IF pass
         THEN /\ status' = [status EXCEPT ![r] = "handling"]
              /\ admitted' = [admitted EXCEPT ![r] = clock]
              /\ UNCHANGED arrived
         ELSE /\ status' = [status EXCEPT ![r] = "rejected"]
              /\ arrived' = [arrived EXCEPT ![r] = 0]
              /\ UNCHANGED admitted
      /\ inFlight' \in {inFlight, inFlight + 1}
      /\ UNCHANGED <<clock, cache, asking, peer>>
      /\ status[r] = "limiting"
  BY DEF Admit, Raised, briefs
<1> HIDE DEF c, now, w
<1>4. \A d \in DOMAIN windows' : /\ windows'[d] \in [started : 0..MaxTime, count : 0..Limit]
                                 /\ windows'[d].started <= clock
  <2>1. DOMAIN windows' = Kept(now) \cup {c}
    BY <1>3
  <2>2. \A d \in Kept(now) : d # c => windows'[d] = windows[d]
    BY <1>3
  <2>3. windows'[c] = IF pass THEN [w EXCEPT !.count = @ + 1] ELSE w
    BY <1>3
  <2>4. windows'[c] \in [started : 0..MaxTime, count : 0..Limit] /\ windows'[c].started <= clock
    BY <1>2, <2>3, Ranges
  <2> QED
    BY <1>2, <2>1, <2>2, <2>4 DEF TimeInv, TypeOK, WindowsInTime
<1>5. DOMAIN windows' \subseteq Clients
  BY <1>1, <1>2, <1>3 DEF TimeInv, TypeOK
<1>6. /\ arrived' \in [Requests -> 0..MaxTime]
      /\ admitted' \in [Requests -> 0..MaxTime]
      /\ inFlight' \in Nat
      /\ status' \in [Requests -> Pending \cup Ended \cup {"new"}]
  <2>1. 0 \in 0..MaxTime /\ clock \in 0..MaxTime
    BY Ranges
  <2> QED
    BY <1>3, <2>1 DEF TimeInv, TypeOK, Pending, Ended
<1>7. TypeOK'
  BY <1>3, <1>4, <1>5, <1>6 DEF TimeInv, TypeOK, CacheTypeOK
<1>8. RequestsInTime'
  BY <1>3 DEF TimeInv, TypeOK, RequestsInTime, Pending
<1>9. WindowsInTime' /\ CacheWithin'
  BY <1>3, <1>4 DEF TimeInv, WindowsInTime, CacheWithin
<1> QED
  BY <1>7, <1>8, <1>9 DEF TimeInv

\* The status changes to one of a request that no longer waits for the limiter.
LEMMA EndTimeInv ==
    ASSUME TimeInv, NEW r \in Requests,
           NEW end \in Ended, status' = [status EXCEPT ![r] = end],
           arrived' \in [Requests -> 0..MaxTime],
           \A q \in Requests : q # r => arrived'[q] = arrived[q],
           asking' \in [Requests -> Keys \cup {NoKey}],
           DOMAIN cache' \subseteq Keys, \A k \in DOMAIN cache' : cache'[k] \in 0..MaxTime,
           CacheWithin', inFlight' \in Nat,
           UNCHANGED <<clock, peer, admitted, windows>>
    PROVE  TimeInv'
<1>1. TypeOK'
  BY DEF TimeInv, TypeOK, CacheTypeOK
<1>2. RequestsInTime'
  BY DEF TimeInv, TypeOK, RequestsInTime, Pending, Ended
<1>3. WindowsInTime'
  BY DEF TimeInv, WindowsInTime
<1> QED
  BY <1>1, <1>2, <1>3 DEF TimeInv

-----------------------------------------------------------------------------
(* The gauge. *)

Busy == {r \in Requests : status[r] \in {"handling", "stray", "leaked"}}

LEMMA BusyFacts ==
    ASSUME GaugeOffByDropped
    PROVE  IsFiniteSet(Busy) /\ inFlight = Cardinality(Busy) /\ inFlight \in Nat
<1>1. IsFiniteSet(Busy)
  BY CacheAssumption, FS_Subset DEF Busy
<1> QED
  BY <1>1, FS_CardinalityType DEF GaugeOffByDropped, Busy

\* A step that neither lets a request in nor answers one.
LEMMA GaugeKept ==
    ASSUME GaugeOffByDropped, Busy' = Busy, inFlight' = inFlight
    PROVE  GaugeOffByDropped'
  BY DEF GaugeOffByDropped, Busy

LEMMA AnswerGauge ==
    ASSUME TypeOK, GaugeOffByDropped, NEW r \in Requests, status[r] = "handling", Answer(r)
    PROVE  inFlight' \in Nat /\ GaugeOffByDropped'
<1>1. Busy' = Busy \ {r} /\ r \in Busy
  BY DEF Answer, TypeOK, Busy
<1>2. Cardinality(Busy \ {r}) = Cardinality(Busy) - 1 /\ IsFiniteSet(Busy \ {r})
  BY <1>1, BusyFacts, FS_RemoveElement
<1>3. Cardinality(Busy \ {r}) \in Nat
  BY <1>2, FS_CardinalityType
<1> QED
  BY <1>1, <1>2, <1>3, BusyFacts DEF Answer, GaugeOffByDropped, Busy

\* A tool call that is over, for a request that is there or gone.
LEMMA OverGauge ==
    ASSUME TypeOK, GaugeOffByDropped, NEW r \in Requests, Over(r)
    PROVE  inFlight' \in Nat /\ GaugeOffByDropped'
<1>1. CASE status[r] = "handling" /\ Answer(r)
  BY <1>1, AnswerGauge
<1>2. CASE /\ status[r] = "stray" /\ status' = [status EXCEPT ![r] = "leaked"]
           /\ inFlight' = inFlight
  <2>1. Busy' = Busy
    BY <1>2 DEF TypeOK, Busy
  <2> QED
    BY <1>2, <2>1, GaugeKept, BusyFacts
<1> QED
  BY <1>1, <1>2 DEF Over

LEMMA AdmitGauge ==
    ASSUME TypeOK, GaugeOffByDropped, NEW r \in Requests, Admit(r)
    PROVE  GaugeOffByDropped'
<1>1. \/ status' = [status EXCEPT ![r] = "handling"] /\ inFlight' = inFlight + 1
      \/ status' = [status EXCEPT ![r] = "rejected"] /\ inFlight' = inFlight
  BY DEF Admit, Raised
<1>2. status[r] = "limiting" /\ r \notin Busy
  BY DEF Admit, Busy
<1>3. CASE status' = [status EXCEPT ![r] = "handling"] /\ inFlight' = inFlight + 1
  <2>1. Busy' = Busy \cup {r}
    BY <1>3 DEF TypeOK, Busy
  <2>2. Cardinality(Busy \cup {r}) = Cardinality(Busy) + 1
    BY <1>2, BusyFacts, FS_AddElement
  <2> QED
    BY <1>3, <2>1, <2>2, BusyFacts DEF GaugeOffByDropped, Busy
<1>4. CASE status' = [status EXCEPT ![r] = "rejected"] /\ inFlight' = inFlight
  <2>1. Busy' = Busy
    BY <1>2, <1>4 DEF TypeOK, Busy
  <2> QED
    BY <1>4, <2>1, GaugeKept
<1> QED
  BY <1>1, <1>3, <1>4

LEMMA DropGauge ==
    ASSUME TypeOK, GaugeOffByDropped, NEW r \in Requests, Drop(r)
    PROVE  GaugeOffByDropped'
<1>1. Busy' = Busy
  BY DEF Drop, TypeOK, Busy, Pending
<1> QED
  BY <1>1, GaugeKept DEF Drop

-----------------------------------------------------------------------------
(* The cache. *)

\* What a write does: the limit stands, and of the fresh briefs only the oldest of a full
\* cache may go.
WithinBounds ==
    /\ Cardinality(DOMAIN cache') <= MaxBriefs
    /\ \A k \in DOMAIN cache \ DOMAIN cache' :
          Fresh(k) => Cardinality({j \in DOMAIN cache' : cache'[j] >= cache[k]}) >= MaxBriefs - 1

\* One more key than are left.
LEMMA OneMore ==
    ASSUME NEW left, IsFiniteSet(left), Cardinality(left) < MaxBriefs, NEW a
    PROVE  IsFiniteSet(left \cup {a}) /\ Cardinality(left \cup {a}) <= MaxBriefs
<1>1. IsFiniteSet(left \cup {a}) /\ Cardinality(left) \in Nat
  BY FS_AddElement, FS_CardinalityType
<1>2. CASE a \in left
  <2>1. left \cup {a} = left
    BY <1>2
  <2> QED
    BY <1>1, <2>1, CacheAssumption
<1>3. CASE a \notin left
  <2>1. Cardinality(left \cup {a}) = Cardinality(left) + 1
    BY <1>3, FS_AddElement
  <2> QED
    BY <1>1, <2>1, CacheAssumption
<1> QED
  BY <1>2, <1>3

\* What is left is less than the limit, and what goes is stale or the oldest of as many
\* as fill the cache.
LEMMA RoomFacts ==
    ASSUME TimeInv, NEW left \in Room
    PROVE  /\ left \subseteq DOMAIN cache /\ IsFiniteSet(left) /\ Cardinality(left) < MaxBriefs
           /\ \A k \in DOMAIN cache \ left :
                 Fresh(k) => Cardinality(left) = MaxBriefs - 1 /\ \A j \in left : cache[k] <= cache[j]
<1>1. /\ IsFiniteSet(DOMAIN cache) /\ Cardinality(DOMAIN cache) <= MaxBriefs
      /\ Cardinality(DOMAIN cache) \in Nat /\ MaxBriefs \in Nat \ {0}
  BY Ranges, FS_CardinalityType DEF TimeInv, CacheWithin
<1>2. FreshKeys \subseteq DOMAIN cache
  BY DEF FreshKeys
<1>3. /\ IsFiniteSet(FreshKeys) /\ Cardinality(FreshKeys) \in Nat
      /\ Cardinality(FreshKeys) <= Cardinality(DOMAIN cache)
  BY <1>1, <1>2, FS_Subset, FS_CardinalityType
<1>4. CASE left = DOMAIN cache /\ Cardinality(DOMAIN cache) < MaxBriefs
  BY <1>1, <1>4
<1>5. CASE left = FreshKeys /\ Cardinality(FreshKeys) < MaxBriefs
  BY <1>2, <1>3, <1>5 DEF FreshKeys
<1>6. CASE ~(Cardinality(FreshKeys) < MaxBriefs) /\ left \in {FreshKeys \ {k} : k \in Oldest(FreshKeys)}
  <2>1. PICK o \in Oldest(FreshKeys) : left = FreshKeys \ {o}
    BY <1>6
  <2>2. o \in FreshKeys /\ \A j \in FreshKeys : cache[o] <= cache[j]
    BY DEF Oldest
  <2>3. Cardinality(FreshKeys) = MaxBriefs
    BY <1>1, <1>3, <1>6
  <2>4. IsFiniteSet(left) /\ Cardinality(left) = MaxBriefs - 1
    BY <1>3, <2>1, <2>2, <2>3, FS_RemoveElement
  <2>5. Cardinality(left) < MaxBriefs
    BY <1>1, <2>4
  <2>6. \A k \in DOMAIN cache \ left : Fresh(k) => k = o
    BY <2>1 DEF FreshKeys
  <2> QED
    BY <1>2, <2>1, <2>2, <2>4, <2>5, <2>6
<1> QED
  BY <1>4, <1>5, <1>6 DEF Room

LEMMA StoreFacts ==
    ASSUME TimeInv, NEW r \in Requests, Store(r), clock' = clock
    PROVE  /\ DOMAIN cache' \subseteq Keys
           /\ \A k \in DOMAIN cache' : cache'[k] \in 0..MaxTime
           /\ CacheWithin'
           /\ asking' \in [Requests -> Keys \cup {NoKey}]
           /\ cache' = cache \/ WithinBounds
<1>1. /\ asking[r] \in Keys /\ DOMAIN cache \subseteq Keys
      /\ asking' \in [Requests -> Keys \cup {NoKey}]
  BY DEF Store, TimeInv, TypeOK, CacheTypeOK
<1>2. CASE cache' = cache
  <2>1. CacheWithin'
    BY <1>2 DEF TimeInv, CacheWithin
  <2> QED
    BY <1>1, <1>2, <2>1, Ranges
<1>3. CASE \E left \in Room :
              cache' = [k \in left \cup {asking[r]} |-> IF k = asking[r] THEN clock ELSE cache[k]]
  <2> DEFINE a == asking[r]
  <2>1. PICK left \in Room :
           cache' = [k \in left \cup {a} |-> IF k = a THEN clock ELSE cache[k]]
    BY <1>3
  <2> HIDE DEF a
  <2>2. /\ left \subseteq DOMAIN cache /\ IsFiniteSet(left) /\ Cardinality(left) < MaxBriefs
        /\ \A k \in DOMAIN cache \ left :
              Fresh(k) => Cardinality(left) = MaxBriefs - 1 /\ \A j \in left : cache[k] <= cache[j]
    BY RoomFacts
  <2>3. DOMAIN cache' = left \cup {a}
    BY <2>1
  <2>4. \A k \in DOMAIN cache' : cache'[k] = clock \/ (k \in left /\ cache'[k] = cache[k])
    BY <2>1
  <2>5. IsFiniteSet(DOMAIN cache') /\ Cardinality(DOMAIN cache') <= MaxBriefs
    BY <2>2, <2>3, OneMore
  <2>6. \A k \in DOMAIN cache' : cache'[k] \in 0..MaxTime /\ cache'[k] <= clock
    BY <2>2, <2>4, Ranges DEF TimeInv, CacheWithin
  <2>7. CacheWithin'
    BY <2>5, <2>6 DEF CacheWithin
  <2>8. ASSUME NEW k \in DOMAIN cache \ DOMAIN cache', Fresh(k)
        PROVE  Cardinality({j \in DOMAIN cache' : cache'[j] >= cache[k]}) >= MaxBriefs - 1
    <3> DEFINE later == {j \in DOMAIN cache' : cache'[j] >= cache[k]}
    <3>1. cache[k] \in 0..MaxTime /\ cache[k] <= clock
      BY Ranges DEF TimeInv, CacheWithin
    <3>2. Cardinality(left) = MaxBriefs - 1 /\ \A j \in left : cache[k] <= cache[j]
      BY <2>2, <2>3, <2>8
    <3>3. left \subseteq later
      BY <2>2, <2>3, <2>4, <3>1, <3>2, Ranges
    <3>4. IsFiniteSet(later)
      BY <2>5, FS_Subset
    <3>5. Cardinality(left) <= Cardinality(later) /\ Cardinality(later) \in Nat
      BY <3>3, <3>4, FS_Subset, FS_CardinalityType
    <3> HIDE DEF later
    <3>6. Cardinality(later) >= MaxBriefs - 1
      BY <3>2, <3>5, CacheAssumption
    <3> QED
      BY <3>6 DEF later
  <2>9. WithinBounds
    BY <2>5, <2>8 DEF WithinBounds
  <2>10. DOMAIN cache' \subseteq Keys
    BY <1>1, <2>2, <2>3 DEF a
  <2> QED
    BY <1>1, <2>6, <2>7, <2>9, <2>10
<1> QED
  BY <1>2, <1>3 DEF Store

\* What the ends of a call other than Store do of the cache.
KeepsCache == cache' = cache /\ asking' \in [Requests -> Keys \cup {NoKey}]

LEMMA OverTimeInv ==
    ASSUME TimeInv, GaugeOffByDropped, NEW r \in Requests, Over(r), KeepsCache \/ Store(r)
    PROVE  TimeInv'
<1>1. /\ UNCHANGED <<clock, peer, admitted, windows>>
      /\ arrived' \in [Requests -> 0..MaxTime]
      /\ \A q \in Requests : q # r => arrived'[q] = arrived[q]
  BY Ranges DEF Over, Answer, TimeInv, TypeOK
<1>2. \E end \in Ended : status' = [status EXCEPT ![r] = end]
  BY DEF Over, Answer, Ended
<1>3. inFlight' \in Nat
  BY OverGauge DEF TimeInv
<1>4. CASE KeepsCache
  <2>1. /\ DOMAIN cache' \subseteq Keys /\ \A k \in DOMAIN cache' : cache'[k] \in 0..MaxTime
        /\ CacheWithin' /\ asking' \in [Requests -> Keys \cup {NoKey}]
    BY <1>1, <1>4 DEF KeepsCache, TimeInv, TypeOK, CacheTypeOK, CacheWithin
  <2> QED
    BY <1>1, <1>2, <1>3, <2>1, EndTimeInv
<1>5. CASE Store(r)
  <2>1. /\ DOMAIN cache' \subseteq Keys /\ \A k \in DOMAIN cache' : cache'[k] \in 0..MaxTime
        /\ CacheWithin' /\ asking' \in [Requests -> Keys \cup {NoKey}]
    BY <1>1, <1>5, StoreFacts
  <2> QED
    BY <1>1, <1>2, <1>3, <2>1, EndTimeInv
<1> QED
  BY <1>4, <1>5

-----------------------------------------------------------------------------
(* The other steps. *)

LEMMA MissTimeInv ==
    ASSUME TimeInv, NEW r \in Requests, NEW k \in Keys, Miss(r, k), UNCHANGED <<clock, http>>
    PROVE  TimeInv'
<1>1. /\ asking' = [asking EXCEPT ![r] = k]
      /\ UNCHANGED <<clock, cache, status, peer, arrived, admitted, windows, inFlight>>
  BY DEF Miss, http
<1>2. TypeOK'
  BY <1>1 DEF TimeInv, TypeOK, CacheTypeOK
<1>3. RequestsInTime' /\ WindowsInTime' /\ CacheWithin'
  BY <1>1 DEF TimeInv, RequestsInTime, WindowsInTime, CacheWithin
<1> QED
  BY <1>2, <1>3 DEF TimeInv

\* A request dropped while its tool is called is no longer at the limiter.
LEMMA DropTimeInv == ASSUME TimeInv, NEW r \in Requests, Drop(r) PROVE TimeInv'
<1>1. \E end \in Ended : status' = [status EXCEPT ![r] = end]
  BY DEF Drop, TimeInv, TypeOK, Ended
<1>2. /\ arrived' = [arrived EXCEPT ![r] = 0]
      /\ UNCHANGED <<clock, cache, asking, peer, admitted, windows, inFlight>>
  BY DEF Drop, briefs
<1>3. /\ arrived' \in [Requests -> 0..MaxTime]
      /\ \A q \in Requests : q # r => arrived'[q] = arrived[q]
  BY <1>2, Ranges DEF TimeInv, TypeOK
<1>4. /\ DOMAIN cache' \subseteq Keys /\ \A k \in DOMAIN cache' : cache'[k] \in 0..MaxTime
      /\ CacheWithin' /\ asking' \in [Requests -> Keys \cup {NoKey}] /\ inFlight' \in Nat
  BY <1>2 DEF TimeInv, TypeOK, CacheTypeOK, CacheWithin
<1> QED
  BY <1>1, <1>2, <1>3, <1>4, EndTimeInv

LEMMA TickTimeInv == ASSUME TimeInv, Tick PROVE TimeInv'
<1>1. /\ clock' = clock + 1 /\ clock < MaxTime
      /\ UNCHANGED <<cache, asking>>
      /\ UNCHANGED <<status, peer, arrived, admitted, windows, inFlight>>
  BY DEF Tick, briefs, http
<1>2. TypeOK'
  BY <1>1, Ranges DEF TimeInv, TypeOK, CacheTypeOK
<1>3. RequestsInTime'
  BY <1>1, Ranges DEF Tick, TimeInv, RequestsInTime, Pending
<1>4. WindowsInTime'
  <2>1. \A c \in DOMAIN windows : windows[c].started \in 0..MaxTime
    BY DEF TimeInv, TypeOK
  <2> QED
    BY <1>1, <2>1, Ranges DEF TimeInv, WindowsInTime
<1>5. CacheWithin'
  BY <1>1, Ranges DEF TimeInv, CacheWithin
<1> QED
  BY <1>2, <1>3, <1>4, <1>5 DEF TimeInv

HttpInv == TimeInv /\ GaugeOffByDropped

LEMMA InitHttpInv == Init => HttpInv
<1> SUFFICES ASSUME Init PROVE GaugeOffByDropped
  BY InitTimeInv DEF HttpInv
<1>1. Busy = {} /\ inFlight = 0
  BY DEF Init, Busy
<1> QED
  BY <1>1, FS_EmptySet DEF GaugeOffByDropped, Busy

\* The ways the tool call goes on: it asks upstream, or is over.
LEMMA HandleSteps ==
    ASSUME TypeOK, NEW r \in Requests, Handle(r)
    PROVE  \/ \E k \in Keys : Miss(r, k) /\ UNCHANGED <<clock, http>>
           \/ Over(r) /\ (KeepsCache \/ Store(r))
<1>1. asking \in [Requests -> Keys \cup {NoKey}]
  BY DEF TypeOK, CacheTypeOK
<1>2. ASSUME UNCHANGED briefs PROVE KeepsCache
  BY <1>1, <1>2 DEF KeepsCache, briefs
<1>3. ASSUME NEW k, Hit(r, k) PROVE KeepsCache
  BY <1>2, <1>3 DEF Hit
<1>4. ASSUME Fail(r) PROVE KeepsCache
  BY <1>1, <1>4 DEF Fail, KeepsCache
<1> QED
  BY <1>2, <1>3, <1>4 DEF Handle

LEMMA HandleHttpInv == ASSUME HttpInv, NEW r \in Requests, Handle(r) PROVE HttpInv'
<1>1. TypeOK /\ TimeInv /\ GaugeOffByDropped
  BY DEF HttpInv, TimeInv
<1>2. ASSUME NEW k \in Keys, Miss(r, k), UNCHANGED <<clock, http>> PROVE HttpInv'
  <2>1. Busy' = Busy /\ inFlight' = inFlight
    BY <1>2 DEF http, Busy
  <2> QED
    BY <1>1, <1>2, <2>1, MissTimeInv, GaugeKept DEF HttpInv
<1>3. CASE Over(r) /\ (KeepsCache \/ Store(r))
  BY <1>1, <1>3, OverTimeInv, OverGauge DEF HttpInv
<1> QED
  BY <1>1, <1>2, <1>3, HandleSteps

LEMMA StepHttpInv == HttpInv /\ [Next]_vars => HttpInv'
<1> SUFFICES ASSUME HttpInv, [Next]_vars PROVE HttpInv'
  OBVIOUS
<1>1. TypeOK /\ TimeInv /\ GaugeOffByDropped
  BY DEF HttpInv, TimeInv
<1>2. ASSUME NEW r \in Requests, Arrive(r) PROVE HttpInv'
  <2>1. Busy' = Busy /\ inFlight' = inFlight
    BY <1>1, <1>2 DEF Arrive, Busy, TypeOK
  <2> QED
    BY <1>1, <1>2, <2>1, ArriveTimeInv, GaugeKept DEF HttpInv
<1>3. ASSUME NEW r \in Requests, Admit(r) PROVE HttpInv'
  BY <1>1, <1>3, AdmitTimeInv, AdmitGauge DEF HttpInv
<1>4. ASSUME NEW r \in Requests, Handle(r) PROVE HttpInv'
  BY <1>4, HandleHttpInv
<1>5. ASSUME NEW r \in Requests, Drop(r) PROVE HttpInv'
  BY <1>1, <1>5, DropTimeInv, DropGauge DEF HttpInv
<1>6. CASE Tick
  <2>1. Busy' = Busy /\ inFlight' = inFlight
    BY <1>6 DEF Tick, http, Busy
  <2> QED
    BY <1>1, <1>6, <2>1, TickTimeInv, GaugeKept DEF HttpInv
<1>7. CASE UNCHANGED vars
  BY <1>7 DEF vars, briefs, http, HttpInv, TimeInv, TypeOK, CacheTypeOK, RequestsInTime,
     WindowsInTime, CacheWithin, GaugeOffByDropped
<1> QED
  BY <1>2, <1>3, <1>4, <1>5, <1>6, <1>7 DEF Next

LEMMA SpecHttpInv == Spec => []HttpInv
  BY InitHttpInv, StepHttpInv, PTL DEF Spec

\* The middleware's gauge counts the requests being handled and those dropped while they
\* were, however they end and overlap.
THEOREM SpecGaugeOffByDropped == Spec => []GaugeOffByDropped
<1>1. HttpInv => GaugeOffByDropped  BY DEF HttpInv
<1> QED  BY <1>1, SpecHttpInv, PTL

\* Only Store writes the cache.
LEMMA StepBounded == TimeInv /\ [Next]_vars => cache' = cache \/ WithinBounds
<1> SUFFICES ASSUME TimeInv, [Next]_vars PROVE cache' = cache \/ WithinBounds
  OBVIOUS
<1>1. ASSUME NEW r \in Requests, Arrive(r) \/ Admit(r) \/ Drop(r) PROVE cache' = cache
  BY <1>1 DEF Arrive, Admit, Drop, briefs
<1>2. ASSUME NEW r \in Requests, Handle(r) PROVE cache' = cache \/ WithinBounds
  <2>1. CASE \E k \in Keys : Miss(r, k)
    BY <2>1 DEF Miss
  <2>2. CASE Over(r) /\ KeepsCache
    BY <2>2 DEF KeepsCache
  <2>3. CASE Over(r) /\ Store(r)
    <3>1. clock' = clock
      BY <2>3 DEF Over, Answer
    <3> QED
      BY <2>3, <3>1, StoreFacts
  <2> QED
    BY <1>2, <2>1, <2>2, <2>3, HandleSteps DEF TimeInv
<1>3. CASE Tick \/ UNCHANGED vars
  BY <1>3 DEF Tick, vars, briefs
<1> QED
  BY <1>1, <1>2, <1>3 DEF Next

\* App::get_market_brief: the cache holds no more than its limit, and no write costs a
\* fresh brief its place unless the others fill it, however many calls that missed at the
\* same time write after one another, with those that outlive their requests.
THEOREM SpecBoundedCache == Spec => BoundedCache
<1>1. HttpInv /\ [Next]_vars => [WithinBounds]_cache
  BY StepBounded DEF HttpInv
<1>2. [WithinBounds]_cache =>
        [/\ Cardinality(DOMAIN cache') <= MaxBriefs
         /\ \A k \in DOMAIN cache \ DOMAIN cache' :
               Fresh(k) => Cardinality({j \in DOMAIN cache' : cache'[j] >= cache[k]})
                             >= MaxBriefs - 1]_cache
  BY DEF WithinBounds
<1> QED
  BY <1>1, <1>2, SpecHttpInv, PTL DEF Spec, BoundedCache

-----------------------------------------------------------------------------
(* The limiter.  Of the requests A of a client, admitted at the times `at`, those of P
   count in the window begun at s.  A request is admitted at most MaxWait after the time
   it is counted by, and a window is followed by one that begins Window later or more:
   what counts in earlier windows is admitted before s + MaxWait, and what counts before
   the last of these even before s - Window + MaxWait. *)

Span(A, at, t) == {r \in A : at[r] >= t /\ at[r] < t + (Window - MaxWait)}

LastBefore(A, at, s, P) == {r \in A \ P : at[r] + Window > s + MaxWait}

Split(A, at, s, P) ==
    /\ P \subseteq A
    /\ Cardinality(P) <= Limit
    /\ \A r \in P : s <= at[r] /\ at[r] < s + Window + MaxWait
    /\ \A r \in A \ P : at[r] < s + MaxWait
    /\ Cardinality(LastBefore(A, at, s, P)) <= Limit

\* A span that reaches beyond s holds requests of two windows only.
LEMMA SpanOfTwo ==
    ASSUME NEW A \in SUBSET Requests, NEW at \in [Requests -> Nat], NEW s \in Nat,
           NEW t \in Nat, NEW P, Split(A, at, s, P), s < t + (Window - MaxWait)
    PROVE  Cardinality(Span(A, at, t)) <= 2 * Limit
<1> DEFINE L == LastBefore(A, at, s, P)
           U == P \cup L
<1>1. IsFiniteSet(A)
  BY CacheAssumption, FS_Subset
<1>2. IsFiniteSet(P) /\ IsFiniteSet(L)
  BY <1>1, FS_Subset DEF Split, LastBefore
<1>3. Cardinality(P) \in Nat /\ Cardinality(L) \in Nat /\ Cardinality(P \cap L) \in Nat
  BY <1>2, FS_CardinalityType, FS_Intersection
<1>4. IsFiniteSet(U) /\ Cardinality(U) = Cardinality(P) + Cardinality(L) - Cardinality(P \cap L)
  BY <1>2, FS_Union
<1>5. Cardinality(U) <= 2 * Limit /\ Cardinality(U) \in Nat
  <2>1. Cardinality(P) <= Limit /\ Cardinality(L) <= Limit /\ Limit \in Nat
    BY HttpAssumption DEF Split
  <2>2. Cardinality(U) \in Nat
    BY <1>4, FS_CardinalityType
  <2> HIDE DEF L, U
  <2> QED
    BY <1>3, <1>4, <2>1, <2>2
<1>6. Span(A, at, t) \subseteq U
  BY HttpAssumption DEF Span, LastBefore
<1>7. Cardinality(Span(A, at, t)) <= Cardinality(U) /\ IsFiniteSet(Span(A, at, t))
  BY <1>4, <1>6, FS_Subset
<1>8. Cardinality(Span(A, at, t)) \in Nat
  BY <1>7, FS_CardinalityType
<1> HIDE DEF U
<1> QED
  BY <1>5, <1>7, <1>8, HttpAssumption

\* One more request in the window it finds.
LEMMA SplitGrows ==
    ASSUME NEW A \in SUBSET Requests, NEW at \in [Requests -> Nat], NEW s \in Nat,
           NEW P, Split(A, at, s, P), Cardinality(P) < Limit,
           NEW r \in Requests \ A, NEW n \in Nat, s <= n, n < s + Window + MaxWait
    PROVE  Split(A \cup {r}, [at EXCEPT ![r] = n], s, P \cup {r})
<1> DEFINE at2 == [at EXCEPT ![r] = n]
<1>1. at2[r] = n /\ \A q \in A : at2[q] = at[q]
  OBVIOUS
<1>2. IsFiniteSet(P) /\ r \notin P
  BY CacheAssumption, FS_Subset DEF Split
<1>3. Cardinality(P \cup {r}) = Cardinality(P) + 1 /\ Cardinality(P) \in Nat
  BY <1>2, FS_AddElement, FS_CardinalityType
<1>4. LastBefore(A \cup {r}, at2, s, P \cup {r}) = LastBefore(A, at, s, P)
  BY <1>1 DEF LastBefore
<1> HIDE DEF at2
<1>5. Cardinality(P \cup {r}) <= Limit
  BY <1>3, HttpAssumption
<1>6. Split(A \cup {r}, at2, s, P \cup {r})
  BY <1>1, <1>4, <1>5 DEF Split
<1> QED
  BY <1>6 DEF at2

\* The first request of a window begun at m.
LEMMA SplitBegins ==
    ASSUME NEW A \in SUBSET Requests, NEW at \in [Requests -> Nat], NEW m \in Nat,
           \/ A = {}
           \/ \E s \in Nat, P \in SUBSET Requests : Split(A, at, s, P) /\ s + Window <= m,
           NEW r \in Requests \ A, NEW n \in Nat, m <= n, n <= m + MaxWait
    PROVE  Split(A \cup {r}, [at EXCEPT ![r] = n], m, {r})
<1> DEFINE at2 == [at EXCEPT ![r] = n]
           L   == LastBefore(A \cup {r}, at2, m, {r})
<1>1. at2[r] = n /\ \A q \in A : at2[q] = at[q]
  OBVIOUS
<1> HIDE DEF at2
<1>2. /\ {r} \subseteq A \cup {r}
      /\ \A q \in {r} : m <= at2[q] /\ at2[q] < m + Window + MaxWait
      /\ Cardinality({r}) <= Limit
  <2>1. Cardinality({r}) = 1
    BY FS_Singleton
  <2> QED
    BY <1>1, <2>1, HttpAssumption
<1>3. L = {q \in A : at[q] + Window > m + MaxWait}
  BY <1>1 DEF LastBefore
<1>4. (\A q \in A : at[q] < m + MaxWait) /\ Cardinality(L) <= Limit
  <2>1. CASE A = {}
    <3>1. L = {}
      BY <1>3, <2>1
    <3>2. Cardinality(L) = 0
      BY <3>1, FS_EmptySet
    <3> QED
      BY <2>1, <3>2, HttpAssumption
  <2>2. CASE \E s \in Nat, P \in SUBSET Requests : Split(A, at, s, P) /\ s + Window <= m
    <3>1. PICK s \in Nat, P \in SUBSET Requests : Split(A, at, s, P) /\ s + Window <= m
      BY <2>2
    <3>2. \A q \in A : at[q] \in Nat
      OBVIOUS
    <3>3. \A q \in A : at[q] < m + MaxWait
      BY <3>1, <3>2, HttpAssumption DEF Split
    <3>4. \A q \in A \ P : at[q] + Window < m + MaxWait
      BY <3>1, <3>2, HttpAssumption DEF Split
    <3>5. L \subseteq P
      <4>1. \A q \in A \ P : ~(at[q] + Window > m + MaxWait)
        BY <3>2, <3>4, HttpAssumption
      <4> QED
        BY <1>3, <4>1
    <3>6. IsFiniteSet(P)
      BY CacheAssumption, FS_Subset
    <3>7. Cardinality(L) <= Cardinality(P) /\ IsFiniteSet(L)
      BY <3>5, <3>6, FS_Subset
    <3>8. Cardinality(L) \in Nat /\ Cardinality(P) \in Nat /\ Cardinality(P) <= Limit
      BY <3>1, <3>6, <3>7, FS_CardinalityType DEF Split
    <3> QED
      BY <3>3, <3>7, <3>8, HttpAssumption
  <2> QED
    BY <2>1, <2>2
<1>5. \A q \in (A \cup {r}) \ {r} : at2[q] < m + MaxWait
  BY <1>1, <1>4
<1>6. Split(A \cup {r}, at2, m, {r})
  BY <1>2, <1>4, <1>5 DEF Split
<1> QED
  BY <1>6 DEF at2

\* One more request, admitted at n, and the spans it is in.
LEMMA SpansGrow ==
    ASSUME NEW A \in SUBSET Requests, NEW at \in [Requests -> Nat],
           \A t \in 0..MaxTime : Cardinality(Span(A, at, t)) <= 2 * Limit,
           NEW r \in Requests \ A, NEW n \in Nat, NEW s \in Nat, s <= n, NEW P,
           Split(A \cup {r}, [at EXCEPT ![r] = n], s, P)
    PROVE  \A t \in 0..MaxTime : Cardinality(Span(A \cup {r}, [at EXCEPT ![r] = n], t)) <= 2 * Limit
<1> DEFINE at2 == [at EXCEPT ![r] = n]
<1>1. at2[r] = n /\ (\A q \in A : at2[q] = at[q]) /\ at2 \in [Requests -> Nat]
  OBVIOUS
<1> HIDE DEF at2
<1> SUFFICES ASSUME NEW t \in 0..MaxTime
             PROVE  Cardinality(Span(A \cup {r}, at2, t)) <= 2 * Limit
  BY DEF at2
<1>2. t \in Nat
  BY CacheAssumption
<1>3. CASE n < t + (Window - MaxWait)
  <2>1. s < t + (Window - MaxWait)
    BY <1>2, <1>3, HttpAssumption
  <2>2. Split(A \cup {r}, at2, s, P) /\ A \cup {r} \in SUBSET Requests
    BY DEF at2
  <2> QED
    BY <1>1, <1>2, <2>1, <2>2, SpanOfTwo
<1>4. CASE ~(n < t + (Window - MaxWait))
  <2>1. Span(A \cup {r}, at2, t) = Span(A, at, t)
    BY <1>1, <1>4 DEF Span
  <2> QED
    BY <2>1
<1> QED
  BY <1>3, <1>4

\* Only the times of the requests in A matter.
LEMMA SplitKept ==
    ASSUME NEW A, NEW at, NEW at2, \A r \in A : at2[r] = at[r], NEW s, NEW P, Split(A, at, s, P)
    PROVE  Split(A, at2, s, P)
<1>1. P \subseteq A
  BY DEF Split
<1>2. LastBefore(A, at2, s, P) = LastBefore(A, at, s, P)
  BY DEF LastBefore
<1> QED
  BY <1>1, <1>2 DEF Split

-----------------------------------------------------------------------------

\* What a client's requests have to do with its window, or with the last one forgotten.
Known(c) ==
    \E P \in SUBSET Requests :
        /\ Split(Admitted(c), admitted, windows[c].started, P)
        /\ Cardinality(P) <= windows[c].count

Unknown(c) ==
    \/ Admitted(c) = {}
    \/ \E s \in Nat, P \in SUBSET Requests :
          Split(Admitted(c), admitted, s, P) /\ s + 2 * Window <= clock

Windowed(c) == IF c \in DOMAIN windows THEN Known(c) ELSE Unknown(c)

LimiterInv == (\A c \in Clients : Windowed(c)) /\ TwiceTheLimit

LEMMA InitLimiterInv == Init => LimiterInv
<1> SUFFICES ASSUME Init PROVE LimiterInv
  OBVIOUS
<1>1. \A c \in Clients : Admitted(c) = {}
  BY DEF Init, Admitted
<1>2. \A c \in Clients : Windowed(c)
  BY <1>1 DEF Init, Windowed, Unknown
<1>3. TwiceTheLimit
  <2>1. ASSUME NEW c \in Clients, NEW t \in 0..MaxTime
        PROVE  Cardinality({r \in Admitted(c) :
                   admitted[r] >= t /\ admitted[r] < t + (Window - MaxWait)}) <= 2 * Limit
    <3>1. {r \in Admitted(c) : admitted[r] >= t /\ admitted[r] < t + (Window - MaxWait)} = {}
      BY <1>1
    <3>2. Cardinality({}) = 0
      BY FS_EmptySet
    <3>3. 0 <= 2 * Limit
      BY HttpAssumption
    <3> QED
      BY <3>1, <3>2, <3>3, Zenon
  <2> QED
    BY <2>1 DEF TwiceTheLimit
<1> QED
  BY <1>2, <1>3 DEF LimiterInv

\* TwiceTheLimit speaks of spans.
LEMMA TwiceTheLimitSpans ==
    TwiceTheLimit <=>
        \A c \in Clients, t \in 0..MaxTime : Cardinality(Span(Admitted(c), admitted, t)) <= 2 * Limit
  BY DEF TwiceTheLimit, Span

\* Nothing is admitted and no window changes; the clock may go on.
LEMMA LimiterKept ==
    ASSUME TimeInv, LimiterInv, clock' \in Nat, clock <= clock',
           \A c \in Clients : Admitted(c)' = Admitted(c),
           UNCHANGED <<admitted, windows>>
    PROVE  LimiterInv'
<1>1. ASSUME NEW c \in Clients PROVE Windowed(c)'
  <2>1. Windowed(c) /\ Admitted(c)' = Admitted(c)
    BY DEF LimiterInv
  <2>2. CASE c \in DOMAIN windows
    BY <2>1, <2>2 DEF Windowed, Known, Split, LastBefore
  <2>3. CASE c \notin DOMAIN windows /\ Admitted(c) = {}
    BY <2>1, <2>3 DEF Windowed, Unknown
  <2>4. CASE c \notin DOMAIN windows /\ Admitted(c) # {}
    <3>1. PICK s \in Nat, P \in SUBSET Requests :
             Split(Admitted(c), admitted, s, P) /\ s + 2 * Window <= clock
      BY <2>1, <2>4 DEF Windowed, Unknown
    <3>2. s + 2 * Window <= clock'
      BY <3>1, Ranges
    <3>3. Split(Admitted(c)', admitted', s, P)
      BY <2>1, <3>1 DEF Split, LastBefore
    <3> QED
      BY <2>4, <3>2, <3>3 DEF Windowed, Unknown
  <2> QED
    BY <2>2, <2>3, <2>4
<1>2. TwiceTheLimit'
  BY DEF LimiterInv, TwiceTheLimit
<1> QED
  BY <1>1, <1>2 DEF LimiterInv

LEMMA AdmitLimiter == ASSUME TimeInv, LimiterInv, NEW r \in Requests, Admit(r) PROVE LimiterInv'
<1> SUFFICES ASSUME NEW c \in Clients, NEW now \in Nat, c = peer[r], now = arrived[r]
             PROVE  LimiterInv'
  BY Ranges
<1> DEFINE w    == Current(c, now)
           pass == w.count < Limit
           A    == Admitted(c)
           at2  == [admitted EXCEPT ![r] = clock]
<1>1. /\ clock \in Nat
      /\ now <= clock /\ clock <= now + MaxWait
      /\ Limit \in Nat \ {0} /\ Window \in Nat \ {0} /\ MaxWait \in Nat /\ MaxWait < Window
  BY Ranges DEF Admit, TimeInv, RequestsInTime, Pending
<1>2. /\ windows' = [d \in Kept(now) \cup {c} |->
                        IF d # c THEN windows[d]
                        ELSE IF pass THEN [w EXCEPT !.count = @ + 1] ELSE w]
      /\ IF pass
         THEN status' = [status EXCEPT ![r] = "handling"] /\ admitted' = at2
         ELSE status' = [status EXCEPT ![r] = "rejected"] /\ admitted' = admitted
      /\ clock' = clock /\ peer' = peer
      /\ status[r] = "limiting"
  BY DEF Admit
<1>3. /\ DOMAIN windows' = Kept(now) \cup {c} /\ Kept(now) \subseteq DOMAIN windows
      /\ \A d \in Kept(now) : d # c => windows'[d] = windows[d]
      /\ windows'[c] = IF pass THEN [w EXCEPT !.count = @ + 1] ELSE w
  BY <1>2 DEF Kept
<1>4. /\ admitted \in [Requests -> Nat]
      /\ status \in [Requests -> Pending \cup Ended \cup {"new"}]
      /\ \A d \in DOMAIN windows : /\ windows[d] \in [started : Nat, count : 0..Limit]
                                   /\ windows[d].started <= clock
  BY Ranges DEF TimeInv, TypeOK, WindowsInTime
<1>5. /\ \A d \in Clients : r \notin Admitted(d) /\ Admitted(d) \subseteq Requests
      /\ \A d \in Clients : d # c => Admitted(d)' = Admitted(d)
      /\ pass => A' = A \cup {r}
      /\ ~pass => A' = A
  BY <1>2, <1>4 DEF Admitted, TimeInv, TypeOK
<1>6. \A d \in Clients : \A q \in Admitted(d) : admitted'[q] = admitted[q]
  BY <1>2, <1>4, <1>5
<1>7. \A d \in DOMAIN windows : d \notin Kept(now) => windows[d].started + 2 * Window <= now
  BY <1>1, <1>4 DEF Kept, Since
<1>8. \A d \in Clients, t \in 0..MaxTime : Cardinality(Span(Admitted(d), admitted, t)) <= 2 * Limit
  BY TwiceTheLimitSpans DEF LimiterInv
<1> HIDE DEF w, A, at2
<1> USE <1>1
\* The other clients.
<1>9. ASSUME NEW d \in Clients, d # c PROVE Windowed(d)'
  <2>1. Windowed(d)
    BY DEF LimiterInv
  <2>2. ASSUME NEW s, NEW P, Split(Admitted(d), admitted, s, P)
        PROVE  Split(Admitted(d)', admitted', s, P)
    BY <1>5, <1>6, <1>9, <2>2, SplitKept
  <2>3. CASE d \in Kept(now)
    BY <1>3, <1>9, <2>1, <2>2, <2>3 DEF Windowed, Known
  <2>4. CASE d \in DOMAIN windows /\ d \notin Kept(now)
    <3>1. PICK P \in SUBSET Requests : Split(Admitted(d), admitted, windows[d].started, P)
      BY <2>1, <2>4 DEF Windowed, Known
    <3>2. windows[d].started \in Nat /\ windows[d].started + 2 * Window <= clock
      BY <1>4, <1>7, <2>4
    <3> QED
      BY <1>2, <1>3, <1>9, <2>2, <2>4, <3>1, <3>2 DEF Windowed, Unknown
  <2>5. CASE d \notin DOMAIN windows
    BY <1>2, <1>3, <1>5, <1>9, <2>1, <2>2, <2>5 DEF Windowed, Unknown
  <2> QED
    BY <2>3, <2>4, <2>5
<1>10. ASSUME NEW d \in Clients, Admitted(d)' = Admitted(d), NEW t \in 0..MaxTime
       PROVE  Cardinality(Span(Admitted(d)', admitted', t)) <= 2 * Limit
  <2>1. Span(Admitted(d)', admitted', t) = Span(Admitted(d), admitted, t)
    BY <1>6, <1>10 DEF Span
  <2> QED
    BY <1>8, <2>1
\* Refused, or admitted in a window that began at s.
<1>11. ASSUME Windowed(c)', ~pass PROVE LimiterInv'
  <2>1. \A d \in Clients : Admitted(d)' = Admitted(d)
    BY <1>5, <1>11 DEF A
  <2> QED
    BY <1>9, <1>10, <1>11, <2>1, TwiceTheLimitSpans DEF LimiterInv, TwiceTheLimit, Span
<1>12. ASSUME pass, NEW s \in Nat, s <= clock, windows'[c].started = s,
              NEW P \in SUBSET Requests, Split(A \cup {r}, at2, s, P),
              Cardinality(P) <= windows'[c].count
       PROVE  LimiterInv'
  <2>1. Admitted(c)' = A \cup {r} /\ admitted' = at2
    BY <1>2, <1>5, <1>12 DEF A
  <2>2. Windowed(c)'
    BY <1>3, <1>12, <2>1 DEF Windowed, Known
  <2>3. \A t \in 0..MaxTime : Cardinality(Span(A \cup {r}, at2, t)) <= 2 * Limit
    <3>1. A \in SUBSET Requests /\ r \in Requests \ A
      BY <1>5 DEF A
    <3>2. \A t \in 0..MaxTime : Cardinality(Span(A, admitted, t)) <= 2 * Limit
      BY <1>8 DEF A
    <3> QED
      BY <1>4, <1>12, <3>1, <3>2, SpansGrow DEF at2
  <2>4. \A d \in Clients, t \in 0..MaxTime :
           Cardinality(Span(Admitted(d)', admitted', t)) <= 2 * Limit
    BY <1>5, <1>10, <2>1, <2>3
  <2> QED
    BY <1>9, <2>2, <2>4 DEF LimiterInv, TwiceTheLimit, Span
\* The client of r, in the window it has.
<1>13. CASE c \in Kept(now) /\ Since(now, windows[c].started) < Window
  <2> DEFINE s == windows[c].started
             n == windows[c].count
  <2>1. w = windows[c]
    BY <1>13 DEF w, Current
  <2>2. s \in Nat /\ s <= clock /\ clock < s + Window + MaxWait /\ n \in 0..Limit
    BY <1>3, <1>4, <1>13 DEF Since
  <2>3. PICK P \in SUBSET Requests : Split(A, admitted, s, P) /\ Cardinality(P) <= n
    BY <1>3, <1>13 DEF LimiterInv, Windowed, Known, A
  <2>4. Cardinality(P) \in Nat
    BY CacheAssumption, FS_Subset, FS_CardinalityType
  <2>5. CASE ~pass
    <3>1. windows'[c] = windows[c] /\ admitted' = admitted /\ Admitted(c)' = Admitted(c)
      BY <1>2, <1>3, <1>5, <2>1, <2>5 DEF A
    <3>2. Windowed(c)'
      BY <1>3, <2>3, <3>1 DEF Windowed, Known, A
    <3> QED
      BY <1>11, <2>5, <3>2
  <2>6. CASE pass
    <3>1. n < Limit /\ windows'[c] = [windows[c] EXCEPT !.count = n + 1]
      BY <1>3, <2>1, <2>6
    <3>2. windows'[c].started = s /\ windows'[c].count = n + 1
      BY <1>3, <1>4, <1>13, <3>1
    <3>3. A \in SUBSET Requests /\ r \in Requests \ A
      BY <1>5 DEF A
    <3> HIDE DEF s, n
    <3>4. Cardinality(P) < Limit
      BY <2>2, <2>3, <2>4, <3>1
    <3>5. Split(A \cup {r}, at2, s, P \cup {r})
      BY <1>4, <2>2, <2>3, <3>3, <3>4, SplitGrows DEF at2
    <3>6. Cardinality(P \cup {r}) = Cardinality(P) + 1
      <4>1. IsFiniteSet(P) /\ r \notin P
        BY <2>3, <3>3, CacheAssumption, FS_Subset DEF Split
      <4> QED
        BY <4>1, FS_AddElement
    <3>7. Cardinality(P \cup {r}) <= windows'[c].count
      BY <2>2, <2>3, <2>4, <3>2, <3>6
    <3> QED
      BY <1>12, <2>2, <2>6, <3>2, <3>5, <3>7
  <2> QED
    BY <2>5, <2>6
\* Or in a new one.
<1>14. CASE ~(c \in Kept(now) /\ Since(now, windows[c].started) < Window)
  <2>1. w = [started |-> now, count |-> 0]
    BY <1>14 DEF w, Current
  <2>2. pass /\ windows'[c].started = now /\ windows'[c].count = 1
    <3>1. w.count = 0 /\ pass
      BY <2>1
    <3> QED
      BY <1>3, <2>1, <3>1
  <2>3. \/ A = {}
        \/ \E s \in Nat, P \in SUBSET Requests : Split(A, admitted, s, P) /\ s + Window <= now
    <3>1. CASE c \in DOMAIN windows
      <4>1. windows[c].started \in Nat /\ windows[c].started + Window <= now
        BY <1>4, <1>7, <1>14, <3>1 DEF Since
      <4> QED
        BY <3>1, <4>1 DEF LimiterInv, Windowed, Known, A
    <3>2. CASE c \notin DOMAIN windows
      BY <3>2 DEF LimiterInv, Windowed, Unknown, A
    <3> QED
      BY <3>1, <3>2
  <2>4. A \in SUBSET Requests /\ r \in Requests \ A
    BY <1>5 DEF A
  <2>5. Split(A \cup {r}, at2, now, {r})
    BY <1>4, <2>3, <2>4, SplitBegins DEF at2
  <2>6. Cardinality({r}) = 1
    BY FS_Singleton
  <2> QED
    BY <1>12, <2>2, <2>5, <2>6
<1> QED
  BY <1>13, <1>14

LEMMA StepLimiterInv == TimeInv /\ TimeInv' /\ LimiterInv /\ [Next]_vars => LimiterInv'
<1> SUFFICES ASSUME TimeInv, TimeInv', LimiterInv, [Next]_vars PROVE LimiterInv'
  OBVIOUS
<1>1. clock \in Nat /\ clock' \in Nat
  BY CacheAssumption DEF TimeInv, TypeOK, CacheTypeOK
<1>2. ASSUME NEW r \in Requests, Admit(r) PROVE LimiterInv'
  BY <1>2, AdmitLimiter
<1>3. ASSUME NEW r \in Requests, Arrive(r) \/ Handle(r) \/ Drop(r) PROVE LimiterInv'
  <2>1. UNCHANGED <<clock, peer, admitted, windows>>
    BY <1>3 DEF Arrive, Handle, Over, Drop, Answer, http
  <2>2. \A c \in Clients : Admitted(c)' = Admitted(c)
    <3>1. \/ status' = [status EXCEPT ![r] = "limiting"] /\ status[r] = "new"
          \/ status' = [status EXCEPT ![r] = "done"] /\ status[r] = "handling"
          \/ status' = status
          \/ status' = [status EXCEPT ![r] = "stray"] /\ status[r] = "handling"
          \/ status' = [status EXCEPT ![r] = "leaked"] /\ status[r] = "stray"
          \/ status' = [status EXCEPT ![r] = "lost"] /\ status[r] = "limiting"
      BY <1>3 DEF Arrive, Handle, Over, Drop, Answer, http, Pending, TimeInv, TypeOK
    <3> QED
      BY <2>1, <3>1 DEF Admitted, TimeInv, TypeOK
  <2> QED
    BY <1>1, <2>1, <2>2, LimiterKept
<1>4. CASE Tick
  <2>1. \A c \in Clients : Admitted(c)' = Admitted(c)
    BY <1>4 DEF Tick, http, Admitted
  <2> QED
    BY <1>1, <1>4, <2>1, LimiterKept DEF Tick, http
<1>5. CASE UNCHANGED vars
  <2>1. \A c \in Clients : Admitted(c)' = Admitted(c)
    BY <1>5 DEF vars, http, Admitted
  <2> QED
    BY <1>1, <1>5, <2>1, LimiterKept DEF vars, http
<1> QED
  BY <1>2, <1>3, <1>4, <1>5 DEF Next

\* allow_request: of no client do more than twice the limit pass within a window's length
\* less the wait for the mutex, whatever clients come and go and whatever is forgotten.
THEOREM SpecTwiceTheLimit == Spec => []TwiceTheLimit
<1>1. HttpInv => TimeInv  BY DEF HttpInv
<1>2. LimiterInv => TwiceTheLimit  BY DEF LimiterInv
<1> QED
  BY <1>1, <1>2, InitLimiterInv, StepLimiterInv, SpecHttpInv, PTL DEF Spec

=============================================================================
