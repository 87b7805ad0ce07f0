----------------------- MODULE MarketWatchesProofs -----------------------
(***************************************************************************)
(* Proofs about MarketWatches: the cap, one watch per token list, a task   *)
(* for every registered watch and truthful health, for any number of calls *)
(* and any bounds; and that a stopped watch stays stopped.                 *)
(***************************************************************************)
EXTENDS MarketWatches, FiniteSetTheorems, TLAPS

LEMMA RegisteredFinite ==
    ASSUME TypeOK
    PROVE  /\ IsFiniteSet(Registered)
           /\ Cardinality(Registered) \in Nat
<1>1. IsFiniteSet(Ids)
    BY FS_Interval, WatchAssumption DEF Ids
<1>2. IsFiniteSet(Registered)
    BY <1>1, FS_Subset DEF TypeOK
<1> QED
    BY <1>2, FS_CardinalityType

LEMMA InitInv == Init => WInv
<1> SUFFICES ASSUME Init PROVE WInv
    OBVIOUS
<1>1. Registered = {}
    BY DEF Init, Registered
<1>2. AtMostMax
    BY <1>1, FS_EmptySet, WatchAssumption DEF AtMostMax
<1>3. TypeOK
    BY <1>1, WatchAssumption DEF Init, TypeOK, Ids, TaskPC
<1> QED
    BY <1>1, <1>2, <1>3 DEF Init, WInv, OnePerTokens, Attended, HealthTruthful, DrawnIds,
       Drawn, FreshIds, StoppedIds, KnownIds, GrownIds, ReasonKept

\* A step of one task keeps the invariant if it keeps the health of its watch
\* and ends only without one.
LEMMA TaskFrame ==
    ASSUME WInv, NEW id \in Ids, NEW there \in TaskPC \ {"none"},
           task' = [task EXCEPT ![id] = there],
           task[id] # "none",
           there = "done" => id \notin Registered,
           UNCHANGED <<nextId, calls, cancelled>>,
           Registered' = Registered,
           grown' \in {grown, grown \cup {id}},
           failures' \in 0..MaxFailures,
           \A i \in Registered : i # id => watches'[i] = watches[i],
           id \in Registered => /\ watches'[id] \in Watch
                                /\ watches'[id].tokens = watches[id].tokens
                                /\ HealthOf(id)' /\ ReasonOf(id)'
    PROVE  WInv'
<1> USE DEF calls
<1>1. TypeOK'
    BY DEF WInv, TypeOK
<1>2. \A i \in Registered : watches'[i].tokens = watches[i].tokens
    OBVIOUS
<1>3. AtMostMax' /\ OnePerTokens'
    BY <1>2 DEF WInv, AtMostMax, OnePerTokens
<1>4. \A i \in Ids : i # id => task'[i] = task[i] /\ (i \in grown' <=> i \in grown)
    BY DEF WInv, TypeOK
<1>5. task'[id] = there
    BY DEF WInv, TypeOK
<1>6. Attended'
    BY <1>4, <1>5 DEF WInv, Attended, TypeOK
<1>7. HealthTruthful' /\ ReasonKept'
  <2>1. \A i \in Registered : i # id => HealthOf(i)' /\ ReasonOf(i)'
      BY <1>4 DEF WInv, TypeOK, HealthTruthful, ReasonKept, HealthOf, ReasonOf
  <2> QED
      BY <2>1 DEF HealthTruthful, ReasonKept
<1>8. DrawnIds' /\ FreshIds'
    BY <1>4, <1>5 DEF WInv, DrawnIds, FreshIds, Drawn
<1>9. StoppedIds' /\ KnownIds' /\ GrownIds'
    BY <1>4 DEF WInv, StoppedIds, KnownIds, GrownIds
<1> QED
    BY <1>1, <1>3, <1>6, <1>7, <1>8, <1>9 DEF WInv

\* Update keeps the set of watches and all of them but one.
LEMMA UpdateFacts ==
    ASSUME NEW id, NEW w, Update(id, w)
    PROVE  /\ Registered' = Registered
           /\ \A i \in Registered : i # id => watches'[i] = watches[i]
           /\ id \in Registered => watches'[id] = w
    BY DEF Update, Registered

\* What is known of the watch of a task before its step.
LEMMA WatchFacts ==
    ASSUME WInv, NEW id \in Registered
    PROVE  /\ watches[id] \in Watch /\ HealthOf(id) /\ ReasonOf(id)
           /\ id \notin cancelled
    BY DEF WInv, TypeOK, HealthTruthful, ReasonKept, StoppedIds

LEMMA BeginInv == ASSUME WInv, NEW id \in Ids, Begin(id) PROVE WInv'
<1> DEFINE w == [watches[id] EXCEPT !.state = IF id \in grown THEN "Reconnecting" ELSE "Connecting"]
<1>1. Update(id, w) /\ UNCHANGED <<nextId, calls, cancelled, grown, failures>>
    BY DEF Begin
<1>2. task[id] = "top" /\ task' = [task EXCEPT ![id] = "connecting"]
    BY DEF Begin, At
<1>3. ASSUME id \in Registered
      PROVE  /\ watches'[id] \in Watch /\ watches'[id].tokens = watches[id].tokens
             /\ HealthOf(id)' /\ ReasonOf(id)'
  <2>1. watches'[id] = w /\ task'[id] = "connecting"
      BY <1>1, <1>2, <1>3, UpdateFacts DEF WInv, TypeOK
  <2> QED
      BY <1>2, <1>3, <2>1, WatchFacts DEF HealthOf, ReasonOf, Watch, Health
<1>4. Registered' = Registered /\ \A i \in Registered : i # id => watches'[i] = watches[i]
    BY <1>1, UpdateFacts
<1>5. grown' \in {grown, grown \cup {id}} /\ failures' \in 0..MaxFailures
    BY <1>1 DEF WInv, TypeOK
<1> QED
    BY <1>1, <1>2, <1>3, <1>4, <1>5, TaskFrame DEF TaskPC

LEMMA ConnectInv == ASSUME WInv, NEW id \in Ids, Connect(id) PROVE WInv'
<1> DEFINE w == [watches[id] EXCEPT !.state = "Connected"]
<1>1. Update(id, w) /\ UNCHANGED <<nextId, calls, cancelled, grown, failures>>
    BY DEF Connect
<1>2. task[id] = "connecting" /\ task' = [task EXCEPT ![id] = "receiving"]
    BY DEF Connect, At
<1>3. ASSUME id \in Registered
      PROVE  /\ watches'[id] \in Watch /\ watches'[id].tokens = watches[id].tokens
             /\ HealthOf(id)' /\ ReasonOf(id)'
  <2>1. watches'[id] = w /\ task'[id] = "receiving"
      BY <1>1, <1>2, <1>3, UpdateFacts DEF WInv, TypeOK
  <2> QED
      BY <1>2, <1>3, <2>1, WatchFacts DEF HealthOf, ReasonOf, Watch, Health
<1>4. Registered' = Registered /\ \A i \in Registered : i # id => watches'[i] = watches[i]
    BY <1>1, UpdateFacts
<1>5. grown' \in {grown, grown \cup {id}} /\ failures' \in 0..MaxFailures
    BY <1>1 DEF WInv, TypeOK
<1> QED
    BY <1>1, <1>2, <1>3, <1>4, <1>5, TaskFrame DEF TaskPC

LEMMA FailInv == ASSUME WInv, NEW id \in Ids, Fail(id) PROVE WInv'
<1>1. /\ task[id] \in {"connecting", "receiving"}
      /\ task' = [task EXCEPT ![id] = "failed"]
      /\ UNCHANGED <<watches, nextId, calls, cancelled, grown>>
      /\ failures' \in 0..MaxFailures
    BY WatchAssumption DEF Fail, WInv, TypeOK
<1>2. Registered' = Registered
    BY <1>1 DEF Registered
<1>3. ASSUME id \in Registered PROVE HealthOf(id)' /\ ReasonOf(id)' /\ watches[id] \in Watch
  <2>1. task'[id] = "failed"
      BY <1>1 DEF WInv, TypeOK
  <2> QED
      BY <1>1, <1>3, <2>1, WatchFacts DEF HealthOf, ReasonOf
<1> QED
    BY <1>1, <1>2, <1>3, TaskFrame DEF TaskPC

LEMMA ReceiveInv == ASSUME WInv, NEW id \in Ids, Receive(id) PROVE WInv'
<1> DEFINE w == [watches[id] EXCEPT !.lastError = FALSE]
<1>1. Update(id, w) /\ UNCHANGED <<nextId, calls, cancelled, task, grown, failures>>
    BY DEF Receive, tasks
<1>2. task[id] = "receiving" /\ task' = [task EXCEPT ![id] = "receiving"]
    BY <1>1 DEF Receive, WInv, TypeOK
<1>3. ASSUME id \in Registered
      PROVE  /\ watches'[id] \in Watch /\ watches'[id].tokens = watches[id].tokens
             /\ HealthOf(id)' /\ ReasonOf(id)'
  <2>1. watches'[id] = w /\ task'[id] = "receiving"
      BY <1>1, <1>2, <1>3, UpdateFacts DEF WInv, TypeOK
  <2> QED
      BY <1>2, <1>3, <2>1, WatchFacts DEF HealthOf, ReasonOf, Watch, Health
<1>4. Registered' = Registered /\ \A i \in Registered : i # id => watches'[i] = watches[i]
    BY <1>1, UpdateFacts
<1>5. grown' \in {grown, grown \cup {id}} /\ failures' \in 0..MaxFailures
    BY <1>1 DEF WInv, TypeOK
<1> QED
    BY <1>1, <1>2, <1>3, <1>4, <1>5, TaskFrame DEF TaskPC

\* The records that RecordError and Mark write.
LEMMA ErrorFields ==
    ASSUME NEW v \in Watch, NEW w, w = [v EXCEPT !.errors = @ + 1, !.lastError = TRUE]
    PROVE  /\ w \in Watch
           /\ w.errors = v.errors + 1 /\ w.lastError = TRUE
           /\ w.state = v.state /\ w.reconnects = v.reconnects /\ w.tokens = v.tokens
           /\ v.errors \in Nat /\ v.reconnects \in Nat
<1>1. /\ v = [tokens |-> v.tokens, state |-> v.state, lastError |-> v.lastError,
              errors |-> v.errors, reconnects |-> v.reconnects]
      /\ v.tokens \in TokenLists /\ v.state \in Health /\ v.lastError \in BOOLEAN
      /\ v.errors \in Nat /\ v.reconnects \in Nat
    BY DEF Watch
<1>2. w = [tokens |-> v.tokens, state |-> v.state, lastError |-> TRUE,
           errors |-> v.errors + 1, reconnects |-> v.reconnects]
    BY <1>1
<1>3. v.errors + 1 \in Nat
    BY <1>1
<1> QED
    BY <1>1, <1>2, <1>3 DEF Watch

LEMMA MarkFields ==
    ASSUME NEW v \in Watch, NEW w,
           w = [v EXCEPT !.state = "Reconnecting", !.reconnects = @ + 1]
    PROVE  /\ w \in Watch
           /\ w.reconnects = v.reconnects + 1 /\ w.state = "Reconnecting"
           /\ w.errors = v.errors /\ w.lastError = v.lastError /\ w.tokens = v.tokens
           /\ v.errors \in Nat /\ v.reconnects \in Nat
<1>1. /\ v = [tokens |-> v.tokens, state |-> v.state, lastError |-> v.lastError,
              errors |-> v.errors, reconnects |-> v.reconnects]
      /\ v.tokens \in TokenLists /\ v.state \in Health /\ v.lastError \in BOOLEAN
      /\ v.errors \in Nat /\ v.reconnects \in Nat
    BY DEF Watch
<1>2. w = [tokens |-> v.tokens, state |-> "Reconnecting", lastError |-> v.lastError,
           errors |-> v.errors, reconnects |-> v.reconnects + 1]
    BY <1>1
<1>3. v.reconnects + 1 \in Nat
    BY <1>1
<1> QED
    BY <1>1, <1>2, <1>3 DEF Watch, Health

LEMMA RecordErrorInv == ASSUME WInv, NEW id \in Ids, RecordError(id) PROVE WInv'
<1> DEFINE w == [watches[id] EXCEPT !.errors = @ + 1, !.lastError = TRUE]
<1>1. Update(id, w) /\ UNCHANGED <<nextId, calls, cancelled, grown, failures>>
    BY DEF RecordError
<1>2. task[id] = "failed" /\ task' = [task EXCEPT ![id] = "marking"]
    BY DEF RecordError, At
<1>3. ASSUME id \in Registered
      PROVE  /\ watches'[id] \in Watch /\ watches'[id].tokens = watches[id].tokens
             /\ HealthOf(id)' /\ ReasonOf(id)'
  <2>1. watches'[id] = w /\ task'[id] = "marking"
      BY <1>1, <1>2, <1>3, UpdateFacts DEF WInv, TypeOK
  <2>2. watches[id] \in Watch /\ HealthOf(id) /\ ReasonOf(id)
      BY <1>3, WatchFacts
  <2>3. /\ w \in Watch
        /\ w.errors = watches[id].errors + 1 /\ w.lastError = TRUE
        /\ w.state = watches[id].state /\ w.reconnects = watches[id].reconnects
        /\ w.tokens = watches[id].tokens
        /\ watches[id].errors \in Nat /\ watches[id].reconnects \in Nat
      BY <2>2, ErrorFields
  <2> HIDE DEF w
  <2> QED
      BY <1>1, <1>2, <2>1, <2>2, <2>3 DEF HealthOf, ReasonOf
<1>4. Registered' = Registered /\ \A i \in Registered : i # id => watches'[i] = watches[i]
    BY <1>1, UpdateFacts
<1>5. grown' \in {grown, grown \cup {id}} /\ failures' \in 0..MaxFailures
    BY <1>1 DEF WInv, TypeOK
<1> QED
    BY <1>1, <1>2, <1>3, <1>4, <1>5, TaskFrame DEF TaskPC

LEMMA MarkInv == ASSUME WInv, NEW id \in Ids, Mark(id) PROVE WInv'
<1> DEFINE w == [watches[id] EXCEPT !.state = "Reconnecting", !.reconnects = @ + 1]
<1>1. Update(id, w) /\ UNCHANGED <<nextId, calls, cancelled, grown, failures>>
    BY DEF Mark
<1>2. task[id] = "marking" /\ task' = [task EXCEPT ![id] = "sleeping"]
    BY DEF Mark, At
<1>3. ASSUME id \in Registered
      PROVE  /\ watches'[id] \in Watch /\ watches'[id].tokens = watches[id].tokens
             /\ HealthOf(id)' /\ ReasonOf(id)'
  <2>1. watches'[id] = w /\ task'[id] = "sleeping"
      BY <1>1, <1>2, <1>3, UpdateFacts DEF WInv, TypeOK
  <2>2. watches[id] \in Watch /\ HealthOf(id) /\ ReasonOf(id)
      BY <1>3, WatchFacts
  <2>3. /\ w \in Watch
        /\ w.reconnects = watches[id].reconnects + 1 /\ w.state = "Reconnecting"
        /\ w.errors = watches[id].errors /\ w.lastError = watches[id].lastError
        /\ w.tokens = watches[id].tokens
        /\ watches[id].errors \in Nat /\ watches[id].reconnects \in Nat
      BY <2>2, MarkFields
  <2> HIDE DEF w
  <2> QED
      BY <1>1, <1>2, <2>1, <2>2, <2>3 DEF HealthOf, ReasonOf
<1>4. Registered' = Registered /\ \A i \in Registered : i # id => watches'[i] = watches[i]
    BY <1>1, UpdateFacts
<1>5. grown' \in {grown, grown \cup {id}} /\ failures' \in 0..MaxFailures
    BY <1>1 DEF WInv, TypeOK
<1> QED
    BY <1>1, <1>2, <1>3, <1>4, <1>5, TaskFrame DEF TaskPC

LEMMA WakeInv == ASSUME WInv, NEW id \in Ids, Wake(id) PROVE WInv'
<1>1. /\ task[id] = "sleeping" /\ task' = [task EXCEPT ![id] = "top"]
      /\ UNCHANGED <<watches, nextId, calls, cancelled, failures>>
      /\ grown' = grown \cup {id}
    BY DEF Wake, At
<1>2. Registered' = Registered
    BY <1>1 DEF Registered
<1>3. ASSUME id \in Registered PROVE HealthOf(id)' /\ ReasonOf(id)' /\ watches[id] \in Watch
  <2>1. task'[id] = "top"
      BY <1>1 DEF WInv, TypeOK
  <2> QED
      BY <1>1, <1>3, <2>1, WatchFacts DEF HealthOf, ReasonOf
<1> QED
    BY <1>1, <1>2, <1>3, TaskFrame DEF TaskPC, WInv, TypeOK

LEMMA BreakInv == ASSUME WInv, NEW id \in Ids, Break(id) PROVE WInv'
<1>1. /\ task[id] # "none" /\ task' = [task EXCEPT ![id] = "done"]
      /\ UNCHANGED <<watches, nextId, calls, cancelled, grown, failures>>
    BY DEF Break, Quit
<1>2. Registered' = Registered
    BY <1>1 DEF Registered
<1>3. id \notin Registered
    BY WatchFacts DEF Break
<1> QED
    BY <1>1, <1>2, <1>3, TaskFrame DEF TaskPC, WInv, TypeOK

-----------------------------------------------------------------------------
(* Steps of the calls. *)

LEMMA StartWatchInv ==
    ASSUME WInv, NEW c \in Callers, NEW ts \in TokenLists, StartWatch(c, ts)
    PROVE  WInv'
<1> USE DEF StartWatch, tasks
<1>1. nextId \in Ids /\ nextId \in Nat /\ nextId' = nextId + 1
    BY WatchAssumption DEF WInv, TypeOK, Ids
<1>2. Registered' = Registered
    BY DEF Registered
<1>3. TypeOK'
    BY <1>1, <1>2, WatchAssumption DEF WInv, TypeOK, Ids
<1>4. /\ mine'[c] = nextId /\ tokens'[c] = ts /\ pc'[c] = "insert" /\ pc[c] = "idle"
      /\ \A d \in Callers \ {c} : mine'[d] = mine[d] /\ tokens'[d] = tokens[d] /\ pc'[d] = pc[d]
    BY DEF WInv, TypeOK
<1>5. /\ nextId \notin Registered /\ task[nextId] = "none" /\ nextId \notin cancelled
      /\ \A d \in Callers : nextId \notin doomed[d]
    BY <1>1 DEF WInv, KnownIds, StoppedIds
<1>6. AtMostMax' /\ OnePerTokens' /\ HealthTruthful' /\ ReasonKept'
    BY <1>2 DEF WInv, AtMostMax, OnePerTokens, HealthTruthful, ReasonKept, HealthOf, ReasonOf
<1>7. Attended'
    BY <1>2, <1>4 DEF WInv, Attended
<1>8. nextId \notin grown
    BY <1>1 DEF WInv, GrownIds
<1>9. DrawnIds'
  <2>1. \A d \in Callers \ {c} : Drawn(d)' = Drawn(d)
      BY <1>4 DEF Drawn
  <2>2. \A d \in Callers \ {c} : Drawn(d) => mine'[d] \in Ids /\ mine'[d] < nextId
      BY <1>4 DEF WInv, DrawnIds
  <2>3. \A i \in Ids : i < nextId => i # nextId /\ i < nextId'
      BY <1>1 DEF Ids
  <2>4. \A d \in Callers \ {c} : Drawn(d) => mine'[d] # nextId
      BY <2>2, <2>3
  <2>5. ASSUME NEW d \in Callers, Drawn(d)'
        PROVE  /\ tokens'[d] \in TokenLists
               /\ mine'[d] \in Ids /\ mine'[d] < nextId'
               /\ task'[mine'[d]] = "none" /\ mine'[d] \notin grown'
               /\ \A e \in Callers \ {d} : Drawn(e)' => mine'[e] # mine'[d]
    <3>1. CASE d = c
      <4>1. \A e \in Callers \ {c} : Drawn(e)' => mine'[e] # mine'[c]
          BY <1>4, <2>1, <2>4
      <4> QED
          BY <1>1, <1>4, <1>5, <1>8, <3>1, <4>1
    <3>2. CASE d # c
      <4>1. Drawn(d) /\ mine'[d] = mine[d] /\ tokens'[d] = tokens[d]
          BY <1>4, <2>1, <2>5, <3>2
      <4>2. /\ tokens[d] \in TokenLists
            /\ mine[d] \in Ids /\ mine[d] < nextId
            /\ task[mine[d]] = "none" /\ mine[d] \notin grown
            /\ \A e \in Callers \ {d} : Drawn(e) => mine[e] # mine[d]
          BY <4>1 DEF WInv, DrawnIds
      <4>3. \A e \in Callers \ {d} : Drawn(e)' => mine'[e] # mine'[d]
          BY <1>4, <2>1, <2>4, <3>2, <4>1, <4>2
      <4> QED
          BY <2>3, <4>1, <4>2, <4>3
    <3> QED
        BY <3>1, <3>2
  <2> QED
      BY <2>5 DEF DrawnIds
<1>10. FreshIds'
    BY <1>2, <1>4, <1>5 DEF WInv, FreshIds
<1>11. StoppedIds' /\ KnownIds' /\ GrownIds'
  <2>1. \A i \in Ids : i < nextId => i < nextId'
      BY <1>1 DEF Ids
  <2> QED
      BY <1>2, <2>1 DEF WInv, StoppedIds, KnownIds, GrownIds
<1> QED
    BY <1>3, <1>6, <1>7, <1>9, <1>10, <1>11 DEF WInv

\* A call that found its tokens watched, or no room, gives its id up.
LEMMA RefuseInv ==
    ASSUME WInv, NEW c \in Callers, pc[c] = "insert", Return(c), UNCHANGED watches,
           UNCHANGED <<nextId, doomed, tasks, cancelled>>
    PROVE  WInv'
<1> USE DEF Return, tasks
<1>1. Registered' = Registered
    BY DEF Registered
<1>2. TypeOK'
    BY <1>1, WatchAssumption DEF WInv, TypeOK
<1>3. /\ pc'[c] = "idle"
      /\ \A d \in Callers \ {c} : mine'[d] = mine[d] /\ tokens'[d] = tokens[d] /\ pc'[d] = pc[d]
    BY DEF WInv, TypeOK
<1>4. AtMostMax' /\ OnePerTokens' /\ HealthTruthful' /\ ReasonKept'
    BY <1>1 DEF WInv, AtMostMax, OnePerTokens, HealthTruthful, ReasonKept, HealthOf, ReasonOf
<1>5. Attended'
    BY <1>1, <1>3 DEF WInv, Attended
<1>6. DrawnIds' /\ FreshIds'
    BY <1>1, <1>3 DEF WInv, DrawnIds, FreshIds, Drawn
<1>7. StoppedIds' /\ KnownIds' /\ GrownIds'
    BY <1>1 DEF WInv, StoppedIds, KnownIds, GrownIds
<1> QED
    BY <1>2, <1>4, <1>5, <1>6, <1>7 DEF WInv

LEMMA RegisterInv ==
    ASSUME WInv, NEW c \in Callers, pc[c] = "insert",
           ~Watched(tokens[c]), ~Full,
           Register(mine[c], NewWatch(tokens[c])),
           pc' = [pc EXCEPT ![c] = "spawn"],
           UNCHANGED <<tokens, mine>>,
           UNCHANGED <<nextId, doomed, tasks, cancelled>>
    PROVE  WInv'
<1> DEFINE id == mine[c]
<1> USE DEF tasks
<1>1. /\ id \in Ids /\ id < nextId /\ id \notin Registered /\ id \notin cancelled
      /\ task[id] = "none" /\ tokens[c] \in TokenLists
      /\ \A d \in Callers : id \notin doomed[d]
      /\ \A d \in Callers \ {c} : Drawn(d) => mine[d] # id
    BY DEF WInv, DrawnIds, FreshIds, Drawn
<1>2. /\ Registered' = Registered \cup {id}
      /\ watches'[id] = NewWatch(tokens[c])
      /\ \A i \in Registered : watches'[i] = watches[i]
    BY <1>1 DEF Register, Registered
<1>3. NewWatch(tokens[c]) \in Watch
    BY <1>1 DEF NewWatch, Watch, Health
<1>4. pc'[c] = "spawn" /\ \A d \in Callers \ {c} : pc'[d] = pc[d]
    BY DEF WInv, TypeOK
<1>5. TypeOK'
    BY <1>1, <1>2, <1>3 DEF WInv, TypeOK
<1>6. AtMostMax'
  <2>1. TypeOK
      BY DEF WInv
  <2>2. Cardinality(Registered) < MaxActive
      BY <2>1, RegisteredFinite, WatchAssumption DEF Full
  <2>3. Cardinality(Registered \cup {id}) = Cardinality(Registered) + 1
      BY <1>1, <2>1, RegisteredFinite, FS_AddElement
  <2> QED
      BY <1>2, <2>1, <2>2, <2>3, RegisteredFinite, WatchAssumption DEF AtMostMax
<1>7. OnePerTokens'
  <2>1. watches'[id].tokens = tokens[c]
      BY <1>2 DEF NewWatch
  <2>2. \A i \in Registered : watches'[i].tokens # tokens[c]
      BY <1>2 DEF Watched
  <2> QED
      BY <1>2, <2>1, <2>2 DEF WInv, OnePerTokens
<1>8. Attended'
    BY <1>1, <1>2, <1>4 DEF WInv, Attended
<1>9. HealthTruthful' /\ ReasonKept'
  <2>1. HealthOf(id)' /\ ReasonOf(id)'
      BY <1>1, <1>2 DEF HealthOf, ReasonOf, NewWatch
  <2>2. \A i \in Registered : HealthOf(i)' /\ ReasonOf(i)'
      BY <1>2 DEF WInv, HealthTruthful, ReasonKept, HealthOf, ReasonOf
  <2> QED
      BY <1>2, <2>1, <2>2 DEF HealthTruthful, ReasonKept
<1>10. DrawnIds' /\ FreshIds'
  <2>1. \A d \in Callers : Drawn(d)' = Drawn(d)
      BY <1>4 DEF Drawn
  <2>2. DrawnIds'
      BY <2>1 DEF WInv, DrawnIds
  <2>3. \A d \in Callers : pc'[d] = "insert" => pc[d] = "insert" /\ mine[d] # id
      BY <1>1, <1>4 DEF Drawn
  <2> QED
      BY <1>2, <2>2, <2>3 DEF WInv, FreshIds
<1>11. StoppedIds' /\ KnownIds' /\ GrownIds'
    BY <1>1, <1>2 DEF WInv, StoppedIds, KnownIds, GrownIds
<1> QED
    BY <1>5, <1>6, <1>7, <1>8, <1>9, <1>10, <1>11 DEF WInv

LEMMA InsertInv == ASSUME WInv, NEW c \in Callers, Insert(c) PROVE WInv'
    BY RefuseInv, RegisterInv DEF Insert

LEMMA SpawnInv == ASSUME WInv, NEW c \in Callers, Spawn(c) PROVE WInv'
<1> DEFINE id == mine[c]
<1> USE DEF Spawn, Return
<1>1. /\ id \in Ids /\ id < nextId /\ task[id] = "none" /\ id \notin grown
      /\ \A d \in Callers \ {c} : Drawn(d) => mine[d] # id
    BY DEF WInv, DrawnIds, Drawn
<1>2. Registered' = Registered
    BY DEF Registered
<1>3. /\ pc'[c] = "idle"
      /\ \A d \in Callers \ {c} : mine'[d] = mine[d] /\ tokens'[d] = tokens[d] /\ pc'[d] = pc[d]
      /\ task'[id] = "top" /\ \A i \in Ids : i # id => task'[i] = task[i]
    BY <1>1 DEF WInv, TypeOK
<1>4. TypeOK'
    BY <1>1, <1>2, WatchAssumption DEF WInv, TypeOK, TaskPC
<1>5. AtMostMax' /\ OnePerTokens'
    BY <1>2 DEF WInv, AtMostMax, OnePerTokens
<1>6. HealthTruthful' /\ ReasonKept'
  <2>1. ASSUME NEW i \in Registered PROVE HealthOf(i)' /\ ReasonOf(i)'
    <3>1. i \in Ids /\ HealthOf(i) /\ ReasonOf(i)
        BY <2>1 DEF WInv, TypeOK, HealthTruthful, ReasonKept
    <3>2. CASE i = id
        BY <1>1, <1>3, <3>1, <3>2 DEF HealthOf, ReasonOf
    <3>3. CASE i # id
        BY <1>3, <3>1, <3>3 DEF HealthOf, ReasonOf
    <3> QED
        BY <3>2, <3>3
  <2> QED
      BY <1>2, <2>1 DEF HealthTruthful, ReasonKept
<1>7. Attended'
    BY <1>2, <1>3 DEF WInv, Attended, TypeOK
<1>8. DrawnIds' /\ FreshIds'
  <2>1. \A d \in Callers : Drawn(d)' => d # c /\ Drawn(d)
      BY <1>3 DEF Drawn
  <2> QED
      BY <1>1, <1>2, <1>3, <2>1 DEF WInv, DrawnIds, FreshIds
<1>9. StoppedIds' /\ KnownIds' /\ GrownIds'
    BY <1>1, <1>2, <1>3 DEF WInv, StoppedIds, KnownIds, GrownIds
<1> QED
    BY <1>4, <1>5, <1>6, <1>7, <1>8, <1>9 DEF WInv

LEMMA RemoveInv ==
    ASSUME WInv, NEW c \in Callers, NEW S \in SUBSET Registered, RemoveWatches(c, S)
    PROVE  WInv'
<1> USE DEF RemoveWatches, tasks
<1>1. /\ Registered' = Registered \ S
      /\ \A i \in Registered' : watches'[i] = watches[i]
    BY DEF Unregister, Restrict, Registered
<1>2. /\ pc'[c] = "signal" /\ pc[c] = "idle" /\ doomed'[c] = S
      /\ \A d \in Callers \ {c} : pc'[d] = pc[d] /\ doomed'[d] = doomed[d]
    BY DEF WInv, TypeOK
<1>3. TypeOK'
    BY <1>1 DEF WInv, TypeOK
<1>4. AtMostMax'
  <2>1. TypeOK /\ AtMostMax
      BY DEF WInv
  <2>2. Cardinality(Registered') <= Cardinality(Registered) /\ Cardinality(Registered') \in Nat
      BY <1>1, <2>1, RegisteredFinite, FS_Subset, FS_CardinalityType
  <2> QED
      BY <2>1, <2>2, RegisteredFinite, WatchAssumption DEF AtMostMax
<1>5. OnePerTokens' /\ HealthTruthful' /\ ReasonKept'
    BY <1>1 DEF WInv, OnePerTokens, HealthTruthful, ReasonKept, HealthOf, ReasonOf
<1>6. Attended'
    BY <1>1, <1>2 DEF WInv, Attended
<1>7. DrawnIds'
    BY <1>2 DEF WInv, DrawnIds, Drawn
<1>8. FreshIds'
    BY <1>1, <1>2 DEF WInv, FreshIds
<1>9. StoppedIds'
  <2>1. S \subseteq Ids /\ \A i \in S : i < nextId
      BY DEF WInv, TypeOK, KnownIds
  <2> QED
      BY <1>1, <1>2, <2>1 DEF WInv, StoppedIds
<1>10. KnownIds' /\ GrownIds'
    BY <1>1 DEF WInv, KnownIds, GrownIds
<1> QED
    BY <1>3, <1>4, <1>5, <1>6, <1>7, <1>8, <1>9, <1>10 DEF WInv

LEMMA SignalInv ==
    ASSUME WInv, NEW c \in Callers, NEW id \in Ids, Signal(c, id)
    PROVE  WInv'
<1> USE DEF Signal, tasks
<1>1. Registered' = Registered
    BY DEF Registered
<1>2. /\ pc[c] = "signal" /\ pc'[c] \in {"idle", "signal"}
      /\ doomed'[c] = doomed[c] \ {id} /\ id \in doomed[c]
      /\ \A d \in Callers \ {c} : pc'[d] = pc[d] /\ doomed'[d] = doomed[d]
    BY DEF WInv, TypeOK
<1>3. TypeOK'
    BY <1>1, <1>2 DEF WInv, TypeOK
<1>4. AtMostMax' /\ OnePerTokens' /\ HealthTruthful' /\ ReasonKept'
    BY <1>1 DEF WInv, AtMostMax, OnePerTokens, HealthTruthful, ReasonKept, HealthOf, ReasonOf
<1>5. Attended'
    BY <1>1, <1>2 DEF WInv, Attended
<1>6. DrawnIds'
    BY <1>2 DEF WInv, DrawnIds, Drawn
<1>7. FreshIds'
    BY <1>1, <1>2 DEF WInv, FreshIds
<1>8. StoppedIds' /\ KnownIds' /\ GrownIds'
    BY <1>1, <1>2 DEF WInv, StoppedIds, KnownIds, GrownIds
<1> QED
    BY <1>3, <1>4, <1>5, <1>6, <1>7, <1>8 DEF WInv

LEMMA StutterInv == WInv /\ UNCHANGED vars => WInv'
<1> SUFFICES ASSUME WInv, UNCHANGED vars PROVE WInv'
    OBVIOUS
<1> USE DEF vars
<1>1. Registered' = Registered
    BY DEF Registered
<1>2. TypeOK' /\ AtMostMax' /\ OnePerTokens' /\ Attended'
    BY <1>1 DEF WInv, TypeOK, AtMostMax, OnePerTokens, Attended
<1>3. HealthTruthful' /\ ReasonKept'
    BY <1>1 DEF WInv, HealthTruthful, ReasonKept, HealthOf, ReasonOf
<1> QED
    BY <1>1, <1>2, <1>3 DEF WInv, DrawnIds, Drawn, FreshIds, StoppedIds, KnownIds, GrownIds

LEMMA NextInv == WInv /\ [Next]_vars => WInv'
<1> SUFFICES ASSUME WInv, Next PROVE WInv'
    BY StutterInv
<1>1. ASSUME NEW c \in Callers, NEW id \in Ids, Stop(c, id) PROVE WInv'
    BY <1>1, RemoveInv DEF Stop
<1>2. ASSUME NEW c \in Callers, StopAll(c) PROVE WInv'
    BY <1>2, RemoveInv DEF StopAll
<1>3. ASSUME NEW c \in Callers, CallStep(c) PROVE WInv'
    BY <1>3, InsertInv, SpawnInv, SignalInv DEF CallStep
<1>4. ASSUME NEW id \in Ids, TaskStep(id) PROVE WInv'
    BY <1>4, BeginInv, ConnectInv, RecordErrorInv, MarkInv, WakeInv, BreakInv DEF TaskStep
<1> QED
    BY <1>1, <1>2, <1>3, <1>4, StartWatchInv, FailInv, ReceiveInv DEF Next

-----------------------------------------------------------------------------
(* The theorems. *)

\* The inductive invariant holds in every reachable state.
THEOREM SpecWInv == Spec => []WInv
    BY InitInv, NextInv, PTL DEF Spec

\* Never more than MAX_ACTIVE_WATCHES watches, never two for the same tokens.
THEOREM SpecAdmitted == Spec => []Admitted
<1>1. WInv => Admitted
    BY DEF WInv, Admitted
<1> QED
    BY <1>1, SpecWInv, PTL

\* Never a registered watch without a task.
THEOREM SpecAttended == Spec => []Attended
<1>1. WInv => Attended
    BY DEF WInv
<1> QED
    BY <1>1, SpecWInv, PTL

\* What a watch reports of its connection is true.
THEOREM SpecHealthTruthful == Spec => []HealthTruthful
<1>1. WInv => HealthTruthful
    BY DEF WInv
<1> QED
    BY <1>1, SpecWInv, PTL

\* A stopped watch never comes back.
THEOREM SpecRetiredForGood == Spec => RetiredForGood
<1>1. ASSUME WInv, Next, NEW id \in Ids, Retired(id) PROVE Retired(id)'
  <2> USE <1>1 DEF Retired
  <2>1. ASSUME NEW c \in Callers, NEW ts \in TokenLists, StartWatch(c, ts) PROVE Retired(id)'
    <3>1. Registered' = Registered /\ nextId' = nextId + 1 /\ nextId \in Nat
        BY <2>1, WatchAssumption DEF StartWatch, Registered, WInv, TypeOK
    <3>2. mine'[c] = nextId /\ \A d \in Callers \ {c} : pc'[d] = pc[d] /\ mine'[d] = mine[d]
        BY <2>1 DEF StartWatch, WInv, TypeOK
    <3>3. id # nextId /\ id < nextId + 1
        BY <3>1 DEF Ids
    <3> QED
        BY <3>1, <3>2, <3>3
  <2>2. ASSUME NEW c \in Callers, Insert(c) PROVE Retired(id)'
    <3>1. /\ mine[c] # id /\ nextId' = nextId
          /\ Registered' \subseteq Registered \cup {mine[c]}
        BY <2>2 DEF Insert, Register, Registered
    <3>2. /\ pc'[c] # "insert"
          /\ \A d \in Callers \ {c} : pc'[d] = pc[d] /\ mine'[d] = mine[d]
        BY <2>2 DEF Insert, Return, WInv, TypeOK
    <3> QED
        BY <3>1, <3>2
  <2>3. ASSUME NEW c \in Callers, Spawn(c) \/ \E i \in Ids : Signal(c, i)
        PROVE  Retired(id)'
    <3>1. Registered' = Registered /\ nextId' = nextId
        BY <2>3 DEF Spawn, Signal, Registered
    <3>2. \A d \in Callers : pc'[d] = "insert" => pc[d] = "insert" /\ mine'[d] = mine[d]
        BY <2>3 DEF Spawn, Return, Signal, WInv, TypeOK
    <3> QED
        BY <3>1, <3>2
  <2>4. ASSUME NEW c \in Callers, NEW S, RemoveWatches(c, S) PROVE Retired(id)'
    <3>1. Registered' \subseteq Registered /\ nextId' = nextId
        BY <2>4 DEF RemoveWatches, Unregister, Restrict, Registered
    <3>2. \A d \in Callers : pc'[d] = "insert" => pc[d] = "insert" /\ mine'[d] = mine[d]
        BY <2>4 DEF RemoveWatches, WInv, TypeOK
    <3> QED
        BY <3>1, <3>2
  <2>5. ASSUME NEW i \in Ids, TaskStep(i) \/ Fail(i) \/ Receive(i) PROVE Retired(id)'
    <3>1. Registered' = Registered
        BY <2>5, UpdateFacts DEF TaskStep, Begin, Connect, RecordError, Mark, Wake, Break, Quit,
           Fail, Receive, Registered
    <3>2. nextId' = nextId /\ pc' = pc /\ mine' = mine
        BY <2>5 DEF TaskStep, Begin, Connect, RecordError, Mark, Wake, Break, Quit,
           Fail, Receive, calls
    <3> QED
        BY <3>1, <3>2
  <2> QED
      BY <2>1, <2>2, <2>3, <2>4, <2>5 DEF Next, CallStep, Stop, StopAll
<1>2. WInv /\ [Next]_vars => [\A id \in Ids : Retired(id) => Retired(id)']_vars
    BY <1>1
<1> QED
    BY <1>2, SpecWInv, PTL DEF Spec, RetiredForGood

=============================================================================
