----------------------------- MODULE BriefCache -----------------------------
(***************************************************************************)
(* The cache of market briefs (src/src/app.rs, App::get_market_brief).     *)
(*                                                                         *)
(* A call reads the cache under the read lock, asks upstream if it finds   *)
(* nothing fresh, and writes the cache under the write lock: three steps   *)
(* that other calls come between.  Of a brief only the time it was stored  *)
(* at matters to the cache.  What it read may be older by any time, for    *)
(* nothing limits how long the upstream takes; the outcomes' books and     *)
(* histories may be missing from it, and it is stored all the same.        *)
(***************************************************************************)
EXTENDS Naturals, FiniteSets, Functions

CONSTANTS
    Requests,    \* calls
    Keys,        \* their inputs, as far as the cache tells them apart
    NoKey,       \* no input yet
    Ttl,         \* brief_cache_ttl; zero turns the cache off
    MaxBriefs,   \* 256 in the code
    MaxTime      \* bound: the clock

ASSUME CacheAssumption ==
    /\ NoKey \notin Keys
    /\ Ttl \in Nat
    /\ MaxBriefs \in Nat \ {0}
    /\ MaxTime \in Nat
    /\ IsFiniteSet(Requests)

VARIABLES
    clock,
    cache,    \* of each cached key, when its brief was stored
    asking    \* the key each call is asking upstream for

briefs == <<cache, asking>>

CacheTypeOK ==
    /\ clock \in 0..MaxTime
    /\ DOMAIN cache \subseteq Keys
    /\ \A k \in DOMAIN cache : cache[k] \in 0..MaxTime
    /\ asking \in [Requests -> Keys \cup {NoKey}]

CacheInit ==
    /\ clock = 0
    /\ cache = << >>
    /\ asking = [r \in Requests |-> NoKey]

-----------------------------------------------------------------------------

Fresh(k) == clock - cache[k] <= Ttl

Found(k) == Ttl > 0 /\ k \in DOMAIN cache /\ Fresh(k)

\* The read lock: a fresh brief is the answer.
Hit(r, k) ==
    /\ asking[r] = NoKey
    /\ Found(k)
    /\ UNCHANGED briefs

\* Otherwise the call goes on to the market and its outcomes.
Miss(r, k) ==
    /\ asking[r] = NoKey
    /\ ~Found(k)
    /\ asking' = [asking EXCEPT ![r] = k]
    /\ UNCHANGED cache

\* The input is refused or the market is not found: an error, and nothing is cached.
Fail(r) ==
    /\ asking[r] # NoKey
    /\ asking' = [asking EXCEPT ![r] = NoKey]
    /\ UNCHANGED cache

\* min_by_key of the time of insertion
Oldest(S) == {k \in S : \A j \in S : cache[k] <= cache[j]}

FreshKeys == {k \in DOMAIN cache : Fresh(k)}

\* mutant: one brief more is let in before any has to give way
RoomLate ==
    IF Cardinality(DOMAIN cache) <= MaxBriefs THEN {DOMAIN cache}
    ELSE IF Cardinality(FreshKeys) <= MaxBriefs THEN {FreshKeys}
    ELSE {FreshKeys \ {k} : k \in Oldest(FreshKeys)}

\* The keys that may be left when one is to be written: all of them below the limit, or
\* the fresh ones, or those but the oldest.
Room ==
    IF Cardinality(DOMAIN cache) < MaxBriefs THEN {DOMAIN cache}
    ELSE IF Cardinality(FreshKeys) < MaxBriefs THEN {FreshKeys}
    ELSE {FreshKeys \ {k} : k \in Oldest(FreshKeys)}

\* The write lock.  The brief counts as new from now on, whatever the time the upstream
\* took, and replaces one that another call has stored meanwhile.
Store(r) ==
    /\ asking[r] # NoKey
    /\ IF Ttl = 0 THEN UNCHANGED cache
       ELSE \E left \in Room :
               cache' = [k \in left \cup {asking[r]} |-> IF k = asking[r] THEN clock ELSE cache[k]]
    /\ asking' = [asking EXCEPT ![r] = NoKey]

=============================================================================
