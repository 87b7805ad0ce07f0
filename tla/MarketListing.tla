--------------------------- MODULE MarketListing ---------------------------
(***************************************************************************)
(* Listing markets page by page (src/src/app.rs, App::list_markets and     *)
(* App::list_featured_markets).                                            *)
(*                                                                         *)
(* No page is remembered between calls: each call walks the upstream       *)
(* listing from its beginning, keeps the eligible markets, and cuts its    *)
(* page out of them, while volumes change and markets pause.               *)
(***************************************************************************)
EXTENDS Naturals, Sequences, SequencesExt, FiniteSetsExt

CONSTANTS
    Markets,      \* ids, numbers: ties are broken by id
    Volumes,
    Events,       \* the featured events, each the set of its markets
    PageSize,     \* PAGE_SIZE, EVENT_PAGE_SIZE (100 in the code)
    Ceiling,      \* 10 000 in the code
    Limits,       \* page sizes a client asks for
    MaxClosed,    \* bound: markets not eligible at first
    MaxChanges    \* bound: changes upstream

\* A market nested in two featured events would be listed twice: of such events the pages
\* say nothing here.
ASSUME ListingAssumption ==
    /\ Markets \subseteq Nat /\ IsFiniteSet(Markets)
    /\ Events \in Seq(SUBSET Markets)
    /\ \A i, j \in DOMAIN Events : i # j => Events[i] \cap Events[j] = {}
    /\ Volumes \subseteq Nat
    /\ PageSize \in Nat \ {0}
    /\ Limits \subseteq Nat \ {0}
    /\ {Ceiling, MaxClosed, MaxChanges} \subseteq Nat

VARIABLES
    volume,     \* upstream: the field to sort by
    open,       \* upstream: the markets active and accepting orders
    changes,    \* changes upstream so far
    featured,   \* which of the two listings the client asks for
    walk,       \* the call in progress
    listed,     \* the ids the client has got, page after page
    atEnd,      \* a page was shorter than its limit
    steady      \* the markets eligible ever since the client began

upstreamVars == <<volume, open, changes, steady>>
client       == <<featured, listed, atEnd>>
listing      == <<upstreamVars, client, walk>>

Idle ==
    [skip |-> 0, limit |-> 0, upstream |-> 0, found |-> << >>, seen |-> << >>, over |-> TRUE]

Asked == walk.limit > 0

ListingTypeOK ==
    /\ volume \in [Markets -> Volumes]
    /\ open \subseteq Markets
    /\ changes \in 0..MaxChanges
    /\ featured \in BOOLEAN
    /\ walk \in [skip : Nat, limit : Nat, upstream : Nat, found : Seq(Markets),
                 seen : UNION {[S -> Volumes] : S \in SUBSET Markets}, over : BOOLEAN]
    /\ DOMAIN walk.seen = ToSet(walk.found)
    /\ listed \in Seq(Markets)
    /\ atEnd \in BOOLEAN
    /\ steady \subseteq open

\* The order of a listing by the volumes v: by volume, then by id, the highest first.
Above(v, m, k) == v[m] > v[k] \/ (v[m] = v[k] /\ m > k)

Before(S, v, m) == Cardinality({k \in S : Above(v, k, m)})

Ranked(S, v) ==
    [i \in 1..Cardinality(S) |-> CHOOSE m \in S : Before(S, v, m) = i - 1]

\* The page of s that begins after `from`.
Cut(s, from, size) == SubSeq(s, from + 1, Min({from + size, Len(s)}))

\* An upstream page of all markets, sorted ...
MarketsPage(start) ==
    {m \in Markets : Before(Markets, volume, m) \in start..(start + PageSize - 1)}

\* ... or of the featured events.
FeaturedPage(start) ==
    UNION {Events[i] : i \in DOMAIN Events \cap ((start + 1)..(start + PageSize))}

\* mutant: the walk resumes where the client's last page ended
PageFrom(start) ==
    IF featured THEN FeaturedPage(start) ELSE MarketsPage(start + Len(listed))

Page(start) == IF featured THEN FeaturedPage(start) ELSE MarketsPage(start)

\* The offsets at which a walk ends.
Beyond(start) == IF featured THEN start >= Ceiling ELSE start > Ceiling

\* What a walk can reach.
Starts == {start \in {k * PageSize : k \in 0..Ceiling} : start = 0 \/ ~Beyond(start)}

Reach == UNION {Page(start) : start \in Starts}

ListingInit ==
    /\ volume \in [Markets -> Volumes]
    /\ open \in {S \in SUBSET Markets : Cardinality(Markets \ S) <= MaxClosed}
    /\ changes = 0
    /\ featured \in BOOLEAN
    /\ walk = Idle
    /\ listed = << >>
    /\ atEnd = FALSE
    /\ steady = open \cap Reach

-----------------------------------------------------------------------------

\* The next page of a client that goes on where its last one ended.  The offset is capped,
\* as the schema of the tool says: a client that has got so far does not go on.
AskPage(limit) ==
    /\ ~Asked /\ ~atEnd
    /\ Len(listed) <= Ceiling
    /\ walk' = [Idle EXCEPT !.skip = Min({Len(listed), Ceiling}), !.limit = limit, !.over = FALSE]
    /\ UNCHANGED <<upstreamVars, client>>

Target == walk.skip + walk.limit

\* One request of the walk.  list_markets goes on until it has enough, a page was short or
\* the ceiling passed; list_featured_markets reads all there is below the ceiling, in an
\* order that its sort takes away.
FetchPage ==
    /\ Asked /\ ~walk.over
    /\ LET page  == Page(walk.upstream) \cap open
           next  == walk.upstream + PageSize
           found == walk.found \o Ranked(page, volume)
           seen  == [m \in ToSet(found) |-> IF m \in page THEN volume[m] ELSE walk.seen[m]]
           short == next > (IF featured THEN Len(Events) ELSE Cardinality(Markets))
           over  == short \/ Beyond(next) \/ (~featured /\ Len(found) >= Target)
       IN walk' = [walk EXCEPT !.upstream = next, !.found = found, !.seen = seen, !.over = over]
    /\ UNCHANGED <<upstreamVars, client>>

\* An upstream request fails, and the call with it.
FetchFails ==
    /\ Asked /\ ~walk.over
    /\ walk' = Idle
    /\ UNCHANGED <<upstreamVars, client>>

\* The featured markets are sorted here, the others come sorted.
InOrder == IF featured THEN Ranked(ToSet(walk.found), walk.seen) ELSE walk.found

\* skip and take
Answered == Cut(InOrder, walk.skip, walk.limit)

AnswerPage ==
    /\ Asked /\ walk.over
    /\ listed' = listed \o Answered
    /\ atEnd' = (Len(Answered) < walk.limit)
    /\ walk' = Idle
    /\ UNCHANGED <<upstreamVars, featured>>

\* A market changes its volume, stops accepting orders or accepts them again; it stays
\* in the upstream listing.
Change ==
    /\ changes < MaxChanges
    /\ changes' = changes + 1
    /\ UNCHANGED <<client, walk>>
    /\ \E m \in Markets :
          \/ \E v \in Volumes \ {volume[m]} : volume' = [volume EXCEPT ![m] = v]
             /\ UNCHANGED open
          \/ m \in open /\ open' = open \ {m} /\ UNCHANGED volume
          \/ m \notin open /\ open' = open \cup {m} /\ UNCHANGED volume
    /\ steady' = steady \cap open' \cap Reach'

ListingNext ==
    \/ \E limit \in Limits : AskPage(limit)
    \/ FetchPage
    \/ FetchFails
    \/ AnswerPage
    \/ Change

ListingSpec == ListingInit /\ [][ListingNext]_listing

-----------------------------------------------------------------------------

\* "adjacent pages cannot overlap" (app.rs:617).  While nothing changes upstream, the
\* pages of a client are the eligible markets in their order, none twice and none left
\* out below the ceiling, whatever it asks for and whichever calls fail.  Each change,
\* between its calls or in the middle of one, can show it one market twice and hide one
\* that was eligible all along, and no more.
PagesAdjoin ==
    LET wanted == Ranked(open \cap Reach, volume)
    IN /\ changes = 0 =>
             /\ \A i \in DOMAIN listed : i <= Len(wanted) /\ listed[i] = wanted[i]
             /\ atEnd => Len(listed) = Len(wanted)
       /\ Len(listed) <= Cardinality(ToSet(listed)) + changes
       /\ atEnd => Cardinality(steady \ ToSet(listed)) <= changes

-----------------------------------------------------------------------------
(* The inductive invariant behind PagesAdjoin. *)

\* The first n of S by the volumes v.
Leaders(S, v, n) == {m \in S : Before(S, v, m) < n}

Found == ToSet(walk.found)

\* What the client pages through.
Pool == IF featured THEN open \cap Reach ELSE open

\* What upstream has shown to the call in progress.
Walked ==
    IF featured THEN UNION {FeaturedPage(start) : start \in {s \in Starts : s < walk.upstream}}
    ELSE Leaders(Markets, volume, walk.upstream)

\* A walk asks for one page after the other, from the first to the last within reach
\* unless it has enough.
WalkInOrder ==
    IF Asked
    THEN /\ walk.skip = Len(listed) /\ ~atEnd
         /\ \E k \in 0..(Ceiling + 1) :
               /\ walk.upstream = k * PageSize
               /\ \A i \in 0..Ceiling : i < k => i * PageSize \in Starts
         /\ walk.over \/ walk.upstream \in Starts
         /\ walk.over =>
               \/ Beyond(walk.upstream) /\ walk.upstream > 0
               \/ walk.upstream > (IF featured THEN Len(Events) ELSE Cardinality(Markets))
               \/ ~featured /\ Len(walk.found) >= Target
    ELSE walk = Idle

\* The first j markets of the client, once it has the page that is being fetched.
Got(j) ==
    {listed[i] : i \in DOMAIN listed \cap 1..j}
        \cup {walk.found[i] : i \in {k \in DOMAIN walk.found : ~featured /\ Len(listed) < k /\ k <= j}}

\* For each change since it began, the first j markets miss one of those that
\* are the first j now.
PrefixesAgree ==
    \A j \in 0..(Len(listed) + Len(walk.found)) :
        j <= Len(listed) \/ (~featured /\ j <= Len(walk.found)) =>
            j <= Cardinality(Got(j) \cap Leaders(Pool, volume, j)) + changes

\* A walk by volume that has found f markets has passed g: whichever is more, all but one
\* for each change are the same, and so on for as long as the client knows what comes.
WalkAgrees ==
    Asked /\ ~featured =>
        LET f == Len(walk.found)
            g == Cardinality(open \cap Walked)
        IN \A i \in 0..Len(listed) : i = 0 \/ f + i <= Len(listed) =>
              LET same == Cardinality(Got(f + i) \cap Leaders(open, volume, g + i))
              IN f + i <= same + changes /\ g + i <= same + changes

\* The featured markets, if nothing changed before the walk is over.
Coming == Found \cup ((open \cap Reach) \ Walked)

SeenOrNow == [m \in Markets |-> IF m \in Found THEN walk.seen[m] ELSE volume[m]]

\* The featured markets that changed after the walk passed them.
Stale ==
    {m \in Walked : m \in Found <=> m \notin open}
        \cup {m \in Found : walk.seen[m] # volume[m]}

FeaturedAgree ==
    Asked /\ featured =>
        /\ Found \subseteq Walked
        /\ \A j \in 0..Len(listed) :
              j + Cardinality(Stale) <= Cardinality(Got(j) \cap Leaders(Coming, SeenOrNow, j)) + changes

\* Without a change it is all in order.
Undisturbed ==
    changes = 0 =>
        LET wanted == Ranked(open \cap Reach, volume)
        IN /\ \A i \in DOMAIN listed : i <= Len(wanted) /\ listed[i] = wanted[i]
           /\ atEnd => Len(listed) = Len(wanted)
           /\ Asked => InOrder = Ranked(open \cap Walked, volume)

NoneHidden ==
    /\ steady \subseteq open \cap Reach
    /\ atEnd => Cardinality(steady \ ToSet(listed)) <= changes

LInv ==
    /\ ListingTypeOK /\ WalkInOrder
    /\ PrefixesAgree /\ WalkAgrees /\ FeaturedAgree /\ Undisturbed /\ NoneHidden

=============================================================================
