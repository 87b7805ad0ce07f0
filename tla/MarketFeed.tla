----------------------------- MODULE MarketFeed -----------------------------
(***************************************************************************)
(* What one market watch makes of its messages (src/src/realtime.rs): the  *)
(* REST seed, the socket, the books it keeps by full snapshots and deltas, *)
(* what it broadcasts of them, and, with EventLog, the events it retains.  *)
(*                                                                         *)
(* The exchange is external: it keeps its books, and to a new subscription *)
(* it sends a snapshot of each book first and then every change, in order. *)
(* What it quotes are numbers, what it sends are their texts: the watch    *)
(* finds a level by the text of its price and sorts levels by its value,   *)
(* and a price has more than one text, for a Decimal keeps its zeros.      *)
(***************************************************************************)
EXTENDS EventLog, SequencesExt, Ordering

CONSTANTS
    Tokens,           \* the tokens of the watch
    Texts,            \* prices as they are written, and
    Value,            \* of each, the number it is parsed to, in the smallest unit
    Sizes,            \* sizes above zero, as numbers of the smallest unit
    None,             \* no price, no size, no book
    MaxChanges,       \* bound: changes of the exchange's books
    MaxConnections    \* bound: connections

ASSUME FeedAssumption ==
    /\ IsFiniteSet(Tokens)
    /\ Value \in [Texts -> Nat] /\ IsFiniteSet(Texts)
    /\ Sizes \subseteq Nat \ {0}
    /\ None \notin Nat /\ None \notin Texts
    /\ {MaxChanges, MaxConnections} \subseteq Nat

Sides == {"bids", "asks"}

Prices == {Value[x] : x \in Texts}

VARIABLES
    market,        \* the exchange's book of each token: a set of quotes on each side
    changes,       \* changes so far
    connections,   \* connections so far
    phase,         \* the watch: "none", "seeded" when its books are fetched, "open"
    seed,          \* what that fetch returned
    link,          \* whether the socket is open
    wire,          \* messages sent on it and not yet applied
    books,         \* the live books
    counts,        \* update_count and what it is made of
    published,     \* of each token, how often a book was broadcast, and the last one
    astray         \* history: the tokens whose live books cannot be trusted, as a message
                   \* about them was skipped, or found a level under another text, since
                   \* their last snapshots; no step depends on it

exchange == <<market, changes>>
socket   == <<connections, link, wire>>
watch    == <<phase, seed, books, counts, published>>
feed     == <<exchange, socket, watch, astray, eventLog>>

\* PriceLevel
Level == [price : Texts, size : Sizes]

Book == [source : {"rest_seed", "websocket_snapshot", "websocket_delta"},
         bids : Seq(Level), asks : Seq(Level),
         bestBid : Texts \cup {None}, bestAsk : Texts \cup {None}]

\* A book in full as it is sent, and as the exchange has it.
Listing == [Sides -> SUBSET Level]
Quotes  == [Sides -> SUBSET [price : Prices, size : Sizes]]

\* A delta without a size is not read any further.
Delta ==
    [token : Tokens, side : Sides, price : Texts, size : {0} \cup Sizes]
    \cup [token : Tokens, size : {None}]

Message ==
    [kind : {"book"}, token : Tokens, sides : Listing]
    \cup [kind : {"price_change"}, deltas : Seq(Delta)]
    \cup [kind : {"event"}]

TypeOK ==
    /\ LogTypeOK
    /\ market \in [Tokens -> Quotes]
    /\ changes \in 0..MaxChanges
    /\ connections \in 0..MaxConnections
    /\ phase \in {"none", "seeded", "open"}
    /\ DOMAIN seed \subseteq Tokens /\ seed \in [DOMAIN seed -> Listing]
    /\ link \in BOOLEAN
    /\ wire \in Seq(Message)
    /\ DOMAIN books \subseteq Tokens /\ books \in [DOMAIN books -> Book]
    /\ counts \in [{"seeds", "websocket", "changes", "all"} -> Nat]
    /\ published \in [Tokens -> [times : Nat, last : Book \cup {None}]]
    /\ astray \subseteq Tokens

\* The exchange would have matched a bid that meets an ask.
Uncrossed(m) ==
    \A t \in Tokens : \A b \in m[t]["bids"], a \in m[t]["asks"] : b.price < a.price

OnePerPrice(levels) == \A k, l \in levels : k.price = l.price => k = l

Init ==
    /\ market \in {m \in [Tokens -> [Sides -> {s \in SUBSET [price : Prices, size : Sizes] :
                                                      OnePerPrice(s)}]] : Uncrossed(m)}
    /\ changes = 0 /\ connections = 0
    /\ phase = "none"
    /\ seed = << >>
    /\ link = FALSE
    /\ wire = << >>
    /\ books = << >>
    /\ counts = [seeds |-> 0, websocket |-> 0, changes |-> 0, all |-> 0]
    /\ published = [t \in Tokens |-> [times |-> 0, last |-> None]]
    /\ astray = {}
    /\ LogInit

-----------------------------------------------------------------------------
(* Books. *)

\* mutant: both sides from the lowest price up
BestFirstLowest(side, levels) ==
    Sorted(levels, [i \in DOMAIN levels |-> Value[levels[i].price]])

\* normalize_book: bids from the highest price down, asks from the lowest up.
BestFirst(side, levels) ==
    Sorted(levels, [i \in DOMAIN levels |-> IF side = "bids" THEN -Value[levels[i].price]
                                                             ELSE Value[levels[i].price]])

Normalized(source, bids, asks) ==
    LET b == BestFirst("bids", bids)
        a == BestFirst("asks", asks)
    IN [source |-> source, bids |-> b, asks |-> a,
        bestBid |-> IF b = << >> THEN None ELSE Head(b).price,
        bestAsk |-> IF a = << >> THEN None ELSE Head(a).price]

\* A book the exchange lists in full, its levels in whatever order.
Listed(source, sides) == Normalized(source, SetToSeq(sides["bids"]), SetToSeq(sides["asks"]))

\* mutant: a level of size zero is kept
ApplyLevelKeeps(levels, price, size) ==
    LET at == {i \in DOMAIN levels : levels[i].price = price}
    IN IF at # {}
       THEN [i \in DOMAIN levels |->
                IF i \in at /\ size # 0 THEN [price |-> price, size |-> size] ELSE levels[i]]
       ELSE IF size = 0 THEN levels ELSE Append(levels, [price |-> price, size |-> size])

\* apply_level: size zero removes the level of this text, any other replaces or adds it.
ApplyLevel(levels, price, size) ==
    LET level == [price |-> price, size |-> size]
        Other(l) == l.price # price
    IN IF size = 0 THEN Kept(levels, {i \in DOMAIN levels : Other(levels[i])})
       ELSE IF \A i \in DOMAIN levels : Other(levels[i]) THEN Append(levels, level)
       ELSE [i \in DOMAIN levels |-> IF Other(levels[i]) THEN levels[i] ELSE level]

\* A level of the same price is there under another text: it is not found.
Respells(levels, text) ==
    \E i \in DOMAIN levels : levels[i].price # text /\ Value[levels[i].price] = Value[text]

Applied(book, d) ==
    IF d.side = "bids"
    THEN Normalized("websocket_delta", ApplyLevel(book.bids, d.price, d.size), book.asks)
    ELSE Normalized("websocket_delta", book.bids, ApplyLevel(book.asks, d.price, d.size))

Published(pub, t, book) == [pub EXCEPT ![t] = [times |-> @.times + 1, last |-> book]]

\* mutant: the book is broadcast as it was before the delta
DeltaStepEarly(state, d) ==
    IF d.token \notin DOMAIN state.books \/ d.size = None THEN state
    ELSE LET book == Applied(state.books[d.token], d)
         IN [books |-> [state.books EXCEPT ![d.token] = book],
             published |-> Published(state.published, d.token, state.books[d.token]),
             applied |-> state.applied + 1,
             astray |-> IF Respells(state.books[d.token][d.side], d.price)
                        THEN state.astray \cup {d.token} ELSE state.astray]

\* One delta: nothing for a token without a book, nothing for a delta without a size.
DeltaStep(state, d) ==
    IF d.token \notin DOMAIN state.books \/ d.size = None THEN state
    ELSE LET book == Applied(state.books[d.token], d)
         IN [books |-> [state.books EXCEPT ![d.token] = book],
             published |-> Published(state.published, d.token, book),
             applied |-> state.applied + 1,
             astray |-> IF Respells(state.books[d.token][d.side], d.price)
                        THEN state.astray \cup {d.token} ELSE state.astray]

-----------------------------------------------------------------------------
(* The exchange. *)

\* A delta as the exchange means it: what its books are after it.
Quoted(m, d) ==
    IF d.size = None THEN m
    ELSE [m EXCEPT ![d.token][d.side] =
             {l \in @ : l.price # Value[d.price]}
             \cup (IF d.size = 0 THEN {} ELSE {[price |-> Value[d.price], size |-> d.size]})]

\* A level set, removed, or named without its size; or two levels in one message.
Moves == {<<d>> : d \in Delta} \cup {<<d, e>> : d, e \in {x \in Delta : x.size # None}}

Send(message) == wire' = IF link THEN Append(wire, message) ELSE wire

Change(ds) ==
    /\ changes < MaxChanges
    /\ changes' = changes + 1
    /\ LET Real(m, d) == d.size = None \/ Quoted(m, d) # m
       IN \A i \in DOMAIN ds : Real(FoldLeft(Quoted, market, SubSeq(ds, 1, i - 1)), ds[i])
    /\ market' = FoldLeft(Quoted, market, ds)
    /\ Uncrossed(market')
    /\ Send([kind |-> "price_change", deltas |-> ds])
    /\ UNCHANGED <<connections, link, watch, astray, eventLog>>

\* A trade, a best price, a tick size, a resolution or a new market.
Emit ==
    /\ link
    /\ nextSequence + Len(SelectSeq(wire, LAMBDA m : m.kind = "event")) <= MaxEvents
    /\ Send([kind |-> "event"])
    /\ UNCHANGED <<exchange, connections, link, watch, astray, eventLog>>

\* The texts a book may write its prices in.
Spellings == {sp \in [Prices -> Texts] : \A n \in Prices : Value[sp[n]] = n}

Written(quotes, sp) ==
    [side \in Sides |-> {[price |-> sp[l.price], size |-> l.size] : l \in quotes[side]}]

-----------------------------------------------------------------------------
(* The watch. *)

\* App::watch_markets fetches the books; the answer may leave some out.
Fetch(S) ==
    /\ phase = "none"
    /\ phase' = "seeded"
    /\ \E sp \in [S -> Spellings] : seed' = [t \in S |-> Written(market[t], sp[t])]
    /\ UNCHANGED <<exchange, socket, books, counts, published, astray, eventLog>>

\* RealtimeService::watch_markets.
Register ==
    /\ phase = "seeded"
    /\ phase' = "open"
    /\ books' = [t \in DOMAIN seed |-> Listed("rest_seed", seed[t])]
    /\ counts' = LET n == Cardinality(DOMAIN seed)
                 IN [counts EXCEPT !.seeds = n, !.all = n]
    /\ seed' = << >>
    /\ UNCHANGED <<exchange, socket, published, astray, eventLog>>

\* A connection and its subscription, answered by a snapshot of each book.
Subscribe ==
    /\ phase = "open" /\ ~link
    /\ connections < MaxConnections
    /\ connections' = connections + 1
    /\ link' = TRUE
    /\ \E sp \in [Tokens -> Spellings] :
          LET tokens     == SetToSeq(Tokens)
              Snapshot(t) == [kind |-> "book", token |-> t, sides |-> Written(market[t], sp[t])]
          IN wire' = [i \in DOMAIN tokens |-> Snapshot(tokens[i])]
    /\ UNCHANGED <<exchange, watch, astray, eventLog>>

\* The connection fails, ends, times out or brings what is not JSON or not UTF-8.
Disconnect ==
    /\ link
    /\ link' = FALSE
    /\ wire' = << >>
    /\ UNCHANGED <<exchange, connections, watch, astray, eventLog>>

\* The tokens whose books a message is about.
Touched(message) ==
    CASE message.kind = "book"         -> {message.token}
      [] message.kind = "price_change" ->
            {message.deltas[i].token : i \in {j \in DOMAIN message.deltas :
                                                 message.deltas[j].size # None}}
      [] OTHER                         -> {}

\* decode_messages: a message that does not deserialise is skipped with a warning, and the
\* connection stays up.
Skip ==
    /\ wire # << >>
    /\ wire' = Tail(wire)
    /\ astray' = astray \cup Touched(Head(wire))
    /\ UNCHANGED <<exchange, connections, link, watch, eventLog>>

\* The next message, and what apply_message does with its kind.
Consume(kind) ==
    /\ wire # << >> /\ Head(wire).kind = kind
    /\ wire' = Tail(wire)
    /\ UNCHANGED <<exchange, connections, link, phase, seed>>

\* publish_book.
ReceiveBook ==
    /\ Consume("book")
    /\ LET t == Head(wire).token
           book == Listed("websocket_snapshot", Head(wire).sides)
       IN /\ books' = [u \in DOMAIN books \cup {t} |-> IF u = t THEN book ELSE books[u]]
          /\ published' = Published(published, t, book)
          /\ astray' = astray \ {t}
    /\ counts' = [counts EXCEPT !.websocket = @ + 1, !.all = @ + 1]
    /\ UNCHANGED eventLog

\* apply_price_change.
ReceiveChange ==
    /\ Consume("price_change")
    /\ LET state == FoldLeft(DeltaStep,
                             [books |-> books, published |-> published, applied |-> 0,
                              astray |-> astray],
                             Head(wire).deltas)
       IN /\ books' = state.books
          /\ published' = state.published
          /\ astray' = state.astray
          /\ counts' = [counts EXCEPT !.websocket = @ + state.applied,
                                      !.changes = @ + state.applied,
                                      !.all = @ + state.applied]
    /\ UNCHANGED eventLog

\* push_event.
ReceiveEvent ==
    /\ Consume("event")
    /\ Push
    /\ UNCHANGED <<books, counts, published, astray>>

Receive == ReceiveBook \/ ReceiveChange \/ ReceiveEvent

PollStep(p) ==
    /\ \E limit \in Limits : Poll(p, limit)
    /\ UNCHANGED <<exchange, socket, watch, astray>>

Next ==
    \/ \E ds \in Moves : Change(ds)
    \/ Emit
    \/ \E S \in SUBSET Tokens : Fetch(S)
    \/ Register \/ Subscribe \/ Disconnect \/ Skip
    \/ Receive
    \/ \E p \in Pollers : PollStep(p)

Spec == Init /\ [][Next]_feed

-----------------------------------------------------------------------------
(* Safety. *)

\* Levels as the numbers they stand for.
Numbers(levels) == {[price |-> Value[l.price], size |-> l.size] : l \in levels}

Read(listing) == [side \in Sides |-> Numbers(listing[side])]

Levels(book) == [side \in Sides |-> ToSet(book[side])]

\* What the live books say, of every token.
Live ==
    [t \in Tokens |-> IF t \in DOMAIN books THEN Read(Levels(books[t]))
                                            ELSE [side \in Sides |-> {}]]

\* A message as the exchange means it.
Meant(m, message) ==
    CASE message.kind = "book"         -> [m EXCEPT ![message.token] = Read(message.sides)]
      [] message.kind = "price_change" -> FoldLeft(Quoted, m, message.deltas)
      [] OTHER                         -> m

IsBookOf(message, t) == message.kind = "book" /\ message.token = t

OnItsWay(t, messages) == \E i \in DOMAIN messages : IsBookOf(messages[i], t)

\* Nothing went wrong with a live book, or its snapshot is on the way.
Trusted(t, messages) == t \notin astray \/ OnItsWay(t, messages)

\* While a connection is up, the live book of a token and the messages on their way make
\* the exchange's book: snapshots and deltas lose nothing, and nothing of an earlier
\* connection or of the seed outlives the first snapshot (docs/PARITY.md:21, "Complete
\* snapshot-plus-delta local state model").  Only a message that was skipped, and a price
\* in two texts, put a book out of step, that of its own token, and the next snapshot
\* puts it right.
InStep ==
    link => LET coming == FoldLeft(Meant, Live, wire)
            IN \A t \in Tokens : Trusted(t, wire) => coming[t] = market[t]

\* A live book is in executable order, whatever texts its prices come in: the levels of any
\* depth a client asks for are the best ones, and the quotes named best are.  But for a
\* skipped message or a price in two texts it has one level for each price, and a bid
\* never meets an ask.
Executable ==
    \A t \in DOMAIN books :
        LET b == books[t] IN
        /\ \A i, j \in DOMAIN b.bids : i < j => Value[b.bids[i].price] >= Value[b.bids[j].price]
        /\ \A i, j \in DOMAIN b.asks : i < j => Value[b.asks[i].price] <= Value[b.asks[j].price]
        /\ \A l \in ToSet(b.bids) : Value[l.price] <= Value[b.bestBid]
        /\ \A l \in ToSet(b.asks) : Value[l.price] >= Value[b.bestAsk]
        /\ t \notin astray =>
              /\ \A side \in Sides : \A i, j \in DOMAIN b[side] :
                    i < j => Value[b[side][i].price] # Value[b[side][j].price]
              /\ None \notin {b.bestBid, b.bestAsk} => Value[b.bestBid] < Value[b.bestAsk]

\* What was broadcast last of a token is its live book, so that a recording of every
\* broadcast ends with what a client reads; and every update is counted once, under
\* the source it came from.
PublishedLast ==
    /\ \A t \in DOMAIN books :
          books[t].source # "rest_seed" => published[t].last = books[t]
    /\ counts.websocket = FoldSet(LAMBDA t, n : published[t].times + n, 0, Tokens)
    /\ counts.all = counts.seeds + counts.websocket

-----------------------------------------------------------------------------
(* The inductive invariant behind them.                                      *)

SoundQuotes(q) ==
    /\ \A side \in Sides : OnePerPrice(q[side])
    /\ \A b \in q["bids"], a \in q["asks"] : b.price < a.price

Sound(m) == \A t \in Tokens : SoundQuotes(m[t])

\* A book in full that writes no price twice.
SoundListing(listing) ==
    /\ \A side \in Sides : \A k, l \in listing[side] : Value[k.price] = Value[l.price] => k = l
    /\ SoundQuotes(Read(listing))

\* A book as normalize_book leaves it.
Ordered(b) ==
    /\ \A i, j \in DOMAIN b.bids : i < j => Value[b.bids[i].price] >= Value[b.bids[j].price]
    /\ \A i, j \in DOMAIN b.asks : i < j => Value[b.asks[i].price] <= Value[b.asks[j].price]
    /\ b.bestBid = IF b.bids = << >> THEN None ELSE Head(b.bids).price
    /\ b.bestAsk = IF b.asks = << >> THEN None ELSE Head(b.asks).price

Unique(levels) ==
    \A i, j \in DOMAIN levels : Value[levels[i].price] = Value[levels[j].price] => i = j

\* Before the watch exists nothing was received.
ClosedIsEmpty ==
    /\ phase # "open" => ~link /\ DOMAIN books = {} /\ counts.websocket = 0
    /\ ~link => wire = << >>

\* What the exchange has, what was fetched of it and sent of it was never crossed, nor
\* is a live book that did not go astray.
SoundBooks ==
    /\ Sound(market)
    /\ \A t \in DOMAIN seed : SoundListing(seed[t])
    /\ \A i \in DOMAIN wire : wire[i].kind = "book" => SoundListing(wire[i].sides)
    /\ \A t \in DOMAIN books : Ordered(books[t])
    /\ \A t \in DOMAIN books \ astray :
          Unique(books[t].bids) /\ Unique(books[t].asks) /\ SoundQuotes(Live[t])

\* Nor will the live books be, message by message.
Stage(k) == FoldLeft(Meant, Live, SubSeq(wire, 1, k))

SoundStages ==
    link => \A k \in 0..Len(wire) : \A t \in Tokens :
        Trusted(t, SubSeq(wire, 1, k)) => SoundQuotes(Stage(k)[t])

\* On an open connection every book that did not go astray is there, or its snapshot is on
\* its way and nothing but snapshots goes before it.
Covered ==
    link => \A t \in Tokens \ astray :
        \/ t \in DOMAIN books
        \/ \E j \in DOMAIN wire :
              /\ IsBookOf(wire[j], t)
              /\ \A i \in 1..(j - 1) : wire[i].kind = "book"

IInv ==
    /\ TypeOK
    /\ ClosedIsEmpty
    /\ SoundBooks
    /\ SoundStages
    /\ Covered
    /\ InStep
    /\ PublishedLast

=============================================================================
