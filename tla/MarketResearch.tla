--------------------------- MODULE MarketResearch ---------------------------
(***************************************************************************)
(* The research tools that ask for many order books at once                *)
(* (src/src/app.rs): scan_market_microstructure, which lists markets       *)
(* first, and analyze_event_consistency; and the price history of a brief. *)
(*                                                                         *)
(* Requests for books go out with a bounded number in flight and are       *)
(* answered in any order, each with whatever the book is by then or an     *)
(* error.  The report is made of the answers in one go.                    *)
(***************************************************************************)
EXTENDS MarketListing, BookMath

CONSTANTS
    Tokens,
    NoToken,       \* an outcome without a CLOB token
    Outcomes,      \* the outcomes of each market: a sequence of tokens, Yes first
    LegLists,      \* negative-risk events, each the sequence of its markets
    Books,         \* order books the exchange may answer with
    Failed,        \* the request for a book failed
    MaxInFlight,   \* eight in the code
    ScanLimit,     \* markets a scan reports on
    Depths, Bands, Samples,   \* inputs of an analysis
    Prices,        \* of a price history
    MaxPoints      \* bound: its points

ASSUME ResearchAssumption ==
    /\ NoToken \notin Tokens /\ Failed \notin Books
    /\ MaxInFlight \in Nat \ {0}
    /\ Outcomes \in [Markets -> Seq(Tokens \cup {NoToken})]
    /\ LegLists \subseteq Seq(Markets)
    /\ \A book \in Books : {book.bids, book.asks} \subseteq Seq([price : Nat, size : Nat])
    /\ Depths \cup Bands \cup Samples \subseteq Nat
    /\ Prices \subseteq Nat /\ MaxPoints \in Nat

VARIABLES
    tool,      \* what the client calls
    phase,
    legs,      \* the event asked about
    todo,      \* tokens, or legs, whose book is yet to be asked for
    flying,    \* asked for and not answered
    arrived,   \* the answers, in their order
    history    \* the points of a price history

fanOut == <<todo, flying, arrived>>
vars   == <<listing, tool, phase, legs, fanOut, history>>

\* A scan takes what the listing gives it: that the listing moves is left to the tool
\* that pages through it.
Quiet ==
    /\ volume = [m \in Markets |-> Min(Volumes)]
    /\ open = Markets
    /\ ~featured

Init ==
    /\ ListingInit
    /\ tool \in {"list_markets", "scan", "event", "history"}
    /\ tool # "list_markets" => Quiet
    /\ phase = "asked"
    /\ legs = << >>
    /\ todo = {}
    /\ flying = {}
    /\ arrived = << >>
    /\ history = << >>

-----------------------------------------------------------------------------

\* list_markets as a tool, or the one call a scan begins with.
List ==
    /\ IF tool = "scan" THEN listed = << >> ELSE tool = "list_markets"
    /\ \/ \E limit \in Limits : AskPage(limit)
       \/ FetchPage
       \/ FetchFails
       \/ AnswerPage
       \/ tool = "list_markets" /\ Change
    /\ UNCHANGED <<tool, phase, legs, fanOut, history>>

\* The markets of a scan; they come sorted by volume and stay so.
Picked == Cut(listed, 0, ScanLimit)

PickedTokens ==
    UNION {ToSet(Outcomes[Picked[i]]) : i \in DOMAIN Picked} \ {NoToken}

\* The distinct tokens of the markets, out of a HashMap in any order.
StartScan ==
    /\ tool = "scan" /\ phase = "asked" /\ listed # << >>
    /\ phase' = "fetching"
    /\ todo' = PickedTokens
    /\ UNCHANGED <<listing, tool, legs, flying, arrived, history>>

\* The legs of an event, in order.
StartEvent ==
    /\ tool = "event" /\ phase = "asked"
    /\ phase' = "fetching"
    /\ legs' \in LegLists
    /\ todo' = DOMAIN legs'
    /\ UNCHANGED <<listing, tool, flying, arrived, history>>

\* buffer_unordered: the next request leaves when there is a place.
AskBook(k) ==
    /\ k \in todo
    /\ tool = "event" => k = Min(todo)
    /\ Cardinality(flying) < MaxInFlight
    /\ todo' = todo \ {k}
    /\ flying' = flying \cup {k}
    /\ UNCHANGED <<listing, tool, phase, legs, arrived, history>>

YesToken(leg) == IF Outcomes[legs[leg]] = << >> THEN NoToken ELSE Head(Outcomes[legs[leg]])

\* An answer; a leg without a token has none to ask for.
AnswerBook(k) ==
    /\ k \in flying
    /\ \E book \in Books \cup {Failed} :
          /\ tool = "event" /\ YesToken(k) = NoToken => book = Failed
          /\ arrived' = Append(arrived, [key |-> k, book |-> book])
    /\ flying' = flying \ {k}
    /\ UNCHANGED <<listing, tool, phase, legs, todo, history>>

Report ==
    /\ phase = "fetching" /\ todo = {} /\ flying = {}
    /\ phase' = "done"
    /\ UNCHANGED <<listing, tool, legs, fanOut, history>>

AnswerHistory ==
    /\ tool = "history" /\ phase = "asked"
    /\ phase' = "done"
    /\ \E n \in 0..MaxPoints : history' \in [1..n -> Prices]
    /\ UNCHANGED <<listing, tool, legs, fanOut>>

Next ==
    \/ List
    \/ StartScan
    \/ StartEvent
    \/ \E k \in Tokens \cup DOMAIN legs : AskBook(k) \/ AnswerBook(k)
    \/ Report
    \/ AnswerHistory

Spec == Init /\ [][Next]_vars

-----------------------------------------------------------------------------
(* The reports. *)

\* mutant: the answers are not sorted back
EventLegsArrived == [i \in DOMAIN arrived |-> arrived[i].book]

\* sort_by_key of the index each answer carries.
EventLegs ==
    LET byKey == Sorted(arrived, [i \in DOMAIN arrived |-> arrived[i].key])
    IN [i \in DOMAIN byKey |-> byKey[i].book]

\* eligible_for_basket_math
EligibleForBasket == Len(EventLegs) >= 2 /\ \A i \in DOMAIN EventLegs : EventLegs[i] # Failed

\* The four sums and capacities, as in binary_complement_check.
QuotesOf(books) ==
    Basket([i \in DOMAIN books |-> BestAsk(books[i])], [i \in DOMAIN books |-> BestBid(books[i])])

EventBasket == IF EligibleForBasket THEN {QuotesOf(EventLegs)} ELSE {}

\* The HashMap of the books that came.
BookOf(token) ==
    {arrived[i].book : i \in {j \in DOMAIN arrived : arrived[j].key = token}} \ {Failed}

\* filter_map over the outcomes of a market.
ScanRows(m) == Kept(Outcomes[m], {i \in DOMAIN Outcomes[m] : BookOf(Outcomes[m][i]) # {}})

\* The books of a market both of whose outcomes have one.
Pair(m) ==
    IF Len(Outcomes[m]) = 2 /\ Len(ScanRows(m)) = 2
    THEN {[i \in 1..2 |-> CHOOSE book \in BookOf(ScanRows(m)[i]) : TRUE]} ELSE {}

-----------------------------------------------------------------------------
(* Properties. *)

\* What a fill may come to: the shares it takes of each level.
Allocations(levels, filled) ==
    {q \in [DOMAIN levels -> 0..filled] :
        /\ \A i \in DOMAIN levels : q[i] <= levels[i].size
        /\ SumFunction(q) = filled}

Worth(levels, q) == SumFunction([i \in DOMAIN levels |-> q[i] * levels[i].price])

\* simulate_book walks the levels best first: it fills what the book can, and no other
\* way to take as many shares from the displayed levels costs less, or pays more.
FillIsBest(book, sample) ==
    /\ LET f == Simulate(book, "buy", sample) IN
          /\ f.filled = Min({sample, Shares(book.asks)}) /\ f.remaining = sample - f.filled
          /\ \A q \in Allocations(book.asks, f.filled) : f.notional <= Worth(book.asks, q)
          /\ \A s \in Slippage(book, "buy", f) : s[1] >= 0
    /\ LET f == Simulate(book, "sell", sample) IN
          /\ f.filled = Min({sample, Shares(book.bids)}) /\ f.remaining = sample - f.filled
          /\ \A q \in Allocations(book.bids, f.filled) : f.notional >= Worth(book.bids, q)
          /\ \A s \in Slippage(book, "sell", f) : s[1] >= 0

\* Whatever book comes, in any order of levels and with empty ones: the sample fills are
\* the best there are, the microprice lies within a spread, leaning to the side that
\* is thinner, and what is near the touch is part of the depth.
AnalysisSound ==
    \A i \in DOMAIN arrived, depth \in Depths, band \in Bands, sample \in Samples :
        arrived[i].book # Failed =>
            LET book == arrived[i].book
                a    == Analysis(book, depth, band, sample)
            IN /\ FillIsBest(book, sample)
               /\ \A m \in a.microprice, bid \in a.bid, ask \in a.ask : bid.price < ask.price =>
                     /\ bid.price * m[2] <= m[1] /\ m[1] <= ask.price * m[2]
                     /\ bid.size > ask.size => 2 * m[1] > (bid.price + ask.price) * m[2]
               /\ a.nearBids[1] <= a.bidDepth[1] /\ a.bidDepth[1] <= Shares(book.bids)
               /\ a.nearAsks[1] <= a.askDepth[1] /\ a.askDepth[1] <= Shares(book.asks)

\* What an order for c shares on each book comes to.
Notionals(books, side, c) ==
    SumFunction([i \in DOMAIN books |-> Simulate(books[i], side, c).notional])

\* Buying, or selling, the reported capacity of every book costs what was reported.
Holds(basket, books) ==
    /\ \A sum \in basket.askSum : \E c \in basket.buyable : \A i \in DOMAIN books :
          Simulate(books[i], "buy", c).filled = c
    /\ \A sum \in basket.askSum, c \in basket.buyable :
          Notionals(books, "buy", c) = c * sum
    /\ \A sum \in basket.bidSum : \E c \in basket.sellable : \A i \in DOMAIN books :
          Simulate(books[i], "sell", c).filled = c
    /\ \A sum \in basket.bidSum, c \in basket.sellable :
          Notionals(books, "sell", c) = c * sum

\* The sums of a basket, of an event's legs or of a market's two outcomes, are those of
\* orders that the books as they were answered would fill at the reported capacity: a
\* leg whose book failed or has no quote keeps the sum from being reported.
BasketExecutable ==
    phase = "done" =>
        /\ tool = "event" => \A basket \in EventBasket : Holds(basket, EventLegs)
        /\ tool = "scan" => \A m \in Markets : \A pair \in Pair(m) : Holds(QuotesOf(pair), pair)

\* Answers come in any order: every leg of the report is that of its own market, and
\* every outcome of a scanned market that has a token has either its own book or an error
\* counted for it; one without a token (app.rs:894, 935) has neither.
OwnBooks ==
    phase = "done" =>
        /\ tool = "event" =>
              /\ Len(EventLegs) = Len(legs)
              /\ \A i \in DOMAIN legs : [key |-> i, book |-> EventLegs[i]] \in ToSet(arrived)
        /\ tool = "scan" =>
              Len(arrived) = Cardinality(PickedTokens)
                /\ {arrived[i].key : i \in DOMAIN arrived} = PickedTokens

\* A brief summarises a sample of the history: from two points on the sample keeps the
\* first and the last, so the change it reports is that of the whole history, its
\* extremes lie within the true ones, and no point is kept twice.
HistoryEnds ==
    tool = "history" /\ phase = "done" /\ history # << >> =>
        \A limit \in 2..MaxPoints :
            LET kept == Sampled(Len(history), limit)
                part == Summary(Downsample(history, limit))
                all  == Summary(history)
            IN /\ part.first = all.first /\ part.last = all.last /\ part.change = all.change
               /\ all.minimum <= part.minimum /\ part.maximum <= all.maximum
               /\ \A i, j \in DOMAIN kept : i < j => kept[i] < kept[j]

-----------------------------------------------------------------------------
(* The inductive invariant behind OwnBooks, BasketExecutable, HistoryEnds and AnalysisSound. *)

ResearchTypes ==
    /\ tool \in {"list_markets", "scan", "event", "history"}
    /\ phase \in {"asked", "fetching", "done"}
    /\ legs \in Seq(Markets)
    /\ arrived \in Seq([key : Tokens \cup Nat, book : Books \cup {Failed}])
    /\ history \in Seq(Prices)

Keys == {arrived[i].key : i \in DOMAIN arrived}

\* The books a tool needs.
Needed == IF tool = "scan" THEN PickedTokens ELSE DOMAIN legs

\* Before a tool fans out nothing is asked for, and while it does the list it began
\* with stays as it is.
BeforeAndAfter ==
    /\ phase = "asked" => legs = << >> /\ todo = {} /\ flying = {} /\ arrived = << >>
    /\ phase # "asked" /\ tool = "scan" => listed # << >>
    /\ phase = "done" => todo = {} /\ flying = {}

\* Each book needed is yet to be asked for, asked for, or answered, and answered once.
EachOnce ==
    tool \in {"scan", "event"} /\ phase # "asked" =>
        /\ todo \cup flying \cup Keys = Needed
        /\ todo \cap flying = {} /\ Keys \cap (todo \cup flying) = {}
        /\ \A i, j \in DOMAIN arrived : arrived[i].key = arrived[j].key => i = j

RInv == ResearchTypes /\ BeforeAndAfter /\ EachOnce

=============================================================================
