------------------------------ MODULE BookMath ------------------------------
(***************************************************************************)
(* What the research tools compute from order books and price histories    *)
(* (src/src/app.rs): analyze_book, simulate_book, the sums of a basket,    *)
(* downsample_points and price_history_summary.                            *)
(*                                                                         *)
(* Decimals are natural numbers: a price in ticks, One of them to a share  *)
(* that pays.  A quotient is a pair of numerator and denominator.  What an *)
(* Option lacks is the empty set, what it has a set of one.                *)
(***************************************************************************)
EXTENDS Integers, Sequences, SequencesExt, FiniteSetsExt, Ordering

CONSTANT One   \* the payout of a share, in ticks

Shares(levels) == SumFunction([i \in DOMAIN levels |-> levels[i].size])

Notional(levels) == SumFunction([i \in DOMAIN levels |-> levels[i].price * levels[i].size])

\* take and truncate
First(s, n) == SubSeq(s, 1, IF n < Len(s) THEN n ELSE Len(s))

CheapestFirst(levels) == Sorted(levels, [i \in DOMAIN levels |-> levels[i].price])

DearestFirst(levels) == Sorted(levels, [i \in DOMAIN levels |-> -levels[i].price])

\* mutant: asks walked from the most expensive one
ExecutableWorst(book, side) == DearestFirst(IF side = "buy" THEN book.asks ELSE book.bids)

\* The levels an order meets, best price first.
Executable(book, side) ==
    IF side = "buy" THEN CheapestFirst(book.asks) ELSE DearestFirst(book.bids)

-----------------------------------------------------------------------------
(* simulate_book *)

Unfilled(requested) ==
    [remaining |-> requested, filled |-> 0, notional |-> 0, worst |-> {}, consumed |-> 0]

\* The body of the loop; a level of size zero is passed over.
Take(level, fill) ==
    LET quantity == Min({fill.remaining, level.size}) IN
    IF quantity = 0 THEN fill
    ELSE [remaining |-> fill.remaining - quantity,
          filled    |-> fill.filled + quantity,
          notional  |-> fill.notional + quantity * level.price,
          worst     |-> {level.price},
          consumed  |-> fill.consumed + 1]

Simulate(book, side, requested) ==
    FoldLeft(LAMBDA fill, level : Take(level, fill), Unfilled(requested), Executable(book, side))

\* (average - best) / best of a buy, the other way round for a sell, in parts of `best`.
Slippage(book, side, fill) ==
    LET levels == Executable(book, side) IN
    {<<IF side = "buy" THEN fill.notional - best * fill.filled
                       ELSE best * fill.filled - fill.notional,
       best * fill.filled>> :
          best \in {levels[i].price : i \in {j \in DOMAIN levels :
                                               j = 1 /\ fill.filled > 0 /\ levels[j].price > 0}}}

-----------------------------------------------------------------------------
(* analyze_book *)

Top(levels) == {levels[i] : i \in DOMAIN levels \cap {1}}

\* The best prices weighted by the size on the opposite side.
Microprice(bid, ask) == <<ask.price * bid.size + bid.price * ask.size, bid.size + ask.size>>

\* imbalance_percent
Imbalance(bids, asks) == IF bids + asks = 0 THEN {} ELSE {<<bids - asks, bids + asks>>}

Near(levels, band) ==
    Kept(levels, {i \in DOMAIN levels : \A best \in Top(levels) :
                     levels[i].price \in (best.price - band)..(best.price + band)})

Analysis(book, depth, band, sample) ==
    LET bids == First(Executable(book, "sell"), depth)
        asks == First(Executable(book, "buy"), depth)
        touch == Top(bids) \X Top(asks)
    IN [bid        |-> Top(bids),
        ask        |-> Top(asks),
        spread     |-> {t[2].price - t[1].price : t \in touch},
        midpoint   |-> {<<t[1].price + t[2].price, 2>> : t \in touch},
        microprice |-> {Microprice(t[1], t[2]) :
                           t \in {u \in touch : u[1].size + u[2].size > 0}},
        topImbalance |-> UNION {Imbalance(t[1].size, t[2].size) : t \in touch},
        bidDepth   |-> <<Shares(bids), Notional(bids)>>,
        askDepth   |-> <<Shares(asks), Notional(asks)>>,
        imbalance  |-> Imbalance(Shares(bids), Shares(asks)),
        nearBids   |-> <<Shares(Near(bids, band)), Notional(Near(bids, band))>>,
        nearAsks   |-> <<Shares(Near(asks, band)), Notional(Near(asks, band))>>,
        buy        |-> Simulate(book, "buy", sample),
        sell       |-> Simulate(book, "sell", sample)]

\* best_quotes, and the head of order_book_detail: the best level of each side.
BestAsk(book) == {l \in ToSet(book.asks) : \A m \in ToSet(book.asks) : l.price <= m.price}

BestBid(book) == {l \in ToSet(book.bids) : \A m \in ToSet(book.bids) : l.price >= m.price}

-----------------------------------------------------------------------------
(* Baskets: a sequence of optional levels, one for each leg. *)

Complete(quotes) == \A i \in DOMAIN quotes : quotes[i] # {}

The(quote) == CHOOSE level \in quote : TRUE

\* mutant: a leg without a price counts as nothing
PriceSumPartial(quotes) ==
    {SumFunction([i \in DOMAIN quotes |-> IF quotes[i] = {} THEN 0 ELSE The(quotes[i]).price])}

\* decimal_sum: nothing if one of them is missing
PriceSum(quotes) ==
    IF Complete(quotes) THEN {SumFunction([i \in DOMAIN quotes |-> The(quotes[i]).price])} ELSE {}

\* decimal_min
Capacity(quotes) ==
    IF Complete(quotes) /\ quotes # << >>
    THEN {Min({The(quotes[i]).size : i \in DOMAIN quotes})} ELSE {}

Basket(asks, bids) ==
    [askSum  |-> PriceSum(asks), buyEdge |-> {One - s : s \in PriceSum(asks)},
     buyable |-> Capacity(asks),
     bidSum  |-> PriceSum(bids), sellEdge |-> {s - One : s \in PriceSum(bids)},
     sellable |-> Capacity(bids)]

-----------------------------------------------------------------------------
(* Price histories. *)

\* mutant: the points are spread over the length, not over the gaps
SampledShort(n, limit) == [i \in 1..(IF n < limit THEN n ELSE limit) |->
                             IF n <= limit THEN i ELSE ((i - 1) * (n - 1)) \div limit + 1]

\* downsample_points: which of n points are kept.
Sampled(n, limit) ==
    IF n <= limit THEN [i \in 1..n |-> i]
    ELSE IF limit = 1 THEN <<n>>
    ELSE [i \in 1..limit |-> ((i - 1) * (n - 1)) \div (limit - 1) + 1]

Downsample(points, limit) ==
    LET kept == Sampled(Len(points), limit) IN [i \in DOMAIN kept |-> points[kept[i]]]

\* price_history_summary
Summary(points) ==
    IF points = << >> THEN [count |-> 0]
    ELSE [count |-> Len(points), first |-> Head(points), last |-> points[Len(points)],
          minimum |-> Min(ToSet(points)), maximum |-> Max(ToSet(points)),
          change |-> points[Len(points)] - Head(points)]

=============================================================================
