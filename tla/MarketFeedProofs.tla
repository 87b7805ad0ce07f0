-------------------------- MODULE MarketFeedProofs --------------------------
(***************************************************************************)
(* The feed of a watch, for any finite sets of tokens and texts of prices, *)
(* any sizes, any number of changes, connections, events and pollers.      *)
(*                                                                         *)
(* The folds over deltas and messages are turned into runs: functions on   *)
(* 0..n that go from the first value to the last one step at a time.  For  *)
(* a book that is not astray the run of DeltaStep over a message and the   *)
(* run of Quoted over it go in step.  The run of Meant over the wire gets  *)
(* longer at its end as the exchange sends and shorter at its beginning as *)
(* the watch receives or skips; it begins with books that were never       *)
(* crossed, which are the live ones but for those astray, and a message    *)
(* makes of a token's book what it makes of it in any market.              *)
(***************************************************************************)
EXTENDS MarketFeed, SequenceLemmas

Markets == [Tokens -> Quotes]

Quote == [price : Prices, size : Sizes]

-----------------------------------------------------------------------------
(* What is sent.                                                              *)

LEMMA Priced ==
    /\ \A x \in Texts : Value[x] \in Prices /\ Value[x] \in Nat
    /\ IsFiniteSet(Prices) /\ Prices \subseteq Nat
<1>1. IsFiniteSet(Prices)
  <2> DEFINE f == [x \in Texts |-> Value[x]]
  <2>1. f \in Surjection(Texts, Prices)
      BY DEF Prices, Surjection
  <2> QED
      BY <2>1, FeedAssumption, FS_Surjection
<1> QED
    BY <1>1, FeedAssumption DEF Prices

LEMMA DeltaParts ==
    ASSUME NEW d \in Delta, d.size # None
    PROVE  /\ d.token \in Tokens /\ d.side \in Sides
           /\ d.price \in Texts /\ Value[d.price] \in Prices
           /\ d.size \in {0} \cup Sizes
<1>1. d \in [token : Tokens, side : Sides, price : Texts, size : {0} \cup Sizes]
    BY DEF Delta
<1> QED
    BY <1>1, Priced

LEMMA DeltaToken == ASSUME NEW d \in Delta PROVE d.token \in Tokens
    BY DEF Delta

LEMMA NumbersType ==
    ASSUME NEW levels \in SUBSET Level
    PROVE  Numbers(levels) \in SUBSET Quote
    BY Priced DEF Numbers, Level, Quote

LEMMA ReadType ==
    ASSUME NEW listing \in Listing
    PROVE  Read(listing) \in Quotes
<1>1. \A side \in Sides : Numbers(listing[side]) \in SUBSET Quote
    BY NumbersType DEF Listing
<1> QED
    BY <1>1 DEF Read, Quotes, Quote

-----------------------------------------------------------------------------
(* The folds as runs.                                                         *)

\* A side after a delta: no level of that price, or the level of the delta alone.
After(levels, price, size) ==
    {l \in levels : l.price # price} \cup (IF size = 0 THEN {} ELSE {[price |-> price, size |-> size]})

LEMMA QuotedAt ==
    ASSUME NEW m \in Markets, NEW d \in Delta, d.size # None
    PROVE  /\ Quoted(m, d) \in Markets
           /\ \A t \in Tokens : \A side \in Sides :
                 Quoted(m, d)[t][side] = IF t = d.token /\ side = d.side
                                         THEN After(m[t][side], Value[d.price], d.size)
                                         ELSE m[t][side]
           /\ \A t \in Tokens : t # d.token => Quoted(m, d)[t] = m[t]
<1> DEFINE new == After(m[d.token][d.side], Value[d.price], d.size)
<1>1. /\ d.token \in Tokens /\ d.side \in Sides /\ Value[d.price] \in Prices
      /\ (d.size = 0 \/ d.size \in Sizes)
    BY DeltaParts
<1>2. m[d.token] \in Quotes /\ new \in SUBSET Quote
    BY <1>1 DEF Markets, Quotes, Quote, After
<1>3. Quoted(m, d) = [m EXCEPT ![d.token] = [m[d.token] EXCEPT ![d.side] = new]]
    BY <1>1, <1>2 DEF Quoted, Markets, Quotes, After
<1> HIDE DEF new
<1>4. Quoted(m, d) \in Markets
    BY <1>1, <1>2, <1>3 DEF Markets, Quotes, Quote
<1>5. \A t \in Tokens : t # d.token => Quoted(m, d)[t] = m[t]
    BY <1>1, <1>3 DEF Markets
<1>6. \A t \in Tokens : \A side \in Sides :
          Quoted(m, d)[t][side] = IF t = d.token /\ side = d.side THEN new ELSE m[t][side]
    BY <1>1, <1>2, <1>3 DEF Markets, Quotes
<1> QED
    BY <1>4, <1>5, <1>6 DEF new

LEMMA QuotedType ==
    ASSUME NEW m \in Markets, NEW d \in Delta
    PROVE  Quoted(m, d) \in Markets
<1>1. CASE d.size = None
    BY <1>1 DEF Quoted
<1>2. CASE d.size # None
    BY <1>2, QuotedAt
<1> QED
    BY <1>1, <1>2

\* The deltas of a message, one after the other.
LEMMA QuotedFold ==
    ASSUME NEW m \in Markets, NEW ds \in Seq(Delta)
    PROVE  \E g \in [0..Len(ds) -> Markets] :
              /\ g[0] = m
              /\ \A k \in 1..Len(ds) : g[k] = Quoted(g[k - 1], ds[k])
              /\ FoldLeft(Quoted, m, ds) = g[Len(ds)]
<1> DEFINE n == Len(ds)
           step == [p \in Markets \X (1..n) |-> Quoted(p[1], ds[p[2]])]
           Is(it) == it = [s \in SUBSET (1..n) |->
                              IF s = {} THEN m ELSE Quoted(it[s \ {Max(s)}], ds[Max(s)])]
           it == CHOOSE f : Is(f)
           run == [k \in 0..n |-> it[1..k]]
<1>1. n \in Nat /\ DOMAIN ds = 1..n /\ m \in Markets /\ \A k \in 1..n : ds[k] \in Delta
    OBVIOUS
<1>2. step \in [Markets \X (1..n) -> Markets]
    BY <1>1, QuotedType
<1>3. \E f : Is(f)
  <2>1. PICK f : FoldsUpto(f, n, Markets, m, step)
    <3> HIDE DEF step, n
    <3> QED
        BY <1>1, <1>2, FoldExists
  <2>2. ASSUME NEW s \in SUBSET (1..n), s # {}
        PROVE  f[s] = Quoted(f[s \ {Max(s)}], ds[Max(s)])
    <3>1. Max(s) \in 1..n /\ s \ {Max(s)} \in SUBSET (1..n)
        BY <1>1, <2>2, MaxInSet
    <3> QED
        BY <2>1, <2>2, <3>1 DEF FoldsUpto
  <2>3. f = [s \in SUBSET (1..n) |->
                 IF s = {} THEN m ELSE Quoted(f[s \ {Max(s)}], ds[Max(s)])]
      BY <2>1, <2>2 DEF FoldsUpto
  <2> QED
      BY <2>3
<1>4. Is(it)
  <2> HIDE DEF Is
  <2> QED
      BY <1>3
<1>5. FoldLeft(Quoted, m, ds) = it[1..n]
    BY <1>1 DEF FoldLeft, MapThenFoldSet
<1>6. RunsTo(run, n, Markets, m, step, it[1..n])
  <2>1. it[{}] = m
    <3> HIDE DEF it
    <3> QED
        BY <1>4
  <2>2. ASSUME NEW s \in SUBSET (1..n), s # {}, it[s \ {Max(s)}] \in Markets
        PROVE  it[s] = step[<<it[s \ {Max(s)}], Max(s)>>]
    <3>1. Max(s) \in 1..n
        BY <1>1, <2>2, MaxInSet
    <3> HIDE DEF it
    <3> QED
        BY <1>4, <2>2, <3>1
  <2> HIDE DEF it, step, n, Is
  <2> QED
      BY <1>1, <1>2, <2>1, <2>2, FoldRuns
<1> HIDE DEF it, run
<1>7. \A k \in 1..n : run[k] = Quoted(run[k - 1], ds[k])
  <2> SUFFICES ASSUME NEW k \in 1..n PROVE run[k] = Quoted(run[k - 1], ds[k])
      OBVIOUS
  <2>1. run[k - 1] \in Markets
      BY <1>1, <1>6 DEF RunsTo
  <2> QED
      BY <1>6, <2>1 DEF RunsTo
<1> QED
    BY <1>5, <1>6, <1>7 DEF RunsTo

LEMMA MeantType ==
    ASSUME NEW m \in Markets, NEW message \in Message
    PROVE  Meant(m, message) \in Markets
<1>1. CASE message \in [kind : {"book"}, token : Tokens, sides : Listing]
  <2>1. Read(message.sides) \in Quotes /\ message.token \in Tokens
      BY <1>1, ReadType
  <2>2. Meant(m, message) = [m EXCEPT ![message.token] = Read(message.sides)]
      BY <1>1 DEF Meant
  <2> QED
      BY <2>1, <2>2 DEF Markets
<1>2. CASE message \in [kind : {"price_change"}, deltas : Seq(Delta)]
  <2>1. Meant(m, message) = FoldLeft(Quoted, m, message.deltas) /\ message.deltas \in Seq(Delta)
      BY <1>2 DEF Meant
  <2>2. PICK g \in [0..Len(message.deltas) -> Markets] :
            FoldLeft(Quoted, m, message.deltas) = g[Len(message.deltas)]
      BY <2>1, QuotedFold
  <2> QED
      BY <2>1, <2>2
<1>3. CASE message \in [kind : {"event"}]
    BY <1>3 DEF Meant
<1> QED
    BY <1>1, <1>2, <1>3 DEF Message

\* The messages on a wire, one after the other.
LEMMA MeantFold ==
    ASSUME NEW m \in Markets, NEW s \in Seq(Message)
    PROVE  \E g \in [0..Len(s) -> Markets] :
              /\ g[0] = m
              /\ \A k \in 1..Len(s) : g[k] = Meant(g[k - 1], s[k])
              /\ FoldLeft(Meant, m, s) = g[Len(s)]
<1> DEFINE n == Len(s)
           step == [p \in Markets \X (1..n) |-> Meant(p[1], s[p[2]])]
           Is(it) == it = [x \in SUBSET (1..n) |->
                              IF x = {} THEN m ELSE Meant(it[x \ {Max(x)}], s[Max(x)])]
           it == CHOOSE f : Is(f)
           run == [k \in 0..n |-> it[1..k]]
<1>1. n \in Nat /\ DOMAIN s = 1..n /\ m \in Markets /\ \A k \in 1..n : s[k] \in Message
    OBVIOUS
<1>2. step \in [Markets \X (1..n) -> Markets]
    BY <1>1, MeantType
<1>3. \E f : Is(f)
  <2>1. PICK f : FoldsUpto(f, n, Markets, m, step)
    <3> HIDE DEF step, n
    <3> QED
        BY <1>1, <1>2, FoldExists
  <2>2. ASSUME NEW x \in SUBSET (1..n), x # {}
        PROVE  f[x] = Meant(f[x \ {Max(x)}], s[Max(x)])
    <3>1. Max(x) \in 1..n /\ x \ {Max(x)} \in SUBSET (1..n)
        BY <1>1, <2>2, MaxInSet
    <3> QED
        BY <2>1, <2>2, <3>1 DEF FoldsUpto
  <2>3. f = [x \in SUBSET (1..n) |->
                 IF x = {} THEN m ELSE Meant(f[x \ {Max(x)}], s[Max(x)])]
      BY <2>1, <2>2 DEF FoldsUpto
  <2> QED
      BY <2>3
<1>4. Is(it)
  <2> HIDE DEF Is
  <2> QED
      BY <1>3
<1>5. FoldLeft(Meant, m, s) = it[1..n]
    BY <1>1 DEF FoldLeft, MapThenFoldSet
<1>6. RunsTo(run, n, Markets, m, step, it[1..n])
  <2>1. it[{}] = m
    <3> HIDE DEF it
    <3> QED
        BY <1>4
  <2>2. ASSUME NEW x \in SUBSET (1..n), x # {}, it[x \ {Max(x)}] \in Markets
        PROVE  it[x] = step[<<it[x \ {Max(x)}], Max(x)>>]
    <3>1. Max(x) \in 1..n
        BY <1>1, <2>2, MaxInSet
    <3> HIDE DEF it
    <3> QED
        BY <1>4, <2>2, <3>1
  <2> HIDE DEF it, step, n, Is
  <2> QED
      BY <1>1, <1>2, <2>1, <2>2, FoldRuns
<1> HIDE DEF it, run
<1>7. \A k \in 1..n : run[k] = Meant(run[k - 1], s[k])
  <2> SUFFICES ASSUME NEW k \in 1..n PROVE run[k] = Meant(run[k - 1], s[k])
      OBVIOUS
  <2>1. run[k - 1] \in Markets
      BY <1>1, <1>6 DEF RunsTo
  <2> QED
      BY <1>6, <2>1 DEF RunsTo
<1> QED
    BY <1>5, <1>6, <1>7 DEF RunsTo

MeantRun(g, m, s) ==
    /\ g \in [0..Len(s) -> Markets]
    /\ g[0] = m
    /\ \A k \in 1..Len(s) : g[k] = Meant(g[k - 1], s[k])

\* Such a run is unique: its end is the fold.
LEMMA RunIsFold ==
    ASSUME NEW m \in Markets, NEW s \in Seq(Message), NEW g, MeantRun(g, m, s)
    PROVE  FoldLeft(Meant, m, s) = g[Len(s)]
<1>0. PICK h \in [0..Len(s) -> Markets] :
          /\ h[0] = m
          /\ \A k \in 1..Len(s) : h[k] = Meant(h[k - 1], s[k])
          /\ FoldLeft(Meant, m, s) = h[Len(s)]
    BY MeantFold
<1>1. MeantRun(h, m, s) /\ FoldLeft(Meant, m, s) = h[Len(s)]
    BY <1>0 DEF MeantRun
<1> DEFINE T == {k \in Nat : k <= Len(s) => g[k] = h[k]}
<1>2. 0 \in T
    BY <1>1 DEF MeantRun
<1>3. ASSUME NEW k \in Nat, k \in T PROVE k + 1 \in T
  <2> SUFFICES ASSUME k + 1 <= Len(s) PROVE g[k + 1] = h[k + 1]
      OBVIOUS
  <2>1. k + 1 \in 1..Len(s) /\ (k + 1) - 1 = k /\ g[k] = h[k]
      BY <1>3
  <2> QED
      BY <1>1, <2>1 DEF MeantRun
<1>4. Nat \subseteq T
  <2> HIDE DEF T
  <2> QED
      BY <1>2, <1>3, Induction
<1> QED
    BY <1>1, <1>4

\* And so are its beginnings.
LEMMA RunIsStages ==
    ASSUME NEW m \in Markets, NEW s \in Seq(Message), NEW g, MeantRun(g, m, s),
           NEW k \in 0..Len(s)
    PROVE  FoldLeft(Meant, m, SubSeq(s, 1, k)) = g[k]
<1> DEFINE r == SubSeq(s, 1, k)
           h == [i \in 0..k |-> g[i]]
<1>1. r \in Seq(Message) /\ Len(r) = k /\ k \in Nat /\ \A i \in 1..k : r[i] = s[i]
    OBVIOUS
<1>2. MeantRun(h, m, r)
  <2> HIDE DEF r
  <2>1. \A i \in 0..k : h[i] = g[i] /\ i \in 0..Len(s)
      OBVIOUS
  <2>2. \A i \in 1..k : i \in 0..k /\ i - 1 \in 0..k /\ i \in 1..Len(s)
      OBVIOUS
  <2>3. h \in [0..k -> Markets]
    <3>1. \A i \in 0..k : g[i] \in Markets
        BY <2>1 DEF MeantRun
    <3> QED
        BY <3>1
  <2> HIDE DEF h
  <2>4. h[0] = m
      BY <1>1, <2>1 DEF MeantRun
  <2>5. \A i \in 1..k : h[i] = Meant(h[i - 1], r[i])
    <3> SUFFICES ASSUME NEW i \in 1..k PROVE h[i] = Meant(h[i - 1], r[i])
        OBVIOUS
    <3>1. h[i] = g[i] /\ h[i - 1] = g[i - 1] /\ r[i] = s[i] /\ i \in 1..Len(s)
        BY <1>1, <2>1, <2>2
    <3> QED
        BY <3>1 DEF MeantRun
  <2> QED
      BY <1>1, <2>3, <2>4, <2>5 DEF MeantRun
<1>3. FoldLeft(Meant, m, r) = h[k]
  <2> HIDE DEF r, h
  <2> QED
      BY <1>1, <1>2, RunIsFold
<1> QED
    BY <1>1, <1>3

-----------------------------------------------------------------------------
(* Of each token by itself.                                                   *)

\* What a delta makes of the book of a token depends on that book alone.
LEMMA QuotedLocal ==
    ASSUME NEW m \in Markets, NEW n \in Markets, NEW d \in Delta, NEW t \in Tokens, m[t] = n[t]
    PROVE  Quoted(m, d)[t] = Quoted(n, d)[t]
<1>1. CASE d.size = None
    BY <1>1 DEF Quoted
<1>2. CASE d.size # None
  <2>1. Quoted(m, d) \in Markets /\ Quoted(n, d) \in Markets
      BY QuotedType
  <2>2. Quoted(m, d)[t] \in Quotes /\ Quoted(n, d)[t] \in Quotes
      BY <2>1 DEF Markets
  <2>3. \A side \in Sides : Quoted(m, d)[t][side] = IF t = d.token /\ side = d.side
                                         THEN After(m[t][side], Value[d.price], d.size)
                                         ELSE m[t][side]
      BY <1>2, QuotedAt
  <2>4. \A side \in Sides : Quoted(n, d)[t][side] = IF t = d.token /\ side = d.side
                                         THEN After(n[t][side], Value[d.price], d.size)
                                         ELSE n[t][side]
      BY <1>2, QuotedAt
  <2>5. \A side \in Sides : Quoted(m, d)[t][side] = Quoted(n, d)[t][side]
      BY <2>3, <2>4
  <2> QED
      BY <2>2, <2>5 DEF Quotes
<1> QED
    BY <1>1, <1>2

LEMMA QuotedFoldLocal ==
    ASSUME NEW m \in Markets, NEW n \in Markets, NEW ds \in Seq(Delta), NEW t \in Tokens,
           m[t] = n[t]
    PROVE  FoldLeft(Quoted, m, ds)[t] = FoldLeft(Quoted, n, ds)[t]
<1> DEFINE len == Len(ds)
<1>1. len \in Nat /\ \A k \in 1..len : ds[k] \in Delta
    OBVIOUS
<1>2. PICK g \in [0..len -> Markets] :
          /\ g[0] = m
          /\ \A k \in 1..len : g[k] = Quoted(g[k - 1], ds[k])
          /\ FoldLeft(Quoted, m, ds) = g[len]
    BY QuotedFold
<1>3. PICK h \in [0..len -> Markets] :
          /\ h[0] = n
          /\ \A k \in 1..len : h[k] = Quoted(h[k - 1], ds[k])
          /\ FoldLeft(Quoted, n, ds) = h[len]
    BY QuotedFold
<1> HIDE DEF len
<1> DEFINE T == {k \in Nat : k <= len => g[k][t] = h[k][t]}
<1>4. 0 \in T
    BY <1>2, <1>3
<1>5. ASSUME NEW k \in Nat, k \in T PROVE k + 1 \in T
  <2> SUFFICES ASSUME k + 1 <= len PROVE g[k + 1][t] = h[k + 1][t]
      OBVIOUS
  <2>1. k + 1 \in 1..len /\ (k + 1) - 1 = k /\ k \in 0..len /\ g[k][t] = h[k][t]
      BY <1>1, <1>5
  <2>2. /\ g[k] \in Markets /\ h[k] \in Markets /\ ds[k + 1] \in Delta
        /\ g[k + 1] = Quoted(g[(k + 1) - 1], ds[k + 1])
        /\ h[k + 1] = Quoted(h[(k + 1) - 1], ds[k + 1])
      BY <1>1, <1>2, <1>3, <2>1
  <2>3. Quoted(g[k], ds[k + 1])[t] = Quoted(h[k], ds[k + 1])[t]
      BY <2>1, <2>2, QuotedLocal
  <2> QED
      BY <2>1, <2>2, <2>3
<1>6. Nat \subseteq T
  <2> HIDE DEF T
  <2> QED
      BY <1>4, <1>5, Induction
<1> QED
    BY <1>1, <1>2, <1>3, <1>6

\* So it is of a message, and the book in full of a token makes anything of it the same.
LEMMA MeantLocal ==
    ASSUME NEW m \in Markets, NEW n \in Markets, NEW message \in Message, NEW t \in Tokens,
           m[t] = n[t] \/ IsBookOf(message, t)
    PROVE  Meant(m, message)[t] = Meant(n, message)[t]
<1>1. CASE message \in [kind : {"book"}, token : Tokens, sides : Listing]
  <2>1. /\ Meant(m, message) = [m EXCEPT ![message.token] = Read(message.sides)]
        /\ Meant(n, message) = [n EXCEPT ![message.token] = Read(message.sides)]
      BY <1>1 DEF Meant
  <2>2. DOMAIN m = Tokens /\ DOMAIN n = Tokens
      BY DEF Markets
  <2>3. t = message.token \/ m[t] = n[t]
      BY DEF IsBookOf
  <2> QED
      BY <2>1, <2>2, <2>3
<1>2. CASE message \in [kind : {"price_change"}, deltas : Seq(Delta)]
  <2>1. /\ Meant(m, message) = FoldLeft(Quoted, m, message.deltas)
        /\ Meant(n, message) = FoldLeft(Quoted, n, message.deltas)
        /\ message.deltas \in Seq(Delta)
      BY <1>2 DEF Meant
  <2>2. m[t] = n[t]
      BY <1>2 DEF IsBookOf
  <2>3. FoldLeft(Quoted, m, message.deltas)[t] = FoldLeft(Quoted, n, message.deltas)[t]
      BY <2>1, <2>2, QuotedFoldLocal
  <2> QED
      BY <2>1, <2>3
<1>3. CASE message \in [kind : {"event"}]
    BY <1>3 DEF Meant, IsBookOf
<1> QED
    BY <1>1, <1>2, <1>3 DEF Message

\* Messages that reach a token, by its book or from the same book, make it the same.
LEMMA FoldLocal ==
    ASSUME NEW m \in Markets, NEW n \in Markets, NEW s \in Seq(Message), NEW t \in Tokens,
           m[t] = n[t] \/ OnItsWay(t, s)
    PROVE  FoldLeft(Meant, m, s)[t] = FoldLeft(Meant, n, s)[t]
<1> DEFINE len == Len(s)
           Known(k) == m[t] = n[t] \/ \E j \in 1..k : IsBookOf(s[j], t)
<1>1. len \in Nat /\ DOMAIN s = 1..len /\ \A k \in 1..len : s[k] \in Message
    OBVIOUS
<1>2. PICK g \in [0..len -> Markets] :
          /\ g[0] = m
          /\ \A k \in 1..len : g[k] = Meant(g[k - 1], s[k])
          /\ FoldLeft(Meant, m, s) = g[len]
    BY MeantFold
<1>3. PICK h \in [0..len -> Markets] :
          /\ h[0] = n
          /\ \A k \in 1..len : h[k] = Meant(h[k - 1], s[k])
          /\ FoldLeft(Meant, n, s) = h[len]
    BY MeantFold
<1> HIDE DEF len
<1> DEFINE T == {k \in Nat : k <= len /\ Known(k) => g[k][t] = h[k][t]}
<1>4. 0 \in T
    BY <1>2, <1>3
<1>5. ASSUME NEW k \in Nat, k \in T PROVE k + 1 \in T
  <2> SUFFICES ASSUME k + 1 <= len, Known(k + 1) PROVE g[k + 1][t] = h[k + 1][t]
      OBVIOUS
  <2>1. k + 1 \in 1..len /\ (k + 1) - 1 = k /\ k \in 0..len /\ k <= len
      BY <1>1
  <2>2. /\ g[k] \in Markets /\ h[k] \in Markets /\ s[k + 1] \in Message
        /\ g[k + 1] = Meant(g[(k + 1) - 1], s[k + 1])
        /\ h[k + 1] = Meant(h[(k + 1) - 1], s[k + 1])
      BY <1>1, <1>2, <1>3, <2>1
  <2>3. Known(k) \/ IsBookOf(s[k + 1], t)
    <3>1. \A j \in 1..(k + 1) : j \in 1..k \/ j = k + 1
        OBVIOUS
    <3> QED
        BY <3>1
  <2>4. g[k][t] = h[k][t] \/ IsBookOf(s[k + 1], t)
      BY <1>5, <2>1, <2>3
  <2>5. Meant(g[k], s[k + 1])[t] = Meant(h[k], s[k + 1])[t]
      BY <2>2, <2>4, MeantLocal
  <2> QED
      BY <2>1, <2>2, <2>5
<1>6. Nat \subseteq T
  <2> HIDE DEF T
  <2> QED
      BY <1>4, <1>5, Induction
<1>7. Known(len)
    BY <1>1 DEF OnItsWay
<1> HIDE DEF Known
<1> QED
    BY <1>1, <1>2, <1>3, <1>6, <1>7

\* A message about other tokens leaves the book of a token as it is.
LEMMA MeantUntouched ==
    ASSUME NEW m \in Markets, NEW message \in Message, NEW t \in Tokens \ Touched(message)
    PROVE  Meant(m, message)[t] = m[t]
<1>1. CASE message \in [kind : {"book"}, token : Tokens, sides : Listing]
  <2>1. Meant(m, message) = [m EXCEPT ![message.token] = Read(message.sides)]
      BY <1>1 DEF Meant
  <2>2. t # message.token
      BY <1>1 DEF Touched
  <2> QED
      BY <2>1, <2>2 DEF Markets
<1>2. CASE message \in [kind : {"price_change"}, deltas : Seq(Delta)]
  <2> DEFINE ds == message.deltas
             len == Len(ds)
  <2>1. Meant(m, message) = FoldLeft(Quoted, m, ds) /\ ds \in Seq(Delta)
      BY <1>2 DEF Meant
  <2>2. \A i \in DOMAIN ds : ds[i].size = None \/ ds[i].token # t
      BY <1>2 DEF Touched
  <2> HIDE DEF ds
  <2>3. len \in Nat /\ DOMAIN ds = 1..len /\ \A k \in 1..len : ds[k] \in Delta
      BY <2>1
  <2>4. PICK g \in [0..len -> Markets] :
            /\ g[0] = m
            /\ \A k \in 1..len : g[k] = Quoted(g[k - 1], ds[k])
            /\ FoldLeft(Quoted, m, ds) = g[len]
      BY <2>1, QuotedFold
  <2> HIDE DEF len
  <2> DEFINE T == {k \in Nat : k <= len => g[k][t] = m[t]}
  <2>5. 0 \in T
      BY <2>4
  <2>6. ASSUME NEW k \in Nat, k \in T PROVE k + 1 \in T
    <3> SUFFICES ASSUME k + 1 <= len PROVE g[k + 1][t] = m[t]
        OBVIOUS
    <3>1. k + 1 \in 1..len /\ (k + 1) - 1 = k /\ k \in 0..len /\ g[k][t] = m[t]
        BY <2>3, <2>6
    <3>2. /\ g[k] \in Markets /\ ds[k + 1] \in Delta
          /\ g[k + 1] = Quoted(g[(k + 1) - 1], ds[k + 1])
          /\ (ds[k + 1].size = None \/ ds[k + 1].token # t)
        BY <2>2, <2>3, <2>4, <3>1
    <3>3. CASE ds[k + 1].size = None
        BY <3>1, <3>2, <3>3 DEF Quoted
    <3>4. CASE ds[k + 1].size # None
        BY <3>1, <3>2, <3>4, QuotedAt
    <3> QED
        BY <3>3, <3>4
  <2>7. Nat \subseteq T
    <3> HIDE DEF T
    <3> QED
        BY <2>5, <2>6, Induction
  <2> QED
      BY <2>1, <2>3, <2>4, <2>7
<1>3. CASE message \in [kind : {"event"}]
    BY <1>3 DEF Meant
<1> QED
    BY <1>1, <1>2, <1>3 DEF Message

-----------------------------------------------------------------------------
(* Levels and books. *)

\* normalize_book puts the levels in executable order and loses none.
LEMMA BestFirstFacts ==
    ASSUME NEW side \in Sides, NEW levels \in Seq(Level)
    PROVE  /\ BestFirst(side, levels) \in Seq(Level)
           /\ ToSet(BestFirst(side, levels)) = ToSet(levels)
           /\ \A i, j \in DOMAIN BestFirst(side, levels) : i < j =>
                 IF side = "bids"
                 THEN Value[BestFirst(side, levels)[i].price] >= Value[BestFirst(side, levels)[j].price]
                 ELSE Value[BestFirst(side, levels)[i].price] <= Value[BestFirst(side, levels)[j].price]
           /\ Unique(levels) => Unique(BestFirst(side, levels))
<1> DEFINE key == [i \in DOMAIN levels |-> IF side = "bids" THEN -Value[levels[i].price]
                                                            ELSE Value[levels[i].price]]
           n == Cardinality(DOMAIN levels)
           best == BestFirst(side, levels)
<1>1. \A i \in DOMAIN levels : Value[levels[i].price] \in Nat
  <2>1. \A i \in DOMAIN levels : levels[i] \in Level
      OBVIOUS
  <2> QED
      BY <2>1, Priced DEF Level
<1>2. key \in [DOMAIN levels -> Int]
    BY <1>1
<1>3. best = Arranged(levels, DOMAIN levels, key)
    BY DEF BestFirst, Sorted
<1>4. /\ best \in Seq(Level) /\ Len(best) = n /\ n \in Nat
      /\ ToSet(best) = {levels[i] : i \in DOMAIN levels}
      /\ \E at : Places(at, levels, DOMAIN levels, key)
  <2> DEFINE S == DOMAIN levels
  <2>1. S \in SUBSET (DOMAIN levels) /\ key \in [S -> Int]
      BY <1>2
  <2>2. best = Arranged(levels, S, key) /\ n = Cardinality(S)
      BY <1>3
  <2> HIDE DEF key, n, best, S
  <2>3. /\ best \in Seq(Level) /\ Len(best) = n /\ n \in Nat
        /\ ToSet(best) = {levels[i] : i \in S}
        /\ \E at : Places(at, levels, S, key)
      BY <2>1, <2>2, ArrangedFacts
  <2> QED
      BY <2>3 DEF S
<1>5. PICK at \in [1..n -> DOMAIN levels] :
            /\ \A k \in 1..n : best[k] = levels[at[k]]
            /\ \A k, l \in 1..n : k < l => at[k] # at[l] /\ key[at[k]] <= key[at[l]]
  <2> HIDE DEF key
  <2>1. PICK at : Places(at, levels, DOMAIN levels, key)
      BY <1>4
  <2> QED
      BY <1>3, <2>1 DEF Places
<1>6. ASSUME NEW k \in DOMAIN best, NEW l \in DOMAIN best, k < l
      PROVE  /\ IF side = "bids" THEN Value[best[k].price] >= Value[best[l].price]
                                 ELSE Value[best[k].price] <= Value[best[l].price]
             /\ Unique(levels) => Value[best[k].price] # Value[best[l].price]
  <2>1. k \in 1..n /\ l \in 1..n
      BY <1>4
  <2>2. /\ at[k] \in DOMAIN levels /\ at[l] \in DOMAIN levels
        /\ best[k] = levels[at[k]] /\ best[l] = levels[at[l]]
        /\ at[k] # at[l] /\ key[at[k]] <= key[at[l]]
      BY <1>5, <1>6, <2>1
  <2>3. Unique(levels) => Value[levels[at[k]].price] # Value[levels[at[l]].price]
      BY <2>2 DEF Unique
  <2>4. Value[levels[at[k]].price] \in Nat /\ Value[levels[at[l]].price] \in Nat
      BY <1>1, <2>2
  <2>5. /\ key[at[k]] = IF side = "bids" THEN -Value[levels[at[k]].price] ELSE Value[levels[at[k]].price]
        /\ key[at[l]] = IF side = "bids" THEN -Value[levels[at[l]].price] ELSE Value[levels[at[l]].price]
      BY <2>2
  <2> HIDE DEF best, n, key
  <2>6. IF side = "bids" THEN Value[best[k].price] >= Value[best[l].price]
                         ELSE Value[best[k].price] <= Value[best[l].price]
    <3>1. PICK v \in Nat : v = Value[levels[at[k]].price]
        BY <2>4
    <3>2. PICK w \in Nat : w = Value[levels[at[l]].price]
        BY <2>4
    <3>3. CASE side = "bids"
        BY <2>2, <2>5, <3>1, <3>2, <3>3
    <3>4. CASE side # "bids"
        BY <2>2, <2>5, <3>1, <3>2, <3>4
    <3> QED
        BY <3>3, <3>4
  <2> QED
      BY <2>2, <2>3, <2>6
<1> HIDE DEF key, n
<1>7. ASSUME Unique(levels) PROVE Unique(best)
  <2>1. \A k \in DOMAIN best : k \in Nat
      BY <1>4
  <2> HIDE DEF best
  <2> QED
      BY <1>6, <1>7, <2>1 DEF Unique
<1> QED
    BY <1>4, <1>6, <1>7 DEF ToSet

\* No price in two texts.
OneText(levels) == \A k, l \in levels : Value[k.price] = Value[l.price] => k = l

\* A side of a book that writes no price twice is finite.
LEMMA FiniteSide ==
    ASSUME NEW q \in SUBSET Level, OneText(q)
    PROVE  IsFiniteSet(q)
<1> DEFINE f == [l \in q |-> Value[l.price]]
<1>1. \A l \in q : Value[l.price] \in Prices
    BY Priced DEF Level
<1>2. f \in Injection(q, Prices)
    BY <1>1 DEF OneText, Injection, IsInjective
<1> QED
    BY <1>2, Priced, FS_Injection

LEMMA SideAsSequence ==
    ASSUME NEW q \in SUBSET Level, OneText(q)
    PROVE  /\ SetToSeq(q) \in Seq(Level)
           /\ ToSet(SetToSeq(q)) = q
           /\ Unique(SetToSeq(q))
<1> DEFINE s == SetToSeq(q)
<1>1. /\ s \in Seq(q) /\ ToSet(s) = q
      /\ \A i, j \in DOMAIN s : s[i] = s[j] => i = j
    BY FiniteSide, SetToSeqFacts
<1> HIDE DEF s
<1>2. \A i \in DOMAIN s : s[i] \in q
    BY <1>1
<1>3. Unique(s)
    BY <1>1, <1>2 DEF Unique, OneText
<1>4. s \in Seq(Level)
    BY <1>1
<1> QED
    BY <1>1, <1>3, <1>4 DEF s

Sources == {"rest_seed", "websocket_snapshot", "websocket_delta"}

\* A book with one level for each price on each side.
Clear(b) == Unique(b.bids) /\ Unique(b.asks)

LEMMA NormalizedFacts ==
    ASSUME NEW source \in Sources, NEW bids \in Seq(Level), NEW asks \in Seq(Level)
    PROVE  LET b == Normalized(source, bids, asks)
           IN  /\ b \in Book /\ Ordered(b)
               /\ b.source = source
               /\ Levels(b) \in Listing
               /\ Levels(b)["bids"] = ToSet(bids) /\ Levels(b)["asks"] = ToSet(asks)
               /\ Unique(bids) /\ Unique(asks) => Clear(b)
<1> DEFINE x == BestFirst("bids", bids)
           y == BestFirst("asks", asks)
           b == Normalized(source, bids, asks)
<1>1. /\ x \in Seq(Level) /\ ToSet(x) = ToSet(bids)
      /\ \A i, j \in DOMAIN x : i < j => Value[x[i].price] >= Value[x[j].price]
      /\ Unique(bids) => Unique(x)
    BY BestFirstFacts DEF Sides
<1>2. /\ y \in Seq(Level) /\ ToSet(y) = ToSet(asks)
      /\ \A i, j \in DOMAIN y : i < j => Value[y[i].price] <= Value[y[j].price]
      /\ Unique(asks) => Unique(y)
    BY BestFirstFacts DEF Sides
<1>3. b = [source |-> source, bids |-> x, asks |-> y,
           bestBid |-> IF x = << >> THEN None ELSE Head(x).price,
           bestAsk |-> IF y = << >> THEN None ELSE Head(y).price]
    BY DEF Normalized
<1> HIDE DEF x, y, b
<1>4. /\ x # << >> => Head(x) \in Level
      /\ y # << >> => Head(y) \in Level
    BY <1>1, <1>2
<1>5. b \in Book /\ b.source = source
    BY <1>1, <1>2, <1>3, <1>4 DEF Book, Level, Sources
<1>6. Ordered(b)
    BY <1>1, <1>2, <1>3 DEF Ordered
<1>7. ToSet(x) \in SUBSET Level /\ ToSet(y) \in SUBSET Level
    BY <1>1, <1>2 DEF ToSet
<1>8. /\ Levels(b)["bids"] = ToSet(x) /\ Levels(b)["asks"] = ToSet(y)
      /\ Levels(b) \in Listing
    BY <1>3, <1>7 DEF Levels, Sides, Listing
<1>9. Unique(bids) /\ Unique(asks) => Clear(b)
    BY <1>1, <1>2, <1>3 DEF Clear
<1> QED
    BY <1>1, <1>2, <1>5, <1>6, <1>8, <1>9 DEF b

\* A book listed in full is the one that was sent, whatever the order of its levels.
LEMMA ListedFacts ==
    ASSUME NEW source \in Sources, NEW q \in Listing, SoundListing(q)
    PROVE  /\ Listed(source, q) \in Book /\ Ordered(Listed(source, q))
           /\ Listed(source, q).source = source
           /\ Levels(Listed(source, q)) = q
           /\ Clear(Listed(source, q))
<1> DEFINE bids == SetToSeq(q["bids"])
           asks == SetToSeq(q["asks"])
           b == Listed(source, q)
<1>1. /\ q["bids"] \in SUBSET Level /\ OneText(q["bids"])
      /\ q["asks"] \in SUBSET Level /\ OneText(q["asks"])
    BY DEF Sides, Listing, SoundListing, OneText
<1>2. /\ bids \in Seq(Level) /\ Unique(bids) /\ ToSet(bids) = q["bids"]
      /\ asks \in Seq(Level) /\ Unique(asks) /\ ToSet(asks) = q["asks"]
    BY <1>1, SideAsSequence
<1>3. b = Normalized(source, bids, asks)
    BY DEF Listed
<1> HIDE DEF bids, asks, b
<1>4. /\ b \in Book /\ Ordered(b) /\ b.source = source /\ Levels(b) \in Listing
      /\ Levels(b)["bids"] = q["bids"] /\ Levels(b)["asks"] = q["asks"]
      /\ Clear(b)
    BY <1>2, <1>3, NormalizedFacts
<1>5. Levels(b) = q
  <2>1. \A side \in Sides : Levels(b)[side] = q[side]
      BY <1>4 DEF Sides
  <2> QED
      BY <1>4, <2>1 DEF Listing
<1> QED
    BY <1>4, <1>5 DEF b

LEMMA ApplyLevelFacts ==
    ASSUME NEW levels \in Seq(Level), NEW price \in Texts, NEW size \in {0} \cup Sizes
    PROVE  /\ ApplyLevel(levels, price, size) \in Seq(Level)
           /\ Unique(levels) /\ ~Respells(levels, price) => Unique(ApplyLevel(levels, price, size))
           /\ ToSet(ApplyLevel(levels, price, size)) = After(ToSet(levels), price, size)
<1> DEFINE level == [price |-> price, size |-> size]
           S == {i \in DOMAIN levels : levels[i].price # price}
           s == ApplyLevel(levels, price, size)
<1>1. \A i \in DOMAIN levels : levels[i] \in Level /\ i \in Nat
    OBVIOUS
<1>2. Len(levels) \in Nat /\ DOMAIN levels = 1..Len(levels)
    OBVIOUS
<1>3. CASE size = 0
  <2> DEFINE key == [i \in S |-> i]
  <2>1. s = Arranged(levels, S, key)
      BY <1>3 DEF ApplyLevel, Kept
  <2>2. S \in SUBSET (DOMAIN levels) /\ key \in [S -> Int]
      BY <1>2
  <2>3. /\ s \in Seq(Level) /\ Len(s) = Cardinality(S) /\ Cardinality(S) \in Nat
        /\ ToSet(s) = {levels[i] : i \in S}
        /\ \E at : Places(at, levels, S, key)
    <3> HIDE DEF s, S, key
    <3> QED
        BY <2>1, <2>2, ArrangedFacts
  <2>4. PICK at : Places(at, levels, S, key)
      BY <2>3
  <2>5. /\ at \in [DOMAIN s -> S]
        /\ \A n \in DOMAIN s : s[n] = levels[at[n]] /\ n \in Nat
        /\ \A n, m \in DOMAIN s : n < m => at[n] # at[m]
    <3>1. DOMAIN s = 1..Cardinality(S) /\ \A n \in DOMAIN s : n \in Nat
        BY <2>3
    <3> HIDE DEF s, S, key
    <3> QED
        BY <2>1, <2>4, <3>1 DEF Places
  <2>6. ASSUME Unique(levels) PROVE Unique(s)
    <3> SUFFICES ASSUME NEW i \in DOMAIN s, NEW j \in DOMAIN s, i # j
                 PROVE  Value[s[i].price] # Value[s[j].price]
        BY DEF Unique
    <3> HIDE DEF s
    <3>1. at[i] \in DOMAIN levels /\ at[j] \in DOMAIN levels /\ at[i] # at[j]
        BY <2>5
    <3> QED
        BY <2>5, <2>6, <3>1 DEF Unique
  <2>7. ToSet(s) = After(ToSet(levels), price, size)
      BY <1>3, <2>3 DEF After, ToSet
  <2> QED
      BY <2>3, <2>6, <2>7
<1>4. CASE size # 0
  <2>0. level \in Level
      BY <1>4 DEF Level
  <2>1. CASE S = DOMAIN levels
    <3>1. s = Append(levels, level)
        BY <1>4, <2>1 DEF ApplyLevel
    <3> HIDE DEF s
    <3>2. /\ s \in Seq(Level) /\ DOMAIN s = 1..(Len(levels) + 1)
          /\ \A i \in DOMAIN levels : s[i] = levels[i]
          /\ s[Len(levels) + 1] = level
        BY <2>0, <3>1
    <3>3. \A i \in DOMAIN s : i \in DOMAIN levels \/ i = Len(levels) + 1
        BY <1>2, <3>2
    <3>4. \A i \in DOMAIN levels : levels[i].price # level.price
        BY <2>1
    <3>5. ASSUME Unique(levels), ~Respells(levels, price) PROVE Unique(s)
      <4>1. \A i \in DOMAIN levels : Value[levels[i].price] # Value[level.price]
          BY <3>4, <3>5 DEF Respells
      <4> HIDE DEF level
      <4> QED
          BY <3>2, <3>3, <3>5, <4>1 DEF Unique
    <3>6. ToSet(s) = ToSet(levels) \cup {level}
      <4>1. DOMAIN levels \subseteq DOMAIN s /\ Len(levels) + 1 \in DOMAIN s
          BY <1>2, <3>2
      <4> QED
          BY <3>2, <3>3, <4>1 DEF ToSet
    <3>7. {l \in ToSet(levels) : l.price # price} = ToSet(levels)
        BY <3>4 DEF ToSet
    <3> QED
        BY <1>4, <3>2, <3>5, <3>6, <3>7 DEF After, s
  <2>2. CASE S # DOMAIN levels
    <3>1. s = [i \in DOMAIN levels |-> IF levels[i].price # price THEN levels[i] ELSE level]
        BY <1>4, <2>2 DEF ApplyLevel
    <3>2. PICK at \in DOMAIN levels : levels[at].price = price
        BY <2>2
    <3> HIDE DEF s
    <3>3. /\ s \in Seq(Level) /\ DOMAIN s = DOMAIN levels
          /\ \A i \in DOMAIN s : s[i].price = levels[i].price
        BY <1>1, <1>2, <2>0, <3>1
    <3>4. ASSUME Unique(levels) PROVE Unique(s)
        BY <3>3, <3>4 DEF Unique
    <3>5. ToSet(s) = After(ToSet(levels), price, size)
      <4>1. \A i \in DOMAIN levels : s[i] = level \/ (levels[i].price # price /\ s[i] = levels[i])
          BY <3>1
      <4>2. \A i \in DOMAIN levels : levels[i].price # price => s[i] = levels[i]
          BY <3>1
      <4>3. s[at] = level
          BY <3>1, <3>2
      <4> HIDE DEF level
      <4>4. After(ToSet(levels), price, size) = {l \in ToSet(levels) : l.price # price} \cup {level}
          BY <1>4 DEF After, level
      <4> QED
          BY <3>3, <4>1, <4>2, <4>3, <4>4 DEF ToSet
    <3> QED
        BY <3>3, <3>4, <3>5 DEF s
  <2> QED
      BY <2>1, <2>2
<1> QED
    BY <1>3, <1>4

\* A level found by its text is the level of its price, when no other text is in the way.
LEMMA NumbersAfter ==
    ASSUME NEW levels \in Seq(Level), NEW price \in Texts, NEW size \in {0} \cup Sizes,
           ~Respells(levels, price)
    PROVE  Numbers(After(ToSet(levels), price, size))
              = After(Numbers(ToSet(levels)), Value[price], size)
<1> DEFINE T == ToSet(levels)
           Num(l) == [price |-> Value[l.price], size |-> l.size]
           level == [price |-> price, size |-> size]
           new == IF size = 0 THEN {} ELSE {level}
           newNum == IF size = 0 THEN {} ELSE {Num(level)}
<1>1. \A l \in T : l.price # price <=> Value[l.price] # Value[price]
    BY DEF Respells, ToSet
<1>2. Numbers(After(T, price, size)) = {Num(l) : l \in {x \in T : x.price # price}} \cup newNum
    BY DEF Numbers, After
<1>3. After(Numbers(T), Value[price], size) = {n \in {Num(l) : l \in T} : n.price # Value[price]} \cup newNum
    BY DEF Numbers, After
<1>4. {Num(l) : l \in {x \in T : x.price # price}} = {n \in {Num(l) : l \in T} : n.price # Value[price]}
  <2> HIDE DEF T
  <2> QED
      BY <1>1
<1> QED
    BY <1>2, <1>3, <1>4

LEMMA ReadLevelsType ==
    ASSUME NEW b \in Book
    PROVE  Levels(b) \in Listing /\ Read(Levels(b)) \in Quotes
<1>1. b.bids \in Seq(Level) /\ b.asks \in Seq(Level)
    BY DEF Book
<1>2. ToSet(b.bids) \in SUBSET Level /\ ToSet(b.asks) \in SUBSET Level
    BY <1>1 DEF ToSet
<1>3. b["bids"] = b.bids /\ b["asks"] = b.asks
    OBVIOUS
<1>4. Levels(b) \in Listing
    BY <1>2, <1>3 DEF Levels, Listing, Sides
<1> QED
    BY <1>4, ReadType

\* A delta leaves a book in order.
LEMMA AppliedFacts ==
    ASSUME NEW b \in Book, NEW d \in Delta, d.size # None
    PROVE  Applied(b, d) \in Book /\ Ordered(Applied(b, d))
<1>1. d.side \in Sides /\ d.price \in Texts /\ d.size \in {0} \cup Sizes
    BY DeltaParts
<1>2. b.bids \in Seq(Level) /\ b.asks \in Seq(Level)
    BY DEF Book
<1> DEFINE bids == IF d.side = "bids" THEN ApplyLevel(b.bids, d.price, d.size) ELSE b.bids
           asks == IF d.side = "asks" THEN ApplyLevel(b.asks, d.price, d.size) ELSE b.asks
<1>3. bids \in Seq(Level) /\ asks \in Seq(Level)
    BY <1>1, <1>2, ApplyLevelFacts
<1>4. Applied(b, d) = Normalized("websocket_delta", bids, asks)
    BY <1>1 DEF Applied, Sides
<1> HIDE DEF bids, asks
<1> QED
    BY <1>3, <1>4, NormalizedFacts DEF Sources

\* And changes one side of it as the exchange means it, if it finds the level.
LEMMA AppliedMeans ==
    ASSUME NEW b \in Book, Clear(b), NEW d \in Delta, d.size # None,
           ~Respells(b[d.side], d.price)
    PROVE  /\ Clear(Applied(b, d))
           /\ \A side \in Sides :
                 Read(Levels(Applied(b, d)))[side]
                    = IF side = d.side THEN After(Read(Levels(b))[side], Value[d.price], d.size)
                                       ELSE Read(Levels(b))[side]
<1>1. d.side \in Sides /\ d.price \in Texts /\ d.size \in {0} \cup Sizes
    BY DeltaParts
<1>2. /\ b.bids \in Seq(Level) /\ b.asks \in Seq(Level) /\ Unique(b.bids) /\ Unique(b.asks)
      /\ b["bids"] = b.bids /\ b["asks"] = b.asks
    BY DEF Book, Clear
<1> DEFINE bids == IF d.side = "bids" THEN ApplyLevel(b.bids, d.price, d.size) ELSE b.bids
           asks == IF d.side = "asks" THEN ApplyLevel(b.asks, d.price, d.size) ELSE b.asks
           c == Applied(b, d)
<1>3. /\ bids \in Seq(Level) /\ Unique(bids)
      /\ Numbers(ToSet(bids)) = IF d.side = "bids" THEN After(Numbers(ToSet(b.bids)), Value[d.price], d.size)
                                                   ELSE Numbers(ToSet(b.bids))
  <2>1. CASE d.side = "bids"
    <3>1. ~Respells(b.bids, d.price)
        BY <1>2, <2>1
    <3>2. /\ ApplyLevel(b.bids, d.price, d.size) \in Seq(Level)
          /\ Unique(ApplyLevel(b.bids, d.price, d.size))
          /\ ToSet(ApplyLevel(b.bids, d.price, d.size)) = After(ToSet(b.bids), d.price, d.size)
        BY <1>1, <1>2, <3>1, ApplyLevelFacts
    <3>3. Numbers(After(ToSet(b.bids), d.price, d.size))
              = After(Numbers(ToSet(b.bids)), Value[d.price], d.size)
        BY <1>1, <1>2, <3>1, NumbersAfter
    <3> QED
        BY <2>1, <3>2, <3>3
  <2>2. CASE d.side # "bids"
      BY <1>2, <2>2
  <2> QED
      BY <2>1, <2>2
<1>4. /\ asks \in Seq(Level) /\ Unique(asks)
      /\ Numbers(ToSet(asks)) = IF d.side = "asks" THEN After(Numbers(ToSet(b.asks)), Value[d.price], d.size)
                                                   ELSE Numbers(ToSet(b.asks))
  <2>1. CASE d.side = "asks"
    <3>1. ~Respells(b.asks, d.price)
        BY <1>2, <2>1
    <3>2. /\ ApplyLevel(b.asks, d.price, d.size) \in Seq(Level)
          /\ Unique(ApplyLevel(b.asks, d.price, d.size))
          /\ ToSet(ApplyLevel(b.asks, d.price, d.size)) = After(ToSet(b.asks), d.price, d.size)
        BY <1>1, <1>2, <3>1, ApplyLevelFacts
    <3>3. Numbers(After(ToSet(b.asks), d.price, d.size))
              = After(Numbers(ToSet(b.asks)), Value[d.price], d.size)
        BY <1>1, <1>2, <3>1, NumbersAfter
    <3> QED
        BY <2>1, <3>2, <3>3
  <2>2. CASE d.side # "asks"
      BY <1>2, <2>2
  <2> QED
      BY <2>1, <2>2
<1>5. c = Normalized("websocket_delta", bids, asks)
    BY <1>1 DEF Applied, Sides
<1> HIDE DEF bids, asks, c
<1>6. /\ Levels(c)["bids"] = ToSet(bids) /\ Levels(c)["asks"] = ToSet(asks)
      /\ Clear(c)
    BY <1>3, <1>4, <1>5, NormalizedFacts DEF Sources
<1>7. /\ Read(Levels(c))["bids"] = Numbers(ToSet(bids)) /\ Read(Levels(c))["asks"] = Numbers(ToSet(asks))
      /\ Read(Levels(b))["bids"] = Numbers(ToSet(b.bids)) /\ Read(Levels(b))["asks"] = Numbers(ToSet(b.asks))
    BY <1>2, <1>6 DEF Read, Levels, Sides
<1>8. \A side \in Sides :
          Read(Levels(c))[side] = IF side = d.side THEN After(Read(Levels(b))[side], Value[d.price], d.size)
                                                   ELSE Read(Levels(b))[side]
    BY <1>3, <1>4, <1>7 DEF Sides
<1> QED
    BY <1>6, <1>8 DEF c

-----------------------------------------------------------------------------
(* A message of deltas: what the watch does is what the exchange means.       *)

OrderedBook == {b \in Book : Ordered(b)}

Publications == [Tokens -> [times : Nat, last : Book \cup {None}]]

\* What a message of deltas goes through, with books of the tokens D.
States(D) ==
    [books : [D -> OrderedBook], published : Publications, applied : Nat, astray : SUBSET Tokens]

LiveOf(bks) ==
    [t \in Tokens |-> IF t \in DOMAIN bks THEN Read(Levels(bks[t])) ELSE [side \in Sides |-> {}]]

LEMMA LiveOfType ==
    ASSUME NEW bks, \A t \in DOMAIN bks : bks[t] \in Book
    PROVE  LiveOf(bks) \in Markets
<1>1. [side \in Sides |-> {}] \in Quotes
    BY DEF Quotes
<1>2. \A t \in DOMAIN bks : Read(Levels(bks[t])) \in Quotes
    BY ReadLevelsType
<1> QED
    BY <1>1, <1>2 DEF LiveOf, Markets

LEMMA PublishedType ==
    ASSUME NEW pub \in Publications, NEW t \in Tokens, NEW b \in Book
    PROVE  /\ Published(pub, t, b) \in Publications
           /\ Published(pub, t, b)[t] = [times |-> pub[t].times + 1, last |-> b]
           /\ \A u \in Tokens : u # t => Published(pub, t, b)[u] = pub[u]
<1>1. pub[t].times \in Nat
    BY DEF Publications
<1> QED
    BY <1>1 DEF Published, Publications

LEMMA DeltaCase ==
    ASSUME NEW D \in SUBSET Tokens, NEW st \in States(D), NEW d \in Delta,
           d.token \in D, d.size # None
    PROVE  LET b == Applied(st.books[d.token], d)
           IN  /\ b \in OrderedBook
               /\ b.source = "websocket_delta"
               /\ DeltaStep(st, d).books = [st.books EXCEPT ![d.token] = b]
               /\ DeltaStep(st, d).published = Published(st.published, d.token, b)
               /\ DeltaStep(st, d).applied = st.applied + 1
               /\ DeltaStep(st, d).astray = IF Respells(st.books[d.token][d.side], d.price)
                                            THEN st.astray \cup {d.token} ELSE st.astray
               /\ DeltaStep(st, d) \in States(D)
<1>1. /\ st.books \in [D -> OrderedBook] /\ st.published \in Publications /\ st.applied \in Nat
      /\ st.astray \in SUBSET Tokens /\ d.token \in Tokens
    BY DEF States
<1>2. st.books[d.token] \in Book
    BY <1>1 DEF OrderedBook
<1> DEFINE b == Applied(st.books[d.token], d)
           a == IF Respells(st.books[d.token][d.side], d.price)
                THEN st.astray \cup {d.token} ELSE st.astray
           p == Published(st.published, d.token, b)
<1>3. b \in Book /\ b \in OrderedBook
    BY <1>2, AppliedFacts DEF OrderedBook
<1>4. b.source = "websocket_delta"
    BY DEF Applied, Normalized
<1>5. DeltaStep(st, d) = [books |-> [st.books EXCEPT ![d.token] = b],
                          published |-> p,
                          applied |-> st.applied + 1,
                          astray |-> a]
    BY <1>1 DEF DeltaStep
<1>6. a \in SUBSET Tokens
    BY <1>1
<1> HIDE DEF b
<1>7. p \in Publications
    BY <1>1, <1>3, PublishedType
<1>8. [st.books EXCEPT ![d.token] = b] \in [D -> OrderedBook] /\ st.applied + 1 \in Nat
    BY <1>1, <1>3
<1> HIDE DEF a, p
<1>9. DeltaStep(st, d) \in States(D)
    BY <1>5, <1>6, <1>7, <1>8 DEF States
<1> QED
    BY <1>3, <1>4, <1>5, <1>9 DEF a, b, p

LEMMA DeltaType ==
    ASSUME NEW D \in SUBSET Tokens, NEW st \in States(D), NEW d \in Delta
    PROVE  DeltaStep(st, d) \in States(D)
<1>1. st.books \in [D -> OrderedBook]
    BY DEF States
<1>2. CASE d.token \notin D \/ d.size = None
    BY <1>1, <1>2 DEF DeltaStep
<1>3. CASE d.token \in D /\ d.size # None
    BY <1>3, DeltaCase
<1> QED
    BY <1>2, <1>3

\* The deltas of a message, applied one after the other.
LEMMA DeltaFold ==
    ASSUME NEW D \in SUBSET Tokens, NEW st \in States(D), NEW ds \in Seq(Delta)
    PROVE  \E g \in [0..Len(ds) -> States(D)] :
              /\ g[0] = st
              /\ \A k \in 1..Len(ds) : g[k] = DeltaStep(g[k - 1], ds[k])
              /\ FoldLeft(DeltaStep, st, ds) = g[Len(ds)]
<1> DEFINE n == Len(ds)
           step == [p \in States(D) \X (1..n) |-> DeltaStep(p[1], ds[p[2]])]
           Is(it) == it = [s \in SUBSET (1..n) |->
                              IF s = {} THEN st ELSE DeltaStep(it[s \ {Max(s)}], ds[Max(s)])]
           it == CHOOSE f : Is(f)
           run == [k \in 0..n |-> it[1..k]]
<1>1. n \in Nat /\ DOMAIN ds = 1..n /\ st \in States(D) /\ \A k \in 1..n : ds[k] \in Delta
    OBVIOUS
<1>2. step \in [States(D) \X (1..n) -> States(D)]
    BY <1>1, DeltaType
<1>3. \E f : Is(f)
  <2>1. PICK f : FoldsUpto(f, n, States(D), st, step)
    <3> HIDE DEF step, n
    <3> QED
        BY <1>1, <1>2, FoldExists
  <2>2. ASSUME NEW s \in SUBSET (1..n), s # {}
        PROVE  f[s] = DeltaStep(f[s \ {Max(s)}], ds[Max(s)])
    <3>1. Max(s) \in 1..n /\ s \ {Max(s)} \in SUBSET (1..n)
        BY <1>1, <2>2, MaxInSet
    <3> QED
        BY <2>1, <2>2, <3>1 DEF FoldsUpto
  <2>3. f = [s \in SUBSET (1..n) |->
                 IF s = {} THEN st ELSE DeltaStep(f[s \ {Max(s)}], ds[Max(s)])]
      BY <2>1, <2>2 DEF FoldsUpto
  <2> QED
      BY <2>3
<1>4. Is(it)
  <2> HIDE DEF Is
  <2> QED
      BY <1>3
<1>5. FoldLeft(DeltaStep, st, ds) = it[1..n]
    BY <1>1 DEF FoldLeft, MapThenFoldSet
<1>6. RunsTo(run, n, States(D), st, step, it[1..n])
  <2>1. it[{}] = st
    <3> HIDE DEF it
    <3> QED
        BY <1>4
  <2>2. ASSUME NEW s \in SUBSET (1..n), s # {}, it[s \ {Max(s)}] \in States(D)
        PROVE  it[s] = step[<<it[s \ {Max(s)}], Max(s)>>]
    <3>1. Max(s) \in 1..n
        BY <1>1, <2>2, MaxInSet
    <3> HIDE DEF it
    <3> QED
        BY <1>4, <2>2, <3>1
  <2> HIDE DEF it, step, n, Is
  <2> QED
      BY <1>1, <1>2, <2>1, <2>2, FoldRuns
<1> HIDE DEF it, run
<1>7. \A k \in 1..n : run[k] = DeltaStep(run[k - 1], ds[k])
  <2> SUFFICES ASSUME NEW k \in 1..n PROVE run[k] = DeltaStep(run[k - 1], ds[k])
      OBVIOUS
  <2>1. run[k - 1] \in States(D)
      BY <1>1, <1>6 DEF RunsTo
  <2> QED
      BY <1>6, <2>1 DEF RunsTo
<1> QED
    BY <1>5, <1>6, <1>7 DEF RunsTo

\* How often a book was broadcast.
Times(pub) == FoldSet(LAMBDA t, n : pub[t].times + n, 0, Tokens)

LEMMA TimesAddsUp ==
    ASSUME NEW pub \in Publications
    PROVE  \E f : AddsUp(f, Tokens, [t \in Tokens |-> pub[t].times]) /\ Times(pub) = f[Tokens]
<1> DEFINE w == [t \in Tokens |-> pub[t].times]
           Is(f) == f = [s \in SUBSET Tokens |->
                            IF s = {} THEN 0
                            ELSE pub[CHOOSE x \in s : TRUE].times + f[s \ {CHOOSE x \in s : TRUE}]]
           it == CHOOSE f : Is(f)
<1>1. w \in [Tokens -> Nat]
    BY DEF Publications
<1>2. \A f : AddsUp(f, Tokens, w) <=> f \in [SUBSET Tokens -> Nat] /\ Is(f)
    BY DEF AddsUp
<1>3. PICK f : AddsUp(f, Tokens, w)
  <2> HIDE DEF w
  <2> QED
      BY <1>1, FeedAssumption, SumExists
<1>4. Times(pub) = it[Tokens]
    BY DEF Times, FoldSet, MapThenFoldSet
<1>5. Is(it)
  <2>1. Is(f)
      BY <1>2, <1>3
  <2> HIDE DEF Is
  <2> QED
      BY <2>1
<1>6. AddsUp(it, Tokens, w)
  <2> DEFINE T == {s \in SUBSET Tokens : it[s] = f[s]}
  <2> HIDE DEF it
  <2>1. {} \in T
      BY <1>5, <1>3 DEF AddsUp
  <2>2. ASSUME NEW s \in SUBSET Tokens, s # {}, s \ {CHOOSE x \in s : TRUE} \in T PROVE s \in T
    <3> DEFINE x == CHOOSE y \in s : TRUE
    <3>1. x \in Tokens /\ s \ {x} \in SUBSET Tokens
        BY <2>2
    <3>2. it[s] = pub[x].times + it[s \ {x}]
        BY <1>5, <2>2
    <3>3. f[s] = w[x] + f[s \ {x}]
        BY <1>3, <2>2 DEF AddsUp
    <3>4. it[s \ {x}] = f[s \ {x}]
        BY <2>2
    <3> HIDE DEF x
    <3> QED
        BY <3>1, <3>2, <3>3, <3>4
  <2>3. SUBSET Tokens \subseteq T
    <3> HIDE DEF T
    <3> QED
        BY <2>1, <2>2, FeedAssumption, SubsetInduction
  <2>4. it \in [SUBSET Tokens -> Nat]
    <3>1. \A s \in SUBSET Tokens : it[s] \in Nat
        BY <1>3, <2>3 DEF AddsUp
    <3>2. it = [s \in SUBSET Tokens |-> it[s]]
        BY <1>5
    <3> QED
        BY <3>1, <3>2
  <2> QED
      BY <1>2, <1>5, <2>4
<1> QED
    BY <1>4, <1>6

\* A broadcast is counted once.
LEMMA TimesBumped ==
    ASSUME NEW pub \in Publications, NEW t \in Tokens, NEW b \in Book
    PROVE  Times(pub) \in Nat /\ Times(Published(pub, t, b)) = Times(pub) + 1
<1> DEFINE next == Published(pub, t, b)
           v == [u \in Tokens |-> pub[u].times]
           w == [u \in Tokens |-> next[u].times]
<1>0. /\ next \in Publications /\ next[t] = [times |-> pub[t].times + 1, last |-> b]
      /\ \A u \in Tokens : u # t => next[u] = pub[u]
    BY PublishedType
<1> HIDE DEF next
<1>1. /\ next \in Publications /\ next[t].times = pub[t].times + 1
      /\ \A u \in Tokens : u # t => next[u] = pub[u]
    BY <1>0
<1>2. v \in [Tokens -> Nat] /\ w \in [Tokens -> Nat]
    BY <1>1 DEF Publications
<1>3. w[t] = v[t] + 1 /\ \A u \in Tokens : u # t => w[u] = v[u]
    BY <1>1
<1>4. PICK f : AddsUp(f, Tokens, v) /\ Times(pub) = f[Tokens]
    BY TimesAddsUp
<1>5. PICK g : AddsUp(g, Tokens, w) /\ Times(next) = g[Tokens]
    BY <1>1, TimesAddsUp
<1> HIDE DEF v, w
<1>6. g[Tokens] = f[Tokens] + 1
    BY <1>2, <1>3, <1>4, <1>5, FeedAssumption, SumBumped
<1>7. f[Tokens] \in Nat
    BY <1>4 DEF AddsUp
<1> QED
    BY <1>4, <1>5, <1>6, <1>7 DEF next


\* The last broadcast of a book is the book, once there was one.
LastIs(bks, pub) == \A t \in DOMAIN bks : bks[t].source # "rest_seed" => pub[t].last = bks[t]

\* The books that are not astray say what the market m does.
Faithful(st, m, D) ==
    \A t \in D \ st.astray : Clear(st.books[t]) /\ Read(Levels(st.books[t])) = m[t]

\* One delta.
LEMMA DeltaQuoted ==
    ASSUME NEW D \in SUBSET Tokens, NEW st \in States(D), NEW d \in Delta, NEW m \in Markets,
           Faithful(st, m, D)
    PROVE  /\ Faithful(DeltaStep(st, d), Quoted(m, d), D)
           /\ st.astray \subseteq DeltaStep(st, d).astray
<1>1. st.books \in [D -> OrderedBook]
    BY DEF States
<1>2. CASE d.size = None
    BY <1>2 DEF DeltaStep, Quoted
<1>3. CASE d.size # None /\ d.token \notin D
  <2>1. DeltaStep(st, d) = st
      BY <1>1, <1>3 DEF DeltaStep
  <2>2. \A t \in D : Quoted(m, d)[t] = m[t]
      BY <1>3, QuotedAt
  <2> QED
      BY <2>1, <2>2 DEF Faithful
<1>4. CASE d.size # None /\ d.token \in D
  <2> DEFINE t == d.token
             c == st.books[t]
             b == Applied(c, d)
             next == DeltaStep(st, d)
  <2>0. t \in Tokens /\ d.side \in Sides /\ c \in Book
      BY <1>1, <1>4, DeltaParts DEF OrderedBook
  <2>1. /\ next.books = [st.books EXCEPT ![t] = b]
        /\ next.astray = IF Respells(c[d.side], d.price) THEN st.astray \cup {t} ELSE st.astray
    <3>1. next.books = [st.books EXCEPT ![t] = b]
        BY <1>4, DeltaCase
    <3>2. next.astray = IF Respells(c[d.side], d.price) THEN st.astray \cup {t} ELSE st.astray
        BY <1>4, DeltaCase
    <3> HIDE DEF c, b, next
    <3> QED
        BY <3>1, <3>2
  <2>2. b \in OrderedBook
      BY <1>4, DeltaCase
  <2>3. st.astray \subseteq next.astray
      BY <2>1
  <2>4. ASSUME NEW u \in D \ next.astray
        PROVE  Clear(next.books[u]) /\ Read(Levels(next.books[u])) = Quoted(m, d)[u]
    <3>1. u \in D /\ u \notin st.astray /\ u \in Tokens
        BY <2>3, <2>4
    <3>2. Clear(st.books[u]) /\ Read(Levels(st.books[u])) = m[u]
        BY <3>1 DEF Faithful
    <3>3. CASE u # t
      <4>1. next.books[u] = st.books[u]
        <5> HIDE DEF next, b, t
        <5> QED
            BY <1>1, <2>1, <3>1, <3>3
      <4>2. Quoted(m, d)[u] = m[u]
          BY <1>4, <3>1, <3>3, QuotedAt
      <4> QED
          BY <3>2, <4>1, <4>2
    <3>4. CASE u = t
      <4>1. next.books[u] = b
        <5> HIDE DEF next, b, t
        <5> QED
            BY <1>1, <2>1, <3>1, <3>4
      <4>2. ~Respells(c[d.side], d.price)
          BY <2>1, <2>4, <3>4
      <4>3. Clear(c) /\ Read(Levels(c)) = m[t]
          BY <3>2, <3>4
      <4>4. Clear(b)
          BY <1>4, <2>0, <4>2, <4>3, AppliedMeans
      <4>5. \A side \in Sides : Read(Levels(b))[side]
                = IF side = d.side THEN After(Read(Levels(c))[side], Value[d.price], d.size)
                                   ELSE Read(Levels(c))[side]
          BY <1>4, <2>0, <4>2, <4>3, AppliedMeans
      <4>6. \A side \in Sides : Quoted(m, d)[t][side]
                = IF side = d.side THEN After(m[t][side], Value[d.price], d.size) ELSE m[t][side]
          BY <1>4, <2>0, QuotedAt
      <4>7. \A side \in Sides : Read(Levels(b))[side] = Quoted(m, d)[t][side]
          BY <4>3, <4>5, <4>6
      <4>8. Read(Levels(b)) \in Quotes /\ Quoted(m, d)[t] \in Quotes
          BY <1>4, <2>0, <2>2, ReadLevelsType, QuotedAt DEF OrderedBook, Markets
      <4>9. Read(Levels(b)) = Quoted(m, d)[t]
        <5> HIDE DEF b, t
        <5> QED
            BY <4>7, <4>8 DEF Quotes
      <4> QED
          BY <3>4, <4>1, <4>4, <4>9
    <3> QED
        BY <3>3, <3>4
  <2> QED
      BY <2>3, <2>4 DEF Faithful
<1> QED
    BY <1>2, <1>3, <1>4

LEMMA DeltaPublished ==
    ASSUME NEW D \in SUBSET Tokens, NEW st \in States(D), NEW d \in Delta
    PROVE  /\ LastIs(st.books, st.published)
                 => LastIs(DeltaStep(st, d).books, DeltaStep(st, d).published)
           /\ \A n \in Nat : Times(st.published) = n + st.applied
                 => Times(DeltaStep(st, d).published) = n + DeltaStep(st, d).applied
<1>1. st.books \in [D -> OrderedBook] /\ st.published \in Publications /\ st.applied \in Nat
    BY DEF States
<1>2. CASE d.size = None \/ d.token \notin D
    BY <1>1, <1>2 DEF DeltaStep
<1>3. CASE d.size # None /\ d.token \in D
  <2> DEFINE t == d.token
             b == Applied(st.books[t], d)
             next == DeltaStep(st, d)
  <2>0. t \in Tokens /\ t \in D
      BY <1>3
  <2>1. /\ b \in OrderedBook
        /\ next.books = [st.books EXCEPT ![t] = b]
        /\ next.published = Published(st.published, t, b)
        /\ next.applied = st.applied + 1
    <3>1. b \in OrderedBook
        BY <1>3, DeltaCase
    <3>2. next.books = [st.books EXCEPT ![t] = b]
        BY <1>3, DeltaCase
    <3>3. next.published = Published(st.published, t, b)
        BY <1>3, DeltaCase
    <3>4. next.applied = st.applied + 1
        BY <1>3, DeltaCase
    <3> HIDE DEF b, next
    <3> QED
        BY <3>1, <3>2, <3>3, <3>4
  <2> HIDE DEF t, b, next
  <2>2. b \in Book
      BY <2>1 DEF OrderedBook
  <2>3. /\ Published(st.published, t, b)[t] = [times |-> st.published[t].times + 1, last |-> b]
        /\ \A u \in Tokens : u # t => Published(st.published, t, b)[u] = st.published[u]
      BY <1>1, <2>0, <2>2, PublishedType
  <2>5. LastIs(st.books, st.published) => LastIs(next.books, next.published)
      BY <1>1, <2>0, <2>1, <2>3 DEF LastIs
  <2>6. Times(next.published) = Times(st.published) + 1 /\ Times(st.published) \in Nat
      BY <1>1, <2>0, <2>1, <2>2, TimesBumped
  <2>7. ASSUME NEW n \in Nat, Times(st.published) = n + st.applied
        PROVE  Times(next.published) = n + next.applied
      BY <1>1, <2>1, <2>6, <2>7
  <2> QED
      BY <2>5, <2>7 DEF next
<1> QED
    BY <1>2, <1>3

\* A message of deltas: the books that are not astray become what the exchange means, what
\* was broadcast last of each is the book, and each delta applied was broadcast once.
LEMMA ChangeApplied ==
    ASSUME NEW D \in SUBSET Tokens, NEW bks \in [D -> OrderedBook], NEW pub \in Publications,
           NEW gone \in SUBSET Tokens, NEW ds \in Seq(Delta), NEW m \in Markets, LastIs(bks, pub),
           Faithful([books |-> bks, published |-> pub, applied |-> 0, astray |-> gone], m, D)
    PROVE  LET st == FoldLeft(DeltaStep,
                              [books |-> bks, published |-> pub, applied |-> 0, astray |-> gone], ds)
           IN  /\ st \in States(D)
               /\ Faithful(st, FoldLeft(Quoted, m, ds), D)
               /\ LastIs(st.books, st.published)
               /\ Times(st.published) = Times(pub) + st.applied
               /\ gone \subseteq st.astray
<1> DEFINE base == [books |-> bks, published |-> pub, applied |-> 0, astray |-> gone]
           n == Len(ds)
           st == FoldLeft(DeltaStep, base, ds)
           times == Times(pub)
<1>1. base \in States(D)
    BY DEF States
<1>3. times \in Nat
  <2>1. PICK f : AddsUp(f, Tokens, [t \in Tokens |-> pub[t].times]) /\ times = f[Tokens]
      BY TimesAddsUp
  <2> QED
      BY <2>1 DEF AddsUp
<1>4. /\ base.books = bks /\ base.published = pub /\ base.applied = 0 /\ base.astray = gone
      /\ Faithful(base, m, D)
    OBVIOUS
<1> HIDE DEF base, times
<1>5. PICK g \in [0..n -> States(D)] :
          /\ g[0] = base
          /\ \A k \in 1..n : g[k] = DeltaStep(g[k - 1], ds[k])
          /\ st = g[n]
    BY <1>1, DeltaFold
<1>6. PICK h \in [0..n -> Markets] :
          /\ h[0] = m
          /\ \A k \in 1..n : h[k] = Quoted(h[k - 1], ds[k])
          /\ FoldLeft(Quoted, m, ds) = h[n]
    BY QuotedFold
<1> HIDE DEF st
<1> DEFINE Agree(k) == /\ Faithful(g[k], h[k], D)
                       /\ LastIs(g[k].books, g[k].published)
                       /\ Times(g[k].published) = times + g[k].applied
                       /\ gone \subseteq g[k].astray
           T == {k \in Nat : k <= n => Agree(k)}
<1>7. n \in Nat /\ \A k \in 1..n : ds[k] \in Delta
    OBVIOUS
<1> HIDE DEF n
<1>8. 0 \in T
  <2>1. Agree(0)
      BY <1>3, <1>4, <1>5, <1>6 DEF times
  <2> HIDE DEF Agree
  <2> QED
      BY <2>1
<1>9. ASSUME NEW k \in Nat, k \in T PROVE k + 1 \in T
  <2> SUFFICES ASSUME k + 1 <= n, Agree(k) PROVE Agree(k + 1)
    <3> HIDE DEF Agree
    <3> QED
        BY <1>7, <1>9
  <2>1. k + 1 \in 1..n /\ (k + 1) - 1 = k /\ k \in 0..n
      BY <1>7
  <2>2. /\ g[k + 1] = DeltaStep(g[k], ds[k + 1]) /\ g[k] \in States(D)
        /\ h[k + 1] = Quoted(h[k], ds[k + 1]) /\ h[k] \in Markets
        /\ ds[k + 1] \in Delta
    <3>1. \A i \in 1..n : g[i] = DeltaStep(g[i - 1], ds[i]) /\ h[i] = Quoted(h[i - 1], ds[i])
        BY <1>5, <1>6
    <3> QED
        BY <1>5, <1>6, <1>7, <2>1, <3>1
  <2>3. Faithful(g[k + 1], h[k + 1], D) /\ g[k].astray \subseteq g[k + 1].astray
      BY <2>2, DeltaQuoted
  <2>4. LastIs(g[k + 1].books, g[k + 1].published)
      BY <2>2, DeltaPublished
  <2>5. Times(g[k + 1].published) = times + g[k + 1].applied
      BY <1>3, <2>2, DeltaPublished
  <2> QED
      BY <2>3, <2>4, <2>5
<1>10. Agree(n)
  <2>1. Nat \subseteq T
    <3> HIDE DEF T
    <3> QED
        BY <1>8, <1>9, Induction
  <2> HIDE DEF Agree
  <2> QED
      BY <1>7, <2>1
<1>11. st \in States(D)
    BY <1>5, <1>7
<1> QED
    BY <1>5, <1>6, <1>10, <1>11 DEF st, base, times

-----------------------------------------------------------------------------
(* What is on its way.                                                        *)

OnePer(m) == \A t \in Tokens : \A side \in Sides : OnePerPrice(m[t][side])

LEMMA SoundIs == ASSUME NEW m PROVE Sound(m) <=> OnePer(m) /\ Uncrossed(m)
    BY DEF Sound, SoundQuotes, OnePer, Uncrossed

LEMMA QuotedOnePer ==
    ASSUME NEW m \in Markets, NEW d \in Delta, OnePer(m)
    PROVE  OnePer(Quoted(m, d))
<1>1. CASE d.size = None
    BY <1>1 DEF Quoted
<1>2. CASE d.size # None
  <2>1. \A t \in Tokens : \A side \in Sides : OnePerPrice(After(m[t][side], Value[d.price], d.size))
      BY DEF OnePer, OnePerPrice, After
  <2>2. \A t \in Tokens : \A side \in Sides :
            Quoted(m, d)[t][side] = IF t = d.token /\ side = d.side
                                    THEN After(m[t][side], Value[d.price], d.size)
                                    ELSE m[t][side]
      BY <1>2, QuotedAt
  <2> QED
      BY <2>1, <2>2 DEF OnePer
<1> QED
    BY <1>1, <1>2

LEMMA QuotedFoldType ==
    ASSUME NEW m \in Markets, NEW ds \in Seq(Delta)
    PROVE  /\ FoldLeft(Quoted, m, ds) \in Markets
           /\ OnePer(m) => OnePer(FoldLeft(Quoted, m, ds))
<1> DEFINE n == Len(ds)
<1>1. n \in Nat /\ \A k \in 1..n : ds[k] \in Delta
    OBVIOUS
<1>2. PICK g \in [0..n -> Markets] :
          /\ g[0] = m
          /\ \A k \in 1..n : g[k] = Quoted(g[k - 1], ds[k])
          /\ FoldLeft(Quoted, m, ds) = g[n]
    BY QuotedFold
<1> HIDE DEF n
<1>3. ASSUME OnePer(m) PROVE OnePer(g[n])
  <2> DEFINE T == {k \in Nat : k <= n => OnePer(g[k])}
  <2>1. 0 \in T
      BY <1>2, <1>3
  <2>2. ASSUME NEW k \in Nat, k \in T PROVE k + 1 \in T
    <3> SUFFICES ASSUME k + 1 <= n PROVE OnePer(g[k + 1])
        OBVIOUS
    <3>1. k + 1 \in 1..n /\ (k + 1) - 1 = k /\ k \in 0..n /\ OnePer(g[k])
        BY <1>1, <2>2
    <3>2. g[k + 1] = Quoted(g[k], ds[k + 1]) /\ g[k] \in Markets /\ ds[k + 1] \in Delta
      <4>1. \A i \in 1..n : g[i] = Quoted(g[i - 1], ds[i])
          BY <1>2
      <4> QED
          BY <1>1, <1>2, <3>1, <4>1
    <3> QED
        BY <3>1, <3>2, QuotedOnePer
  <2>3. Nat \subseteq T
    <3> HIDE DEF T
    <3> QED
        BY <2>1, <2>2, Induction
  <2> QED
      BY <1>1, <2>3
<1> QED
    BY <1>1, <1>2, <1>3

\* From the market m the messages s make mk, and every market on the way is sound.
Reaches(m, s, mk) ==
    /\ FoldLeft(Meant, m, s) = mk
    /\ \A k \in 0..Len(s) : Sound(FoldLeft(Meant, m, SubSeq(s, 1, k)))

GoodRun(g, m, s, mk) ==
    /\ MeantRun(g, m, s)
    /\ g[Len(s)] = mk
    /\ \A k \in 0..Len(s) : Sound(g[k])

LEMMA ReachesRun ==
    ASSUME NEW m \in Markets, NEW s \in Seq(Message), NEW mk, Reaches(m, s, mk)
    PROVE  \E g : GoodRun(g, m, s, mk)
<1>0. PICK g \in [0..Len(s) -> Markets] :
          /\ g[0] = m
          /\ \A k \in 1..Len(s) : g[k] = Meant(g[k - 1], s[k])
          /\ FoldLeft(Meant, m, s) = g[Len(s)]
    BY MeantFold
<1>1. MeantRun(g, m, s) /\ FoldLeft(Meant, m, s) = g[Len(s)]
    BY <1>0 DEF MeantRun
<1>2. \A k \in 0..Len(s) : FoldLeft(Meant, m, SubSeq(s, 1, k)) = g[k]
    BY <1>1, RunIsStages
<1> QED
    BY <1>1, <1>2 DEF Reaches, GoodRun

LEMMA RunReaches ==
    ASSUME NEW m \in Markets, NEW s \in Seq(Message), NEW mk, NEW g, GoodRun(g, m, s, mk)
    PROVE  Reaches(m, s, mk)
<1>1. FoldLeft(Meant, m, s) = mk
    BY RunIsFold DEF GoodRun
<1>2. \A k \in 0..Len(s) : FoldLeft(Meant, m, SubSeq(s, 1, k)) = g[k]
    BY RunIsStages DEF GoodRun
<1> QED
    BY <1>1, <1>2 DEF Reaches, GoodRun

\* The exchange says what it does.
LEMMA SentReaches ==
    ASSUME NEW m \in Markets, NEW s \in Seq(Message), NEW mk, Reaches(m, s, mk),
           NEW message \in Message, Sound(Meant(mk, message))
    PROVE  Reaches(m, Append(s, message), Meant(mk, message))
<1> DEFINE n == Len(s)
           r == Append(s, message)
           next == Meant(mk, message)
<1>1. PICK g : GoodRun(g, m, s, mk)
    BY ReachesRun
<1>2. /\ n \in Nat /\ r \in Seq(Message) /\ Len(r) = n + 1
      /\ r[n + 1] = message /\ \A k \in 1..n : r[k] = s[k]
    OBVIOUS
<1>3. /\ g \in [0..n -> Markets] /\ g[0] = m /\ g[n] = mk
      /\ \A k \in 1..n : g[k] = Meant(g[k - 1], s[k])
      /\ \A k \in 0..n : Sound(g[k])
    BY <1>1 DEF GoodRun, MeantRun
<1> HIDE DEF n, r
<1>4. next \in Markets
    BY <1>2, <1>3, MeantType
<1> DEFINE h == [k \in 0..(n + 1) |-> IF k = n + 1 THEN next ELSE g[k]]
<1> HIDE DEF next
<1>5. \A k \in 0..n : h[k] = g[k] /\ k # n + 1
    BY <1>2
<1>6. h[n + 1] = next /\ \A k \in 0..(n + 1) : k = n + 1 \/ k \in 0..n
    BY <1>2
<1>7. h \in [0..(n + 1) -> Markets]
    BY <1>3, <1>4, <1>6
<1> HIDE DEF h
<1>8. h[0] = m
    BY <1>2, <1>3, <1>5
<1>9. \A k \in 1..(n + 1) : h[k] = Meant(h[k - 1], r[k])
  <2> SUFFICES ASSUME NEW k \in 1..(n + 1) PROVE h[k] = Meant(h[k - 1], r[k])
      OBVIOUS
  <2>1. CASE k = n + 1
    <3>1. k - 1 = n /\ n \in 0..n
        BY <1>2, <2>1
    <3> QED
        BY <1>2, <1>3, <1>5, <1>6, <2>1, <3>1 DEF next
  <2>2. CASE k # n + 1
    <3>1. k \in 1..n /\ k \in 0..n /\ k - 1 \in 0..n
        BY <1>2, <2>2
    <3> QED
        BY <1>2, <1>3, <1>5, <3>1
  <2> QED
      BY <2>1, <2>2
<1>10. \A k \in 0..(n + 1) : Sound(h[k])
    BY <1>3, <1>5, <1>6 DEF next
<1>11. GoodRun(h, m, r, next)
    BY <1>2, <1>6, <1>7, <1>8, <1>9, <1>10 DEF GoodRun, MeantRun
<1> QED
    BY <1>2, <1>11, RunReaches DEF r, next

\* The watch takes in the next message.
LEMMA TakenReaches ==
    ASSUME NEW m \in Markets, NEW s \in Seq(Message), NEW mk, Reaches(m, s, mk), s # << >>
    PROVE  LET next == Meant(m, Head(s))
           IN  next \in Markets /\ Sound(next) /\ Reaches(next, Tail(s), mk)
<1> DEFINE n == Len(s)
           r == Tail(s)
           next == Meant(m, Head(s))
<1>1. PICK g : GoodRun(g, m, s, mk)
    BY ReachesRun
<1>2. /\ n \in Nat \ {0} /\ r \in Seq(Message) /\ Len(r) = n - 1 /\ n - 1 \in Nat
      /\ \A k \in 1..(n - 1) : r[k] = s[k + 1]
      /\ Head(s) = s[1] /\ s[1] \in Message
    OBVIOUS
<1>3. /\ g \in [0..n -> Markets] /\ g[0] = m /\ g[n] = mk
      /\ \A k \in 1..n : g[k] = Meant(g[k - 1], s[k])
      /\ \A k \in 0..n : Sound(g[k])
    BY <1>1 DEF GoodRun, MeantRun
<1> HIDE DEF n, r
<1>4. next = g[1]
  <2>1. 1 \in 1..n /\ 1 - 1 = 0
      BY <1>2
  <2>2. g[1] = Meant(g[1 - 1], s[1])
      BY <1>3, <2>1
  <2> QED
      BY <1>2, <1>3, <2>1, <2>2
<1> HIDE DEF next
<1> DEFINE h == [k \in 0..(n - 1) |-> g[k + 1]]
<1>5. \A k \in 0..(n - 1) : h[k] = g[k + 1] /\ k + 1 \in 0..n
    BY <1>2
<1>6. h \in [0..(n - 1) -> Markets]
    BY <1>3, <1>5
<1>7. 0 \in 0..(n - 1) /\ n - 1 \in 0..(n - 1) /\ 0 + 1 = 1 /\ (n - 1) + 1 = n
    BY <1>2
<1> HIDE DEF h
<1>8. h[0] = next /\ h[n - 1] = mk
    BY <1>3, <1>4, <1>5, <1>7
<1>9. \A k \in 1..(n - 1) : h[k] = Meant(h[k - 1], r[k])
  <2> SUFFICES ASSUME NEW k \in 1..(n - 1) PROVE h[k] = Meant(h[k - 1], r[k])
      OBVIOUS
  <2>1. k \in 0..(n - 1) /\ k - 1 \in 0..(n - 1) /\ k + 1 \in 1..n
        /\ (k + 1) - 1 = k /\ (k - 1) + 1 = k
      BY <1>2
  <2>2. g[k + 1] = Meant(g[(k + 1) - 1], s[k + 1])
      BY <1>3, <2>1
  <2>3. h[k] = g[k + 1] /\ h[k - 1] = g[(k - 1) + 1]
      BY <1>5, <2>1
  <2> QED
      BY <1>2, <2>1, <2>2, <2>3
<1>10. \A k \in 0..(n - 1) : Sound(h[k])
    BY <1>3, <1>5
<1>11. GoodRun(h, next, r, mk)
    BY <1>2, <1>6, <1>8, <1>9, <1>10 DEF GoodRun, MeantRun
<1>12. 1 \in 0..n
    BY <1>2
<1>13. next \in Markets /\ Sound(next)
    BY <1>3, <1>4, <1>12
<1> QED
    BY <1>2, <1>11, <1>13, RunReaches DEF r, next

\* A book in full is read as it was written.
LEMMA WrittenFacts ==
    ASSUME NEW q \in Quotes, NEW sp \in Spellings
    PROVE  /\ Written(q, sp) \in Listing
           /\ Read(Written(q, sp)) = q
           /\ SoundQuotes(q) => SoundListing(Written(q, sp))
<1>1. \A n \in Prices : sp[n] \in Texts /\ Value[sp[n]] = n
    BY DEF Spellings
<1>2. \A side \in Sides : \A l \in q[side] : l \in Quote /\ l.price \in Prices /\ l.size \in Sizes
    BY DEF Quotes, Quote
<1> DEFINE w == Written(q, sp)
<1>3. \A side \in Sides : w[side] = {[price |-> sp[l.price], size |-> l.size] : l \in q[side]}
    BY DEF Written
<1>4. w \in Listing
  <2>1. \A side \in Sides : w[side] \in SUBSET Level
      BY <1>1, <1>2, <1>3 DEF Level
  <2>2. w = [side \in Sides |-> w[side]]
      BY DEF Written
  <2> HIDE DEF w
  <2> QED
      BY <2>1, <2>2 DEF Listing
<1> HIDE DEF w
<1>5. ASSUME NEW side \in Sides PROVE Numbers(w[side]) = q[side]
  <2>1. \A l \in q[side] : l = [price |-> l.price, size |-> l.size]
      BY <1>2 DEF Quote
  <2>2. \A l \in q[side] : [price |-> Value[sp[l.price]], size |-> l.size] = l
      BY <1>1, <1>2, <2>1
  <2>3. ASSUME NEW l \in q[side] PROVE l \in Numbers(w[side])
    <3>1. PICK k \in w[side] : k = [price |-> sp[l.price], size |-> l.size]
        BY <1>3
    <3>2. l = [price |-> Value[k.price], size |-> k.size]
        BY <2>2, <3>1
    <3> QED
        BY <3>1, <3>2 DEF Numbers
  <2>4. ASSUME NEW x \in Numbers(w[side]) PROVE x \in q[side]
    <3>1. PICK k \in w[side] : x = [price |-> Value[k.price], size |-> k.size]
        BY DEF Numbers
    <3>2. PICK l \in q[side] : k = [price |-> sp[l.price], size |-> l.size]
        BY <1>3
    <3> QED
        BY <2>2, <3>1, <3>2
  <2> QED
      BY <2>3, <2>4
<1>6. Read(w) = q
  <2>1. Read(w) = [side \in Sides |-> q[side]]
      BY <1>5 DEF Read
  <2> QED
      BY <2>1 DEF Quotes
<1>7. ASSUME SoundQuotes(q) PROVE SoundListing(w)
  <2>1. ASSUME NEW side \in Sides, NEW k \in w[side], NEW l \in w[side],
               Value[k.price] = Value[l.price]
        PROVE  k = l
    <3>1. PICK x \in q[side] : k = [price |-> sp[x.price], size |-> x.size]
        BY <1>3, <2>1
    <3>2. PICK y \in q[side] : l = [price |-> sp[y.price], size |-> y.size]
        BY <1>3, <2>1
    <3>3. x.price = y.price
        BY <1>1, <1>2, <2>1, <3>1, <3>2
    <3>4. x = y
        BY <1>7, <2>1, <3>3 DEF SoundQuotes, OnePerPrice
    <3> QED
        BY <3>1, <3>2, <3>4
  <2> QED
      BY <1>6, <1>7, <2>1 DEF SoundListing
<1> QED
    BY <1>4, <1>6, <1>7 DEF w

\* The messages a subscription is answered by.
Snapshots(mk, sp) ==
    LET tokens == SetToSeq(Tokens)
    IN  [i \in DOMAIN tokens |->
            [kind |-> "book", token |-> tokens[i], sides |-> Written(mk[tokens[i]], sp[tokens[i]])]]

LEMMA SnapshotsReach ==
    ASSUME NEW m \in Markets, Sound(m), NEW mk \in Markets, Sound(mk), NEW sp \in [Tokens -> Spellings]
    PROVE  /\ Snapshots(mk, sp) \in Seq(Message)
           /\ Reaches(m, Snapshots(mk, sp), mk)
           /\ \A i \in DOMAIN Snapshots(mk, sp) :
                 /\ Snapshots(mk, sp)[i].kind = "book"
                 /\ SoundListing(Snapshots(mk, sp)[i].sides)
           /\ \A t \in Tokens : \E i \in DOMAIN Snapshots(mk, sp) : Snapshots(mk, sp)[i].token = t
<1> DEFINE tokens == SetToSeq(Tokens)
           n == Len(tokens)
           s == Snapshots(mk, sp)
           sides(i) == Written(mk[tokens[i]], sp[tokens[i]])
           Before(k) == {tokens[i] : i \in 1..k}
           g == [k \in 0..n |-> [t \in Tokens |-> IF t \in Before(k) THEN mk[t] ELSE m[t]]]
<1>1. tokens \in Seq(Tokens) /\ ToSet(tokens) = Tokens
    BY FeedAssumption, SetToSeqFacts
<1>2. s = [i \in DOMAIN tokens |->
              [kind |-> "book", token |-> tokens[i], sides |-> sides(i)]]
    BY DEF Snapshots
<1> HIDE DEF tokens, s
<1>3. n \in Nat /\ DOMAIN tokens = 1..n /\ \A i \in 1..n : tokens[i] \in Tokens
    BY <1>1
<1> HIDE DEF n
<1>4. /\ DOMAIN s = 1..n
      /\ \A i \in 1..n : s[i] = [kind |-> "book", token |-> tokens[i], sides |-> sides(i)]
    BY <1>2, <1>3
<1>0. \A i \in 1..n : sides(i) \in Listing /\ Read(sides(i)) = mk[tokens[i]] /\ SoundListing(sides(i))
  <2> SUFFICES ASSUME NEW i \in 1..n
               PROVE  sides(i) \in Listing /\ Read(sides(i)) = mk[tokens[i]] /\ SoundListing(sides(i))
      OBVIOUS
  <2>1. mk[tokens[i]] \in Quotes /\ SoundQuotes(mk[tokens[i]]) /\ sp[tokens[i]] \in Spellings
      BY <1>3 DEF Markets, Sound
  <2> QED
      BY <2>1, WrittenFacts
<1> HIDE DEF sides
<1>5. \A i \in 1..n : s[i] \in Message
    BY <1>0, <1>3, <1>4 DEF Message
<1>6. s \in Seq(Message) /\ Len(s) = n
  <2>1. s \in [1..n -> Message]
      BY <1>2, <1>3, <1>5
  <2> QED
      BY <1>3, <2>1
<1>7. \A k \in 0..n : g[k] \in Markets /\ Sound(g[k])
  <2> SUFFICES ASSUME NEW k \in 0..n PROVE g[k] \in Markets /\ Sound(g[k])
      OBVIOUS
  <2>1. g[k] = [t \in Tokens |-> IF t \in Before(k) THEN mk[t] ELSE m[t]]
      OBVIOUS
  <2> HIDE DEF g, Before
  <2>2. \A t \in Tokens : g[k][t] = mk[t] \/ g[k][t] = m[t]
      BY <2>1
  <2>3. g[k] \in Markets
      BY <2>1 DEF Markets
  <2>4. Sound(g[k])
      BY <2>2 DEF Sound
  <2> QED
      BY <2>3, <2>4
<1>8. g \in [0..n -> Markets]
  <2> HIDE DEF Before
  <2> QED
      BY <1>7
<1>9. g[0] = m
  <2>1. Before(0) = {} /\ 0 \in 0..n
      BY <1>3
  <2> HIDE DEF Before
  <2>2. g[0] = [t \in Tokens |-> m[t]]
      BY <2>1
  <2> QED
      BY <2>2 DEF Markets
<1>10. g[n] = mk
  <2>1. n \in 0..n /\ \A t \in Tokens : t \in Before(n)
      BY <1>1, <1>3 DEF ToSet
  <2> HIDE DEF Before
  <2>2. g[n] = [t \in Tokens |-> mk[t]]
      BY <2>1
  <2> QED
      BY <2>2 DEF Markets
<1>11. \A k \in 1..n : g[k] = Meant(g[k - 1], s[k])
  <2> SUFFICES ASSUME NEW k \in 1..n PROVE g[k] = Meant(g[k - 1], s[k])
      OBVIOUS
  <2>1. k \in 0..n /\ k - 1 \in 0..n
      BY <1>3
  <2>2. Before(k) = Before(k - 1) \cup {tokens[k]}
    <3>1. \A i \in 1..k : i = k \/ i \in 1..(k - 1)
        BY <1>3
    <3>2. k \in 1..k /\ \A i \in 1..(k - 1) : i \in 1..k
        BY <1>3
    <3> QED
        BY <3>1, <3>2
  <2>3. /\ g[k] = [t \in Tokens |-> IF t \in Before(k) THEN mk[t] ELSE m[t]]
        /\ g[k - 1] = [t \in Tokens |-> IF t \in Before(k - 1) THEN mk[t] ELSE m[t]]
      BY <2>1
  <2> HIDE DEF g, Before
  <2>4. Meant(g[k - 1], s[k]) = [g[k - 1] EXCEPT ![tokens[k]] = mk[tokens[k]]]
      BY <1>0, <1>4 DEF Meant
  <2> QED
      BY <1>3, <2>2, <2>3, <2>4
<1> HIDE DEF g
<1>12. GoodRun(g, m, s, mk)
    BY <1>6, <1>7, <1>8, <1>9, <1>10, <1>11 DEF GoodRun, MeantRun
<1>13. Reaches(m, s, mk)
    BY <1>6, <1>12, RunReaches
<1>14. \A t \in Tokens : \E i \in DOMAIN s : s[i].token = t
  <2>1. \A t \in Tokens : \E i \in 1..n : tokens[i] = t
      BY <1>1, <1>3 DEF ToSet
  <2> QED
      BY <1>4, <2>1
<1> QED
    BY <1>0, <1>4, <1>6, <1>13, <1>14 DEF s


-----------------------------------------------------------------------------
(* The inductive invariant, with its folds as Reaches and Times say them.     *)

\* The market m is what the live books say, of the tokens that are not astray.
Agrees(m, bks, gone) == \A t \in Tokens \ gone : m[t] = LiveOf(bks)[t]

\* From books that were never crossed, the live ones but for those astray, the messages
\* on their way make the exchange's.
Reach == link => \E m \in Markets : Agrees(m, books, astray) /\ Reaches(m, wire, market)

Counted ==
    /\ LastIs(books, published)
    /\ counts.websocket = Times(published)
    /\ counts.all = counts.seeds + counts.websocket

Inv ==
    /\ TypeOK
    /\ ClosedIsEmpty
    /\ SoundBooks
    /\ Reach
    /\ Covered
    /\ Counted

LEMMA LiveIs == Live = LiveOf(books) /\ Live' = LiveOf(books')
    BY DEF Live, LiveOf

LEMMA BooksType ==
    ASSUME TypeOK, SoundBooks
    PROVE  /\ \A t \in DOMAIN books : books[t] \in Book /\ books[t] \in OrderedBook
           /\ books \in [DOMAIN books -> OrderedBook]
           /\ DOMAIN books \subseteq Tokens
           /\ market \in Markets /\ Sound(market)
           /\ published \in Publications
           /\ LiveOf(books) \in Markets
           /\ \A t \in DOMAIN books \ astray : Clear(books[t])
           /\ \A t \in Tokens \ astray : SoundQuotes(LiveOf(books)[t])
<1>1. /\ \A t \in DOMAIN books : books[t] \in Book /\ books[t] \in OrderedBook
      /\ DOMAIN books \subseteq Tokens
    BY DEF TypeOK, SoundBooks, OrderedBook
<1>2. LiveOf(books) \in Markets
    BY <1>1, LiveOfType
<1>3. books \in [DOMAIN books -> OrderedBook]
  <2>1. books = [t \in DOMAIN books |-> books[t]]
      BY DEF TypeOK
  <2> QED
      BY <1>1, <2>1
<1>4. \A t \in DOMAIN books \ astray : Clear(books[t]) /\ SoundQuotes(LiveOf(books)[t])
    BY LiveIs DEF SoundBooks, Clear
<1>5. \A t \in Tokens \ DOMAIN books : SoundQuotes(LiveOf(books)[t])
  <2>1. SoundQuotes([side \in Sides |-> {}])
      BY DEF SoundQuotes, OnePerPrice, Sides
  <2> QED
      BY <2>1 DEF LiveOf
<1> QED
    BY <1>1, <1>2, <1>3, <1>4, <1>5 DEF TypeOK, SoundBooks, Markets, Publications

LEMMA InvIInv == Inv => IInv
<1> SUFFICES ASSUME Inv PROVE IInv
    OBVIOUS
<1>0. TypeOK /\ SoundBooks /\ Reach
    BY DEF Inv
<1>1. LiveOf(books) \in Markets /\ wire \in Seq(Message) /\ Live = LiveOf(books)
    BY <1>0, BooksType, LiveIs DEF TypeOK
<1>2. ASSUME link PROVE InStep /\ SoundStages
  <2>1. PICK m \in Markets : Agrees(m, books, astray) /\ Reaches(m, wire, market)
      BY <1>0, <1>2 DEF Reach
  <2>2. ASSUME NEW s \in Seq(Message), NEW t \in Tokens, Trusted(t, s)
        PROVE  FoldLeft(Meant, Live, s)[t] = FoldLeft(Meant, m, s)[t]
    <3>1. m[t] = LiveOf(books)[t] \/ OnItsWay(t, s)
        BY <2>1, <2>2 DEF Trusted, Agrees
    <3>2. LiveOf(books)[t] = m[t] \/ OnItsWay(t, s)
        BY <3>1
    <3>3. FoldLeft(Meant, LiveOf(books), s)[t] = FoldLeft(Meant, m, s)[t]
        BY <1>1, <3>2, FoldLocal
    <3> QED
        BY <1>1, <3>3
  <2>3. InStep
    <3>1. FoldLeft(Meant, m, wire) = market
        BY <2>1 DEF Reaches
    <3>2. \A t \in Tokens : Trusted(t, wire) => FoldLeft(Meant, Live, wire)[t] = market[t]
        BY <1>1, <2>2, <3>1
    <3> QED
        BY <3>2 DEF InStep
  <2>4. SoundStages
    <3> SUFFICES ASSUME NEW k \in 0..Len(wire), NEW t \in Tokens, Trusted(t, SubSeq(wire, 1, k))
                 PROVE  SoundQuotes(Stage(k)[t])
        BY DEF SoundStages
    <3> DEFINE s == SubSeq(wire, 1, k)
    <3>1. s \in Seq(Message)
        BY <1>1
    <3>2. Sound(FoldLeft(Meant, m, s))
        BY <2>1 DEF Reaches
    <3>3. Stage(k) = FoldLeft(Meant, Live, s)
        BY DEF Stage
    <3> HIDE DEF s
    <3>4. Trusted(t, s)
        BY DEF s
    <3>5. Stage(k)[t] = FoldLeft(Meant, m, s)[t]
        BY <2>2, <3>1, <3>3, <3>4
    <3> QED
        BY <3>2, <3>5 DEF Sound
  <2> QED
      BY <2>3, <2>4
<1>3. InStep /\ SoundStages
    BY <1>2 DEF InStep, SoundStages
<1>4. PublishedLast
    BY DEF Inv, Counted, LastIs, Times, PublishedLast
<1> QED
    BY <1>3, <1>4 DEF Inv, IInv

LEMMA InitInv == Init => Inv
<1> SUFFICES ASSUME Init PROVE Inv
    OBVIOUS
<1>1. LogTypeOK
    BY DEF Init, LogInit, LogTypeOK
<1>2. market \in Markets /\ OnePer(market) /\ Uncrossed(market)
    BY DEF Init, Markets, Quotes, OnePer
<1>3. TypeOK
  <2>1. changes \in 0..MaxChanges /\ connections \in 0..MaxConnections
      BY FeedAssumption DEF Init
  <2>2. published \in [Tokens -> [times : Nat, last : Book \cup {None}]]
      BY DEF Init
  <2>3. counts \in [{"seeds", "websocket", "changes", "all"} -> Nat]
      BY DEF Init
  <2>4. DOMAIN << >> = {} /\ << >> \in [{} -> Listing] /\ << >> \in [{} -> Book]
    <3>1. DOMAIN << >> = {}
        OBVIOUS
    <3>2. << >> = [i \in {} |-> {}]
        BY <3>1
    <3> QED
        BY <3>1, <3>2
  <2>5. /\ books = << >> /\ seed = << >> /\ wire = << >> /\ link \in BOOLEAN
        /\ phase \in {"none", "seeded", "open"} /\ astray \subseteq Tokens
      BY DEF Init
  <2>6. /\ DOMAIN seed \subseteq Tokens /\ seed \in [DOMAIN seed -> Listing]
        /\ DOMAIN books \subseteq Tokens /\ books \in [DOMAIN books -> Book]
        /\ wire \in Seq(Message)
      BY <2>4, <2>5
  <2> QED
      BY <1>1, <1>2, <2>1, <2>2, <2>3, <2>5, <2>6 DEF TypeOK, Markets
<1>4. ClosedIsEmpty
    BY DEF Init, ClosedIsEmpty
<1>5. SoundBooks
    BY <1>2, SoundIs DEF Init, SoundBooks
<1>6. Reach /\ Covered
    BY DEF Init, Reach, Covered
<1>7. Counted
  <2>1. published \in Publications /\ \A t \in Tokens : published[t].times = 0
      BY DEF Init, Publications
  <2>2. PICK f : AddsUp(f, Tokens, [t \in Tokens |-> published[t].times]) /\ Times(published) = f[Tokens]
      BY <2>1, TimesAddsUp
  <2> DEFINE w == [t \in Tokens |-> published[t].times]
  <2>3. w \in [Tokens -> Nat] /\ \A t \in Tokens : w[t] = 0
      BY <2>1
  <2>4. AddsUp(f, Tokens, w)
      BY <2>2
  <2> HIDE DEF w
  <2>5. Times(published) = 0
      BY <2>2, <2>3, <2>4, FeedAssumption, SumOfZeros
  <2> QED
      BY <2>5 DEF Init, Counted, LastIs
<1> QED
    BY <1>1, <1>3, <1>4, <1>5, <1>6, <1>7 DEF Inv

\* A step of the watch is a step of its event log, or none.
LEMMA FeedStepIsLogStep == [Next]_feed => [LogNext]_eventLog
<1> SUFFICES ASSUME [Next]_feed PROVE [LogNext]_eventLog
    OBVIOUS
<1>1. UNCHANGED eventLog \/ Push \/ \E p \in Pollers, limit \in Limits : Poll(p, limit)
    BY DEF Next, Change, Emit, Fetch, Register, Subscribe, Disconnect, Skip, Receive, ReceiveBook,
           ReceiveChange, ReceiveEvent, PollStep, feed
<1> QED
    BY <1>1 DEF LogNext

LEMMA LogStep ==
    ASSUME LogTypeOK, [Next]_feed
    PROVE  LogTypeOK'
<1>1. CASE UNCHANGED eventLog
    BY <1>1 DEF LogTypeOK, eventLog, log, pollers
<1>2. CASE Push
  <2>1. ring' \in Seq(Nat)
    <3>1. ring \in Seq(Nat) /\ nextSequence \in Nat
        BY DEF LogTypeOK
    <3>2. CASE Len(ring) = Retained
      <4>1. ring # << >>
          BY <3>1, <3>2, LogAssumption
      <4>2. Tail(ring) \in Seq(Nat)
          BY <3>1, <4>1
      <4> QED
          BY <1>2, <3>1, <3>2, <4>2 DEF Push
    <3>3. CASE Len(ring) # Retained
        BY <1>2, <3>1, <3>3 DEF Push
    <3> QED
        BY <3>2, <3>3
  <2> QED
      BY <1>2, <2>1 DEF Push, LogTypeOK, pollers
<1>3. ASSUME NEW p \in Pollers, NEW limit \in Limits, Poll(p, limit) PROVE LogTypeOK'
  <2> DEFINE page == Page(cursor[p], limit)
             gap  == IF TruncatedBefore(cursor[p]) THEN (cursor[p] + 1)..(Head(ring) - 1) ELSE {}
  <2>1. page \subseteq Nat
    <3>1. \A i \in DOMAIN ring : ring[i] \in Nat
        BY DEF LogTypeOK
    <3>2. \A n \in page : \E i \in DOMAIN ring : n = ring[i]
        BY DEF Page, Beyond
    <3> QED
        BY <3>1, <3>2
  <2>2. gap \subseteq Nat
    <3>1. cursor[p] \in Nat
        BY DEF LogTypeOK
    <3>2. TruncatedBefore(cursor[p]) => Head(ring) \in Nat
        BY DEF TruncatedBefore, LogTypeOK
    <3> QED
        BY <3>1, <3>2
  <2>3. /\ seen' = [seen EXCEPT ![p] = @ \cup page]
        /\ missed' = [missed EXCEPT ![p] = @ \cup gap]
        /\ \E last \in page : cursor' = [cursor EXCEPT ![p] = last]
        /\ UNCHANGED <<ring, nextSequence, droppedEvents>>
      BY <1>3 DEF Poll, log
  <2> HIDE DEF page, gap
  <2> QED
      BY <2>1, <2>2, <2>3 DEF LogTypeOK
<1> QED
    BY <1>1, <1>2, <1>3, FeedStepIsLogStep DEF LogNext

LEMMA MovesAreDeltas == ASSUME NEW ds \in Moves PROVE ds \in Seq(Delta)
<1>1. \A d \in Delta : <<d>> \in Seq(Delta)
    OBVIOUS
<1>2. \A d, e \in Delta : <<d, e>> \in Seq(Delta)
    OBVIOUS
<1>3. \/ \E d \in Delta : ds = <<d>>
      \/ \E d, e \in Delta : ds = <<d, e>>
  <2> HIDE DEF Delta
  <2> QED
      BY DEF Moves
<1> QED
    BY <1>1, <1>2, <1>3

\* The snapshot of a token is on its way, and only snapshots go before it.
Ahead(s, t) ==
    \E j \in DOMAIN s :
        /\ IsBookOf(s[j], t)
        /\ \A i \in 1..(j - 1) : s[i].kind = "book"

LEMMA CoveredIs ==
    /\ Covered <=> (link => \A t \in Tokens \ astray : t \in DOMAIN books \/ Ahead(wire, t))
    /\ Covered' <=> (link' => \A t \in Tokens \ astray' : t \in DOMAIN books' \/ Ahead(wire', t))
    BY DEF Covered, Ahead

LEMMA AheadSent ==
    ASSUME NEW s \in Seq(Message), NEW message \in Message, NEW t, Ahead(s, t)
    PROVE  Ahead(Append(s, message), t)
<1> DEFINE r == Append(s, message)
<1>1. /\ Len(s) \in Nat /\ DOMAIN s = 1..Len(s) /\ DOMAIN r = 1..(Len(s) + 1)
      /\ \A i \in 1..Len(s) : r[i] = s[i]
    OBVIOUS
<1> HIDE DEF r
<1>2. PICK j \in DOMAIN s : IsBookOf(s[j], t) /\ \A i \in 1..(j - 1) : s[i].kind = "book"
    BY DEF Ahead
<1>3. j \in DOMAIN r /\ r[j] = s[j] /\ \A i \in 1..(j - 1) : r[i] = s[i]
    BY <1>1
<1> QED
    BY <1>2, <1>3 DEF Ahead, r

LEMMA AheadTaken ==
    ASSUME NEW s \in Seq(Message), s # << >>, NEW t, Ahead(s, t)
    PROVE  /\ Head(s).kind = "book"
           /\ IsBookOf(Head(s), t) \/ Ahead(Tail(s), t)
<1> DEFINE n == Len(s)
           r == Tail(s)
<1>1. /\ n \in Nat \ {0} /\ DOMAIN s = 1..n /\ Head(s) = s[1] /\ DOMAIN r = 1..(n - 1)
      /\ \A i \in 1..(n - 1) : r[i] = s[i + 1]
    OBVIOUS
<1> HIDE DEF n, r
<1>2. PICK j \in DOMAIN s : IsBookOf(s[j], t) /\ \A i \in 1..(j - 1) : s[i].kind = "book"
    BY DEF Ahead
<1>3. CASE j = 1
    BY <1>1, <1>2, <1>3 DEF IsBookOf
<1>4. CASE j # 1
  <2>1. /\ j - 1 \in 1..(n - 1) /\ (j - 1) + 1 = j /\ 1 \in 1..(j - 1)
        /\ \A i \in 1..((j - 1) - 1) : i \in 1..(n - 1) /\ i + 1 \in 1..(j - 1)
      BY <1>1, <1>4
  <2>2. r[j - 1] = s[j] /\ \A i \in 1..((j - 1) - 1) : r[i] = s[i + 1]
      BY <1>1, <2>1
  <2>3. Ahead(r, t)
      BY <1>1, <1>2, <2>1, <2>2 DEF Ahead
  <2> QED
      BY <1>1, <1>2, <2>1, <2>3 DEF r
<1> QED
    BY <1>3, <1>4

LEMMA ChangeInv ==
    ASSUME Inv, LogTypeOK', NEW ds \in Moves, Change(ds)
    PROVE  Inv'
<1> DEFINE message == [kind |-> "price_change", deltas |-> ds]
           next == FoldLeft(Quoted, market, ds)
<1>0. TypeOK /\ ClosedIsEmpty /\ SoundBooks /\ Reach /\ Covered /\ Counted
    BY DEF Inv
<1>1. ds \in Seq(Delta)
    BY MovesAreDeltas
<1>2. market \in Markets /\ OnePer(market)
    BY <1>0, BooksType, SoundIs
<1>3. /\ market' = next /\ Uncrossed(market')
      /\ changes < MaxChanges /\ changes' = changes + 1
      /\ wire' = IF link THEN Append(wire, message) ELSE wire
      /\ UNCHANGED <<connections, link, phase, seed, books, counts, published, astray>>
    BY DEF Change, Send, watch
<1>4. message \in Message /\ Meant(market, message) = next /\ message.kind # "book"
    BY <1>1 DEF Message, Meant
<1>5. next \in Markets /\ Sound(next)
    BY <1>1, <1>2, <1>3, QuotedFoldType, SoundIs
<1> HIDE DEF message, next
<1>6. wire \in Seq(Message)
    BY <1>0 DEF TypeOK
<1>7. wire' \in Seq(Message)
    BY <1>3, <1>4, <1>6
<1>8. TypeOK'
  <2>1. changes' \in 0..MaxChanges
      BY <1>0, <1>3, FeedAssumption DEF TypeOK
  <2> QED
      BY <1>0, <1>3, <1>5, <1>7, <2>1 DEF TypeOK, Markets
<1>9. ClosedIsEmpty'
    BY <1>0, <1>3 DEF ClosedIsEmpty
<1>10. SoundBooks'
  <2>1. \A i \in DOMAIN wire' : wire'[i].kind = "book" => SoundListing(wire'[i].sides)
    <3>1. CASE link
      <4>1. /\ DOMAIN wire = 1..Len(wire) /\ Len(wire) \in Nat
            /\ DOMAIN wire' = 1..(Len(wire) + 1)
            /\ \A i \in 1..Len(wire) : wire'[i] = wire[i]
            /\ wire'[Len(wire) + 1] = message
          BY <1>3, <1>6, <3>1
      <4>2. \A i \in DOMAIN wire' : i \in DOMAIN wire \/ i = Len(wire) + 1
          BY <4>1
      <4> QED
          BY <1>0, <1>4, <4>1, <4>2 DEF SoundBooks
    <3>2. CASE ~link
        BY <1>0, <1>3, <3>2 DEF SoundBooks
    <3> QED
        BY <3>1, <3>2
  <2>2. Live' = Live
      BY <1>3, LiveIs
  <2> QED
      BY <1>0, <1>3, <1>5, <2>1, <2>2 DEF SoundBooks
<1>11. Reach'
  <2> SUFFICES ASSUME link'
               PROVE  \E m \in Markets : Agrees(m, books', astray') /\ Reaches(m, wire', market')
      BY DEF Reach
  <2>1. PICK m \in Markets : Agrees(m, books, astray) /\ Reaches(m, wire, market)
      BY <1>0, <1>3 DEF Reach
  <2>2. Reaches(m, Append(wire, message), Meant(market, message))
      BY <1>2, <1>4, <1>5, <1>6, <2>1, SentReaches
  <2>3. Reaches(m, wire', market') /\ Agrees(m, books', astray')
      BY <1>3, <1>4, <2>1, <2>2
  <2> QED
      BY <2>3
<1>12. Covered'
    BY <1>0, <1>3, <1>4, <1>6, CoveredIs, AheadSent
<1>13. Counted'
    BY <1>0, <1>3 DEF Counted
<1> QED
    BY <1>8, <1>9, <1>10, <1>11, <1>12, <1>13 DEF Inv

LEMMA EmitInv ==
    ASSUME Inv, LogTypeOK', Emit
    PROVE  Inv'
<1> DEFINE message == [kind |-> "event"]
<1>0. TypeOK /\ ClosedIsEmpty /\ SoundBooks /\ Reach /\ Covered /\ Counted
    BY DEF Inv
<1>1. /\ link /\ wire' = Append(wire, message)
      /\ UNCHANGED <<market, changes, connections, link, phase, seed, books, counts, published, astray>>
    BY DEF Emit, Send, exchange, watch
<1>2. message \in Message /\ Meant(market, message) = market /\ message.kind # "book"
    BY DEF Message, Meant
<1> HIDE DEF message
<1>3. wire \in Seq(Message) /\ wire' \in Seq(Message)
    BY <1>0, <1>1, <1>2 DEF TypeOK
<1>4. TypeOK'
    BY <1>0, <1>1, <1>3 DEF TypeOK
<1>5. ClosedIsEmpty' /\ Counted'
    BY <1>0, <1>1 DEF ClosedIsEmpty, Counted
<1>6. SoundBooks'
  <2>1. /\ DOMAIN wire = 1..Len(wire) /\ Len(wire) \in Nat
        /\ DOMAIN wire' = 1..(Len(wire) + 1)
        /\ \A i \in 1..Len(wire) : wire'[i] = wire[i]
        /\ wire'[Len(wire) + 1] = message
      BY <1>1, <1>3
  <2>2. \A i \in DOMAIN wire' : i \in DOMAIN wire \/ i = Len(wire) + 1
      BY <2>1
  <2>3. \A i \in DOMAIN wire' : wire'[i].kind = "book" => SoundListing(wire'[i].sides)
      BY <1>0, <1>2, <2>1, <2>2 DEF SoundBooks
  <2>4. Live' = Live
      BY <1>1, LiveIs
  <2> QED
      BY <1>0, <1>1, <2>3, <2>4 DEF SoundBooks
<1>7. Reach'
  <2>1. PICK m \in Markets : Agrees(m, books, astray) /\ Reaches(m, wire, market)
      BY <1>0, <1>1 DEF Reach
  <2>2. Sound(market)
      BY <1>0, BooksType
  <2>3. Reaches(m, Append(wire, message), Meant(market, message))
      BY <1>2, <1>3, <2>1, <2>2, SentReaches
  <2>4. Reaches(m, wire', market') /\ Agrees(m, books', astray')
      BY <1>1, <1>2, <2>1, <2>3
  <2> QED
      BY <2>4 DEF Reach
<1>8. Covered'
    BY <1>0, <1>1, <1>2, <1>3, CoveredIs, AheadSent
<1> QED
    BY <1>4, <1>5, <1>6, <1>7, <1>8 DEF Inv

LEMMA FetchInv ==
    ASSUME Inv, LogTypeOK', NEW S \in SUBSET Tokens, Fetch(S)
    PROVE  Inv'
<1>0. TypeOK /\ ClosedIsEmpty /\ SoundBooks /\ Reach /\ Covered /\ Counted
    BY DEF Inv
<1>1. PICK sp \in [S -> Spellings] : seed' = [t \in S |-> Written(market[t], sp[t])]
    BY DEF Fetch
<1>2. /\ phase = "none" /\ phase' = "seeded"
      /\ UNCHANGED <<market, changes, connections, link, wire, books, counts, published, astray>>
    BY DEF Fetch, exchange, socket
<1>3. DOMAIN seed' = S /\ \A t \in S : seed'[t] \in Listing /\ SoundListing(seed'[t])
  <2> SUFFICES ASSUME NEW t \in S PROVE seed'[t] \in Listing /\ SoundListing(seed'[t])
      BY <1>1
  <2>1. market[t] \in Quotes /\ SoundQuotes(market[t]) /\ sp[t] \in Spellings
      BY <1>0, <1>1, BooksType DEF Markets, Sound
  <2>2. seed'[t] = Written(market[t], sp[t])
      BY <1>1
  <2> QED
      BY <2>1, <2>2, WrittenFacts
<1>4. TypeOK'
  <2>1. seed' \in [DOMAIN seed' -> Listing]
      BY <1>1, <1>3
  <2> QED
      BY <1>0, <1>2, <1>3, <2>1 DEF TypeOK
<1>5. ClosedIsEmpty'
    BY <1>0, <1>2 DEF ClosedIsEmpty
<1>6. SoundBooks'
  <2>1. Live' = Live
      BY <1>2, LiveIs
  <2> QED
      BY <1>0, <1>2, <1>3, <2>1 DEF SoundBooks
<1>7. Reach' /\ Covered' /\ Counted'
    BY <1>0, <1>2 DEF Reach, Covered, Counted
<1> QED
    BY <1>4, <1>5, <1>6, <1>7 DEF Inv

LEMMA RegisterInv ==
    ASSUME Inv, LogTypeOK', Register
    PROVE  Inv'
<1>0. TypeOK /\ ClosedIsEmpty /\ SoundBooks /\ Reach /\ Covered /\ Counted
    BY DEF Inv
<1> DEFINE n == Cardinality(DOMAIN seed)
<1>1. /\ phase = "seeded" /\ phase' = "open"
      /\ books' = [t \in DOMAIN seed |-> Listed("rest_seed", seed[t])]
      /\ counts' = [counts EXCEPT !.seeds = n, !.all = n]
      /\ seed' = << >>
      /\ UNCHANGED <<market, changes, connections, link, wire, published, astray>>
    BY DEF Register, exchange, socket
<1>2. /\ DOMAIN seed \subseteq Tokens
      /\ \A t \in DOMAIN seed : seed[t] \in Listing /\ SoundListing(seed[t])
    BY <1>0 DEF TypeOK, SoundBooks
<1>3. n \in Nat
  <2>1. IsFiniteSet(DOMAIN seed)
      BY <1>2, FeedAssumption, FS_Subset
  <2> QED
      BY <2>1, FS_CardinalityType
<1>4. DOMAIN books' = DOMAIN seed
    BY <1>1
<1>5. \A t \in DOMAIN seed :
          /\ books'[t] \in Book /\ Ordered(books'[t]) /\ books'[t].source = "rest_seed"
          /\ Levels(books'[t]) = seed[t] /\ Clear(books'[t])
  <2> SUFFICES ASSUME NEW t \in DOMAIN seed
               PROVE  /\ books'[t] \in Book /\ Ordered(books'[t]) /\ books'[t].source = "rest_seed"
                      /\ Levels(books'[t]) = seed[t] /\ Clear(books'[t])
      OBVIOUS
  <2>1. books'[t] = Listed("rest_seed", seed[t])
      BY <1>1
  <2> QED
      BY <1>2, <2>1, ListedFacts DEF Sources
<1>6. DOMAIN seed' = {} /\ seed' \in [DOMAIN seed' -> Listing]
  <2>1. DOMAIN << >> = {}
      OBVIOUS
  <2>2. << >> = [i \in {} |-> {}]
      BY <2>1
  <2> QED
      BY <1>1, <2>1, <2>2
<1> HIDE DEF n
<1>7. counts \in [{"seeds", "websocket", "changes", "all"} -> Nat]
    BY <1>0 DEF TypeOK
<1>8. TypeOK'
  <2>1. counts' \in [{"seeds", "websocket", "changes", "all"} -> Nat]
      BY <1>1, <1>3, <1>7
  <2>2. DOMAIN books' \subseteq Tokens /\ books' \in [DOMAIN books' -> Book]
    <3>1. books' = [t \in DOMAIN books' |-> books'[t]]
        BY <1>1
    <3> QED
        BY <1>2, <1>4, <1>5, <3>1
  <2>3. LogTypeOK'
      OBVIOUS
  <2> QED
      BY <1>0, <1>1, <1>6, <2>1, <2>2, <2>3 DEF TypeOK
<1>9. ~link' /\ wire' = << >>
    BY <1>0, <1>1 DEF ClosedIsEmpty
<1>10. ClosedIsEmpty' /\ Reach' /\ Covered'
    BY <1>1, <1>9 DEF ClosedIsEmpty, Reach, Covered
<1>11. SoundBooks'
  <2>1. \A t \in DOMAIN books' : SoundQuotes(Live'[t])
    <3> SUFFICES ASSUME NEW t \in DOMAIN books' PROVE SoundQuotes(Live'[t])
        OBVIOUS
    <3>1. t \in Tokens /\ Levels(books'[t]) = seed[t] /\ SoundQuotes(Read(seed[t]))
        BY <1>2, <1>4, <1>5 DEF SoundListing
    <3>2. LiveOf(books')[t] = Read(Levels(books'[t]))
        BY <3>1 DEF LiveOf
    <3> QED
        BY <3>1, <3>2, LiveIs
  <2>2. \A t \in DOMAIN books' : Ordered(books'[t]) /\ Unique(books'[t].bids) /\ Unique(books'[t].asks)
      BY <1>4, <1>5 DEF Clear
  <2> QED
      BY <1>0, <1>1, <1>6, <2>1, <2>2 DEF SoundBooks
<1>12. Counted'
  <2>1. counts.websocket = 0
      BY <1>0, <1>1 DEF ClosedIsEmpty
  <2>2. counts'.websocket = counts.websocket /\ counts'.seeds = n /\ counts'.all = n
      BY <1>1, <1>7
  <2>3. LastIs(books', published')
      BY <1>4, <1>5 DEF LastIs
  <2> QED
      BY <1>0, <1>1, <1>3, <2>1, <2>2, <2>3 DEF Counted
<1> QED
    BY <1>8, <1>10, <1>11, <1>12 DEF Inv

LEMMA SubscribeInv ==
    ASSUME Inv, LogTypeOK', Subscribe
    PROVE  Inv'
<1> DEFINE m == [t \in Tokens |-> IF t \in astray THEN market[t] ELSE LiveOf(books)[t]]
<1>0. TypeOK /\ ClosedIsEmpty /\ SoundBooks /\ Reach /\ Covered /\ Counted
    BY DEF Inv
<1>1. /\ phase = "open" /\ link' /\ link' = TRUE
      /\ connections < MaxConnections /\ connections' = connections + 1
      /\ UNCHANGED <<market, changes, phase, seed, books, counts, published, astray>>
    BY DEF Subscribe, exchange, watch
<1>2. PICK sp \in [Tokens -> Spellings] : wire' = Snapshots(market, sp)
    BY DEF Subscribe, Snapshots
<1>3. market \in Markets /\ Sound(market) /\ m \in Markets /\ Sound(m)
  <2>1. /\ market \in Markets /\ Sound(market) /\ LiveOf(books) \in Markets
        /\ \A t \in Tokens \ astray : SoundQuotes(LiveOf(books)[t])
      BY <1>0, BooksType
  <2> QED
      BY <2>1 DEF Markets, Sound
<1>4. Agrees(m, books', astray')
    BY <1>1 DEF Agrees
<1> HIDE DEF m
<1>5. /\ wire' \in Seq(Message)
      /\ Reaches(m, wire', market)
      /\ \A i \in DOMAIN wire' : wire'[i].kind = "book" /\ SoundListing(wire'[i].sides)
      /\ \A t \in Tokens : \E i \in DOMAIN wire' : wire'[i].token = t
    BY <1>2, <1>3, SnapshotsReach
<1>6. TypeOK'
  <2>1. connections' \in 0..MaxConnections
      BY <1>0, <1>1, FeedAssumption DEF TypeOK
  <2> QED
      BY <1>0, <1>1, <1>5, <2>1 DEF TypeOK
<1>7. ClosedIsEmpty' /\ Counted'
    BY <1>0, <1>1 DEF ClosedIsEmpty, Counted
<1>8. SoundBooks'
  <2>1. Live' = Live
      BY <1>1, LiveIs
  <2> QED
      BY <1>0, <1>1, <1>5, <2>1 DEF SoundBooks
<1>9. Reach'
    BY <1>1, <1>3, <1>4, <1>5 DEF Reach
<1>10. Covered'
  <2> SUFFICES ASSUME NEW t \in Tokens PROVE Ahead(wire', t)
      BY CoveredIs
  <2>1. PICK j \in DOMAIN wire' : wire'[j].token = t
      BY <1>5
  <2>2. DOMAIN wire' = 1..Len(wire') /\ Len(wire') \in Nat
      BY <1>5
  <2>3. \A i \in 1..(j - 1) : i \in DOMAIN wire'
      BY <2>2
  <2> QED
      BY <1>5, <2>1, <2>3 DEF Ahead, IsBookOf
<1> QED
    BY <1>6, <1>7, <1>8, <1>9, <1>10 DEF Inv

LEMMA DisconnectInv ==
    ASSUME Inv, LogTypeOK', Disconnect
    PROVE  Inv'
<1>0. TypeOK /\ ClosedIsEmpty /\ SoundBooks /\ Reach /\ Covered /\ Counted
    BY DEF Inv
<1>1. /\ link' = FALSE /\ wire' = << >>
      /\ UNCHANGED <<market, changes, connections, phase, seed, books, counts, published, astray>>
    BY DEF Disconnect, exchange, watch
<1>2. TypeOK'
  <2>0. << >> \in Seq(Message)
      OBVIOUS
  <2>1. wire' \in Seq(Message) /\ link' \in BOOLEAN
      BY <1>1, <2>0
  <2> QED
      BY <1>0, <1>1, <2>1 DEF TypeOK
<1>3. ClosedIsEmpty' /\ Counted'
    BY <1>0, <1>1 DEF ClosedIsEmpty, Counted
<1>4. SoundBooks'
  <2>1. Live' = Live /\ DOMAIN wire' = {}
      BY <1>1, LiveIs
  <2> QED
      BY <1>0, <1>1, <2>1 DEF SoundBooks
<1>5. Reach' /\ Covered'
    BY <1>1 DEF Reach, Covered
<1> QED
    BY <1>2, <1>3, <1>4, <1>5 DEF Inv

-----------------------------------------------------------------------------
(* The next message, applied or skipped.                                      *)

\* From the market m, what is left to come after the next message makes the exchange's books.
Takes(m) ==
    /\ Agrees(m, books, astray)
    /\ Meant(m, Head(wire)) \in Markets
    /\ Sound(Meant(m, Head(wire)))
    /\ Reaches(Meant(m, Head(wire)), Tail(wire), market)

LEMMA TakenFacts ==
    ASSUME Inv, wire # << >>
    PROVE  /\ link /\ phase = "open"
           /\ wire \in Seq(Message) /\ Head(wire) \in Message /\ Tail(wire) \in Seq(Message)
           /\ Head(wire).kind = "book" => SoundListing(Head(wire).sides)
           /\ \A i \in DOMAIN Tail(wire) :
                 Tail(wire)[i].kind = "book" => SoundListing(Tail(wire)[i].sides)
           /\ \E m \in Markets : Takes(m)
<1>0. TypeOK /\ ClosedIsEmpty /\ SoundBooks /\ Reach
    BY DEF Inv
<1>1. link /\ phase = "open"
    BY <1>0 DEF ClosedIsEmpty
<1>2. wire \in Seq(Message)
    BY <1>0 DEF TypeOK
<1>3. Head(wire) \in Message /\ Tail(wire) \in Seq(Message)
    BY <1>2
<1>4. /\ Head(wire).kind = "book" => SoundListing(Head(wire).sides)
      /\ \A i \in DOMAIN Tail(wire) :
            Tail(wire)[i].kind = "book" => SoundListing(Tail(wire)[i].sides)
  <2>1. /\ 1 \in DOMAIN wire /\ Head(wire) = wire[1]
        /\ \A i \in DOMAIN Tail(wire) : i + 1 \in DOMAIN wire /\ Tail(wire)[i] = wire[i + 1]
      BY <1>2
  <2> QED
      BY <1>0, <2>1 DEF SoundBooks
<1>5. PICK m \in Markets : Agrees(m, books, astray) /\ Reaches(m, wire, market)
    BY <1>0, <1>1 DEF Reach
<1>6. /\ Meant(m, Head(wire)) \in Markets /\ Sound(Meant(m, Head(wire)))
      /\ Reaches(Meant(m, Head(wire)), Tail(wire), market)
    BY <1>2, <1>5, TakenReaches
<1>7. Takes(m)
    BY <1>5, <1>6 DEF Takes
<1> QED
    BY <1>1, <1>2, <1>3, <1>4, <1>7

\* What follows from what a message makes of the live books.
LEMMA TakenInv ==
    ASSUME Inv, LogTypeOK', wire # << >>, wire' = Tail(wire),
           UNCHANGED <<market, changes, connections, link, phase, seed>>,
           NEW m \in Markets, Takes(m),
           astray' \subseteq Tokens,
           Agrees(Meant(m, Head(wire)), books', astray'),
           DOMAIN books' \subseteq Tokens,
           books' \in [DOMAIN books' -> OrderedBook],
           \A t \in DOMAIN books' \ astray' : Clear(books'[t]),
           published' \in Publications,
           counts' \in [{"seeds", "websocket", "changes", "all"} -> Nat],
           Covered', Counted'
    PROVE  Inv'
<1>0. TypeOK /\ ClosedIsEmpty /\ SoundBooks
    BY DEF Inv
<1> DEFINE next == Meant(m, Head(wire))
<1>1. /\ link /\ phase = "open" /\ wire' \in Seq(Message)
      /\ \A i \in DOMAIN wire' : wire'[i].kind = "book" => SoundListing(wire'[i].sides)
    BY TakenFacts
<1>2. /\ next \in Markets /\ Sound(next) /\ Reaches(next, wire', market)
      /\ Agrees(next, books', astray')
    BY DEF Takes
<1> HIDE DEF next
<1>3. TypeOK'
  <2>1. books' \in [DOMAIN books' -> Book]
      BY DEF OrderedBook
  <2> QED
      BY <1>0, <1>1, <2>1 DEF TypeOK, Publications
<1>4. ClosedIsEmpty'
    BY <1>1 DEF ClosedIsEmpty
<1>5. Reach'
    BY <1>2 DEF Reach
<1>6. SoundBooks'
  <2>1. \A t \in DOMAIN books' : Ordered(books'[t])
      BY DEF OrderedBook
  <2>2. \A t \in DOMAIN books' \ astray' : SoundQuotes(Live'[t])
    <3> SUFFICES ASSUME NEW t \in DOMAIN books' \ astray' PROVE SoundQuotes(Live'[t])
        OBVIOUS
    <3>1. t \in Tokens /\ SoundQuotes(next[t])
        BY <1>2 DEF Sound
    <3>2. next[t] = LiveOf(books')[t]
        BY <1>2, <3>1 DEF Agrees
    <3> QED
        BY <3>1, <3>2, LiveIs
  <2>3. \A t \in DOMAIN books' \ astray' : Unique(books'[t].bids) /\ Unique(books'[t].asks)
      BY DEF Clear
  <2> QED
      BY <1>0, <1>1, <2>1, <2>2, <2>3 DEF SoundBooks
<1> QED
    BY <1>3, <1>4, <1>5, <1>6 DEF Inv

LEMMA SkipInv ==
    ASSUME Inv, LogTypeOK', Skip
    PROVE  Inv'
<1>0. TypeOK /\ SoundBooks /\ Covered /\ Counted
    BY DEF Inv
<1>1. /\ wire # << >> /\ wire' = Tail(wire) /\ astray' = astray \cup Touched(Head(wire))
      /\ UNCHANGED <<market, changes, connections, link, phase, seed, books, counts, published>>
    BY DEF Skip, exchange, watch
<1>2. /\ link /\ wire \in Seq(Message) /\ Head(wire) \in Message
      /\ \E m \in Markets : Takes(m)
    BY <1>1, TakenFacts
<1>3. PICK m \in Markets : Takes(m)
    BY <1>2
<1>4. Touched(Head(wire)) \subseteq Tokens
  <2>1. CASE Head(wire) \in [kind : {"book"}, token : Tokens, sides : Listing]
      BY <2>1 DEF Touched
  <2>2. CASE Head(wire) \in [kind : {"price_change"}, deltas : Seq(Delta)]
    <3>1. \A i \in DOMAIN Head(wire).deltas : Head(wire).deltas[i] \in Delta
        BY <2>2
    <3>2. \A i \in DOMAIN Head(wire).deltas : Head(wire).deltas[i].token \in Tokens
        BY <3>1, DeltaToken
    <3> QED
        BY <2>2, <3>2 DEF Touched
  <2>3. CASE Head(wire) \in [kind : {"event"}]
      BY <2>3 DEF Touched
  <2> QED
      BY <1>2, <2>1, <2>2, <2>3 DEF Message
<1>5. Agrees(Meant(m, Head(wire)), books', astray')
  <2> SUFFICES ASSUME NEW t \in Tokens \ astray'
               PROVE  Meant(m, Head(wire))[t] = LiveOf(books')[t]
      BY DEF Agrees
  <2>1. t \in Tokens \ Touched(Head(wire)) /\ t \in Tokens \ astray
      BY <1>1
  <2>2. Meant(m, Head(wire))[t] = m[t]
      BY <1>2, <2>1, MeantUntouched
  <2>3. m[t] = LiveOf(books)[t]
      BY <1>3, <2>1 DEF Takes, Agrees
  <2> QED
      BY <1>1, <2>2, <2>3
<1>6. /\ books \in [DOMAIN books -> OrderedBook] /\ DOMAIN books \subseteq Tokens
      /\ published \in Publications
      /\ \A t \in DOMAIN books \ astray : Clear(books[t])
    BY <1>0, BooksType
<1>7. /\ astray' \subseteq Tokens
      /\ counts \in [{"seeds", "websocket", "changes", "all"} -> Nat]
    BY <1>0, <1>1, <1>4 DEF TypeOK
<1>8. Covered'
  <2> SUFFICES ASSUME NEW t \in Tokens \ astray' PROVE t \in DOMAIN books' \/ Ahead(wire', t)
      BY CoveredIs
  <2>1. t \in Tokens \ astray /\ ~IsBookOf(Head(wire), t)
      BY <1>1 DEF Touched, IsBookOf
  <2>2. t \in DOMAIN books \/ Ahead(wire, t)
      BY <1>0, <1>2, <2>1, CoveredIs
  <2> QED
      BY <1>1, <1>2, <2>1, <2>2, AheadTaken
<1>9. Counted'
    BY <1>0, <1>1 DEF Counted
<1>10. \A t \in DOMAIN books' \ astray' : Clear(books'[t])
    BY <1>1, <1>6
<1>11. /\ books' \in [DOMAIN books' -> OrderedBook] /\ DOMAIN books' \subseteq Tokens
       /\ published' \in Publications
       /\ counts' \in [{"seeds", "websocket", "changes", "all"} -> Nat]
    BY <1>1, <1>6, <1>7
<1> QED
    BY <1>1, <1>3, <1>5, <1>7, <1>8, <1>9, <1>10, <1>11, TakenInv

LEMMA ReceiveEventInv ==
    ASSUME Inv, LogTypeOK', ReceiveEvent
    PROVE  Inv'
<1>0. TypeOK /\ SoundBooks /\ Covered /\ Counted
    BY DEF Inv
<1>1. /\ wire # << >> /\ wire' = Tail(wire) /\ Head(wire).kind = "event"
      /\ UNCHANGED <<market, changes, connections, link, phase, seed, books, counts, published, astray>>
    BY DEF ReceiveEvent, Consume, exchange
<1>2. /\ link /\ wire \in Seq(Message) /\ \E m \in Markets : Takes(m)
    BY <1>1, TakenFacts
<1>3. PICK m \in Markets : Takes(m)
    BY <1>2
<1>4. Agrees(Meant(m, Head(wire)), books', astray')
    BY <1>1, <1>3 DEF Takes, Meant
<1>5. /\ books \in [DOMAIN books -> OrderedBook] /\ DOMAIN books \subseteq Tokens
      /\ published \in Publications
      /\ \A t \in DOMAIN books \ astray : Clear(books[t])
    BY <1>0, BooksType
<1>6. astray \subseteq Tokens /\ counts \in [{"seeds", "websocket", "changes", "all"} -> Nat]
    BY <1>0 DEF TypeOK
<1>7. Covered'
  <2> SUFFICES ASSUME NEW t \in Tokens \ astray PROVE t \in DOMAIN books
      BY <1>1, CoveredIs
  <2>1. t \in DOMAIN books \/ Ahead(wire, t)
      BY <1>0, <1>2, CoveredIs
  <2> QED
      BY <1>1, <1>2, <2>1, AheadTaken
<1>8. Counted'
    BY <1>0, <1>1 DEF Counted
<1>9. \A t \in DOMAIN books' \ astray' : Clear(books'[t])
    BY <1>1, <1>5
<1>10. /\ books' \in [DOMAIN books' -> OrderedBook] /\ DOMAIN books' \subseteq Tokens
       /\ published' \in Publications /\ astray' \subseteq Tokens
       /\ counts' \in [{"seeds", "websocket", "changes", "all"} -> Nat]
    BY <1>1, <1>5, <1>6
<1> QED
    BY <1>1, <1>3, <1>4, <1>7, <1>8, <1>9, <1>10, TakenInv

Counts == [{"seeds", "websocket", "changes", "all"} -> Nat]

LEMMA CountsChange ==
    ASSUME NEW c \in Counts, NEW n \in Nat
    PROVE  LET d == [c EXCEPT !.websocket = @ + n, !.changes = @ + n, !.all = @ + n]
           IN  d \in Counts /\ d.websocket = c.websocket + n /\ d.all = c.all + n /\ d.seeds = c.seeds
<1> DEFINE w == c.websocket + n
           h == c.changes + n
           a == c.all + n
           d == [c EXCEPT !.websocket = w, !.changes = h, !.all = a]
<1>1. c.websocket \in Nat /\ c.changes \in Nat /\ c.all \in Nat /\ c.seeds \in Nat
    BY DEF Counts
<1>2. w \in Nat /\ h \in Nat /\ a \in Nat
    BY <1>1
<1> HIDE DEF w, h, a
<1>3. d \in Counts
    BY <1>2 DEF Counts
<1>4. d.websocket = w /\ d.all = a /\ d.seeds = c.seeds
    BY DEF Counts
<1> QED
    BY <1>3, <1>4 DEF w, h, a

LEMMA CountsBook ==
    ASSUME NEW c \in Counts
    PROVE  LET d == [c EXCEPT !.websocket = @ + 1, !.all = @ + 1]
           IN  d \in Counts /\ d.websocket = c.websocket + 1 /\ d.all = c.all + 1 /\ d.seeds = c.seeds
<1> DEFINE w == c.websocket + 1
           a == c.all + 1
           d == [c EXCEPT !.websocket = w, !.all = a]
<1>1. c.websocket \in Nat /\ c.all \in Nat
    BY DEF Counts
<1>2. w \in Nat /\ a \in Nat
    BY <1>1
<1> HIDE DEF w, a
<1>3. d \in Counts
    BY <1>2 DEF Counts
<1>4. d.websocket = w /\ d.all = a /\ d.seeds = c.seeds
    BY DEF Counts
<1> QED
    BY <1>3, <1>4 DEF w, a

LEMMA ReceiveBookInv ==
    ASSUME Inv, LogTypeOK', ReceiveBook
    PROVE  Inv'
<1> DEFINE t == Head(wire).token
           sides == Head(wire).sides
           book == Listed("websocket_snapshot", sides)
<1>0. TypeOK /\ SoundBooks /\ Covered /\ Counted
    BY DEF Inv
<1>1. /\ wire # << >> /\ wire' = Tail(wire) /\ Head(wire).kind = "book"
      /\ UNCHANGED <<market, changes, connections, link, phase, seed>>
      /\ books' = [u \in DOMAIN books \cup {t} |-> IF u = t THEN book ELSE books[u]]
      /\ published' = Published(published, t, book)
      /\ counts' = [counts EXCEPT !.websocket = @ + 1, !.all = @ + 1]
      /\ astray' = astray \ {t}
    BY DEF ReceiveBook, Consume, exchange
<1>2. /\ link /\ wire \in Seq(Message) /\ Head(wire) \in Message
      /\ SoundListing(sides) /\ \E m \in Markets : Takes(m)
    BY <1>1, TakenFacts
<1>3. t \in Tokens /\ sides \in Listing
    BY <1>1, <1>2 DEF Message
<1>4. PICK m \in Markets : Takes(m)
    BY <1>2
<1>5. Meant(m, Head(wire)) = [m EXCEPT ![t] = Read(sides)]
    BY <1>1 DEF Meant
<1>6. /\ \A u \in DOMAIN books : books[u] \in OrderedBook
      /\ DOMAIN books \subseteq Tokens /\ published \in Publications
      /\ \A u \in DOMAIN books \ astray : Clear(books[u])
    BY <1>0, BooksType
<1>7. book \in Book /\ book \in OrderedBook /\ Levels(book) = sides /\ Clear(book)
    BY <1>2, <1>3, ListedFacts DEF Sources, OrderedBook
<1>8. \A u \in Tokens : IsBookOf(Head(wire), u) <=> u = t
    BY <1>1 DEF IsBookOf
<1> HIDE DEF t, sides, book
<1>9. DOMAIN books' \subseteq Tokens /\ books' \in [DOMAIN books' -> OrderedBook]
    BY <1>1, <1>3, <1>6, <1>7
<1>10. \A u \in DOMAIN books' \ astray' : Clear(books'[u])
    BY <1>1, <1>6, <1>7
<1>11. Agrees(Meant(m, Head(wire)), books', astray')
  <2> SUFFICES ASSUME NEW u \in Tokens \ astray'
               PROVE  Meant(m, Head(wire))[u] = LiveOf(books')[u]
      BY DEF Agrees
  <2>1. CASE u = t
    <3>1. Meant(m, Head(wire))[u] = Read(sides)
        BY <1>3, <1>5, <2>1 DEF Markets
    <3>2. u \in DOMAIN books' /\ books'[u] = book
        BY <1>1, <2>1
    <3> QED
        BY <1>7, <3>1, <3>2 DEF LiveOf
  <2>2. CASE u # t
    <3>1. Meant(m, Head(wire))[u] = m[u]
        BY <1>3, <1>5, <2>2 DEF Markets
    <3>2. m[u] = LiveOf(books)[u]
        BY <1>1, <1>4, <2>2 DEF Takes, Agrees
    <3>3. (u \in DOMAIN books' <=> u \in DOMAIN books) /\ (u \in DOMAIN books => books'[u] = books[u])
        BY <1>1, <2>2
    <3>4. LiveOf(books')[u] = LiveOf(books)[u]
        BY <3>3 DEF LiveOf
    <3> QED
        BY <3>1, <3>2, <3>4
  <2> QED
      BY <2>1, <2>2
<1>12. /\ published' \in Publications
       /\ published'[t] = [times |-> published[t].times + 1, last |-> book]
       /\ \A u \in Tokens : u # t => published'[u] = published[u]
    BY <1>1, <1>3, <1>6, <1>7, PublishedType
<1>13. counts \in [{"seeds", "websocket", "changes", "all"} -> Nat] /\ astray' \subseteq Tokens
    BY <1>0, <1>1 DEF TypeOK
<1>14. /\ counts' \in [{"seeds", "websocket", "changes", "all"} -> Nat]
       /\ counts'.websocket = counts.websocket + 1
       /\ counts'.all = counts.all + 1 /\ counts'.seeds = counts.seeds
    BY <1>1, <1>13, CountsBook DEF Counts
<1>15. Covered'
  <2> SUFFICES ASSUME NEW u \in Tokens \ astray', u \notin DOMAIN books' PROVE Ahead(wire', u)
      BY CoveredIs
  <2>1. u # t /\ u \notin DOMAIN books /\ u \in Tokens \ astray
      BY <1>1
  <2>2. Ahead(wire, u) /\ ~IsBookOf(Head(wire), u)
      BY <1>0, <1>2, <1>8, <2>1, CoveredIs
  <2> QED
      BY <1>1, <1>2, <2>2, AheadTaken
<1>16. Counted'
  <2>1. Times(published)' = Times(published) + 1 /\ Times(published) \in Nat
      BY <1>1, <1>3, <1>6, <1>7, TimesBumped
  <2>2. LastIs(books', published')
    <3> SUFFICES ASSUME NEW u \in DOMAIN books', books'[u].source # "rest_seed"
                 PROVE  published'[u].last = books'[u]
        BY DEF LastIs
    <3>1. CASE u = t
        BY <1>1, <1>12, <3>1
    <3>2. CASE u # t
      <4>1. u \in DOMAIN books /\ u \in Tokens /\ books'[u] = books[u]
          BY <1>1, <1>6, <3>2
      <4> QED
          BY <1>0, <1>12, <3>2, <4>1 DEF Counted, LastIs
    <3> QED
        BY <3>1, <3>2
  <2> QED
      BY <1>0, <1>13, <1>14, <2>1, <2>2 DEF Counted
<1> QED
    BY <1>1, <1>4, <1>9, <1>10, <1>11, <1>12, <1>13, <1>14, <1>15, <1>16, TakenInv

LEMMA ReceiveChangeInv ==
    ASSUME Inv, LogTypeOK', ReceiveChange
    PROVE  Inv'
<1> DEFINE ds == Head(wire).deltas
           base == [books |-> books, published |-> published, applied |-> 0, astray |-> astray]
           state == FoldLeft(DeltaStep, base, ds)
           D == DOMAIN books
<1>0. TypeOK /\ SoundBooks /\ Covered /\ Counted
    BY DEF Inv
<1>1. /\ wire # << >> /\ wire' = Tail(wire) /\ Head(wire).kind = "price_change"
      /\ UNCHANGED <<market, changes, connections, link, phase, seed>>
      /\ books' = state.books
      /\ published' = state.published
      /\ astray' = state.astray
      /\ counts' = [counts EXCEPT !.websocket = @ + state.applied,
                                  !.changes = @ + state.applied,
                                  !.all = @ + state.applied]
    BY DEF ReceiveChange, Consume, exchange
<1>2. /\ link /\ wire \in Seq(Message) /\ Head(wire) \in Message
      /\ \E m \in Markets : Takes(m)
    BY <1>1, TakenFacts
<1>3. PICK m \in Markets : Takes(m)
    BY <1>2
<1>4. ds \in Seq(Delta) /\ Meant(m, Head(wire)) = FoldLeft(Quoted, m, ds)
    BY <1>1, <1>2 DEF Message, Meant
<1>5. /\ books \in [D -> OrderedBook] /\ D \in SUBSET Tokens /\ published \in Publications
      /\ astray \in SUBSET Tokens /\ LastIs(books, published)
      /\ \A t \in D \ astray : Clear(books[t])
    BY <1>0, BooksType DEF TypeOK, Counted
<1>6. Tokens \ astray \subseteq D
  <2> SUFFICES ASSUME NEW t \in Tokens \ astray, t \notin D PROVE FALSE
      OBVIOUS
  <2>1. Ahead(wire, t)
      BY <1>0, <1>2, CoveredIs
  <2> QED
      BY <1>1, <1>2, <2>1, AheadTaken
<1>7. Faithful(base, m, D)
  <2>1. base.books = books /\ base.astray = astray
      OBVIOUS
  <2> HIDE DEF base
  <2>2. \A t \in D \ astray : Read(Levels(books[t])) = m[t]
    <3>1. \A t \in D \ astray : m[t] = LiveOf(books)[t]
        BY <1>3, <1>5 DEF Takes, Agrees
    <3>2. \A t \in D : LiveOf(books)[t] = Read(Levels(books[t]))
        BY <1>5 DEF LiveOf
    <3> QED
        BY <3>1, <3>2
  <2> QED
      BY <1>5, <2>1, <2>2 DEF Faithful
<1> HIDE DEF ds, state, D
<1>8. /\ state \in States(D)
      /\ Faithful(state, FoldLeft(Quoted, m, ds), D)
      /\ LastIs(state.books, state.published)
      /\ Times(state.published) = Times(published) + state.applied
      /\ astray \subseteq state.astray
    BY <1>4, <1>5, <1>7, ChangeApplied DEF state
<1>9. /\ state.books \in [D -> OrderedBook] /\ state.published \in Publications
      /\ state.applied \in Nat /\ state.astray \in SUBSET Tokens
    BY <1>8 DEF States
<1>10. /\ DOMAIN books' = D /\ DOMAIN books' \subseteq Tokens
       /\ books' \in [DOMAIN books' -> OrderedBook]
       /\ published' \in Publications /\ astray' \subseteq Tokens
    BY <1>1, <1>5, <1>9
<1>11. \A t \in D \ astray' : Clear(books'[t]) /\ Read(Levels(books'[t])) = Meant(m, Head(wire))[t]
    BY <1>1, <1>4, <1>8 DEF Faithful
<1>12. Agrees(Meant(m, Head(wire)), books', astray')
  <2> SUFFICES ASSUME NEW t \in Tokens \ astray'
               PROVE  Meant(m, Head(wire))[t] = LiveOf(books')[t]
      BY DEF Agrees
  <2>1. t \in D \ astray'
      BY <1>1, <1>6, <1>8
  <2>2. LiveOf(books')[t] = Read(Levels(books'[t]))
      BY <1>10, <2>1 DEF LiveOf
  <2> QED
      BY <1>11, <2>1, <2>2
<1>13. counts \in [{"seeds", "websocket", "changes", "all"} -> Nat]
    BY <1>0 DEF TypeOK
<1>14. /\ counts' \in [{"seeds", "websocket", "changes", "all"} -> Nat]
       /\ counts'.websocket = counts.websocket + state.applied
       /\ counts'.all = counts.all + state.applied /\ counts'.seeds = counts.seeds
  <2> DEFINE n == state.applied
  <2>1. counts \in Counts /\ n \in Nat
        /\ counts' = [counts EXCEPT !.websocket = @ + n, !.changes = @ + n, !.all = @ + n]
      BY <1>1, <1>9, <1>13 DEF Counts
  <2> HIDE DEF n
  <2>2. /\ counts' \in Counts /\ counts'.websocket = counts.websocket + n
        /\ counts'.all = counts.all + n /\ counts'.seeds = counts.seeds
      BY <2>1, CountsChange
  <2> QED
      BY <2>2 DEF Counts, n
<1>15. Covered'
  <2> SUFFICES ASSUME NEW t \in Tokens \ astray' PROVE t \in DOMAIN books'
      BY CoveredIs
  <2> QED
      BY <1>1, <1>6, <1>8, <1>10
<1>16. Counted'
    BY <1>0, <1>1, <1>8, <1>9, <1>13, <1>14 DEF Counted
<1>17. \A t \in DOMAIN books' \ astray' : Clear(books'[t])
    BY <1>10, <1>11
<1> QED
    BY <1>1, <1>3, <1>10, <1>12, <1>14, <1>15, <1>16, <1>17, TakenInv

LEMMA StepInv == Inv /\ [Next]_feed => Inv'
<1> SUFFICES ASSUME Inv, [Next]_feed PROVE Inv'
    OBVIOUS
<1>1. LogTypeOK'
    BY LogStep DEF Inv, TypeOK
<1>2. ASSUME NEW ds \in Moves, Change(ds) PROVE Inv'
    BY <1>1, <1>2, ChangeInv
<1>3. CASE Emit
    BY <1>1, <1>3, EmitInv
<1>4. ASSUME NEW S \in SUBSET Tokens, Fetch(S) PROVE Inv'
    BY <1>1, <1>4, FetchInv
<1>5. CASE Register
    BY <1>1, <1>5, RegisterInv
<1>6. CASE Subscribe
    BY <1>1, <1>6, SubscribeInv
<1>7. CASE Disconnect
    BY <1>1, <1>7, DisconnectInv
<1>8. CASE ReceiveBook
    BY <1>1, <1>8, ReceiveBookInv
<1>9. CASE ReceiveChange
    BY <1>1, <1>9, ReceiveChangeInv
<1>10. CASE ReceiveEvent
    BY <1>1, <1>10, ReceiveEventInv
<1>11. CASE Skip
    BY <1>1, <1>11, SkipInv
<1>12. CASE UNCHANGED <<exchange, socket, watch, astray>>
  <2>1. UNCHANGED <<market, changes, connections, link, wire, phase, seed, books, counts, published,
                    astray>>
      BY <1>12 DEF exchange, socket, watch
  <2>2. TypeOK'
      BY <1>1, <2>1 DEF Inv, TypeOK
  <2>3. ClosedIsEmpty' /\ Reach' /\ Covered' /\ Counted'
      BY <2>1 DEF Inv, ClosedIsEmpty, Reach, Covered, Counted
  <2>4. SoundBooks'
    <3>1. Live' = Live
        BY <2>1, LiveIs
    <3> QED
        BY <2>1, <3>1 DEF Inv, SoundBooks
  <2> QED
      BY <1>1, <2>2, <2>3, <2>4 DEF Inv
<1>13. CASE \E p \in Pollers : PollStep(p)
    BY <1>12, <1>13 DEF PollStep
<1>14. CASE UNCHANGED feed
    BY <1>12, <1>14 DEF feed
<1> QED
    BY <1>2, <1>3, <1>4, <1>5, <1>6, <1>7, <1>8, <1>9, <1>10, <1>11, <1>13, <1>14
    DEF Next, Receive

-----------------------------------------------------------------------------

\* The invariant, for any tokens, texts of prices, sizes, any number of changes,
\* connections, events and pollers, whatever messages are skipped.
THEOREM SpecInv == Spec => []Inv
    BY InitInv, StepInv, PTL DEF Spec

\* The same with the folds of the model: a form of the invariant that TLC can evaluate.
THEOREM SpecIInv == Spec => []IInv
    BY SpecInv, InvIInv, PTL

\* Type correctness of the watch: messages, books, events.
THEOREM SpecTypeOK == Spec => []TypeOK
<1>1. IInv => TypeOK
    BY DEF IInv
<1> QED
    BY <1>1, SpecIInv, PTL

\* apply_message, publish_book and apply_price_change over a whole connection: the live
\* book of a token and the messages on their way make the exchange's book, whatever the
\* order and the number of the messages, unless decode_messages skipped one about this
\* token, or apply_level missed one of its levels under another text, and its next
\* snapshot is still to be sent.
THEOREM SpecInStep == Spec => []InStep
<1>1. IInv => InStep
    BY DEF IInv
<1> QED
    BY <1>1, SpecIInv, PTL

\* publish_book and apply_price_change: what was broadcast last is the live book, and the
\* counts of updates are those of the broadcasts, whatever was skipped.
THEOREM SpecPublishedLast == Spec => []PublishedLast
<1>1. IInv => PublishedLast
    BY DEF IInv
<1> QED
    BY <1>1, SpecIInv, PTL

LEMMA InvExecutable == IInv => Executable
<1> SUFFICES ASSUME IInv, NEW t \in DOMAIN books
             PROVE  LET b == books[t] IN
        /\ \A i, j \in DOMAIN b.bids : i < j => Value[b.bids[i].price] >= Value[b.bids[j].price]
        /\ \A i, j \in DOMAIN b.asks : i < j => Value[b.asks[i].price] <= Value[b.asks[j].price]
        /\ \A l \in ToSet(b.bids) : Value[l.price] <= Value[b.bestBid]
        /\ \A l \in ToSet(b.asks) : Value[l.price] >= Value[b.bestAsk]
        /\ t \notin astray =>
              /\ \A side \in Sides : \A i, j \in DOMAIN b[side] :
                    i < j => Value[b[side][i].price] # Value[b[side][j].price]
              /\ None \notin {b.bestBid, b.bestAsk} => Value[b.bestBid] < Value[b.bestAsk]
    BY DEF Executable
<1> DEFINE b == books[t]
<1>0. t \in Tokens /\ TypeOK /\ SoundBooks
    BY DEF IInv, TypeOK
<1>1. b \in Book /\ Ordered(b)
    BY DEF IInv, TypeOK, SoundBooks
<1>2. t \notin astray => Unique(b.bids) /\ Unique(b.asks) /\ SoundQuotes(Read(Levels(b)))
  <2>1. Live[t] = Read(Levels(b))
      BY <1>0 DEF Live
  <2> QED
      BY <1>0, <2>1 DEF SoundBooks
<1> HIDE DEF b
<1>3. /\ b.bids \in Seq(Level) /\ b.asks \in Seq(Level)
      /\ \A i \in DOMAIN b.bids : Value[b.bids[i].price] \in Nat /\ i \in Nat
      /\ \A i \in DOMAIN b.asks : Value[b.asks[i].price] \in Nat /\ i \in Nat
  <2>1. b.bids \in Seq(Level) /\ b.asks \in Seq(Level)
      BY <1>1 DEF Book
  <2>2. /\ \A i \in DOMAIN b.bids : b.bids[i] \in Level /\ i \in Nat
        /\ \A i \in DOMAIN b.asks : b.asks[i] \in Level /\ i \in Nat
      BY <2>1
  <2> QED
      BY <2>1, <2>2, Priced DEF Level
<1>4. ASSUME NEW i \in DOMAIN b.bids
      PROVE  /\ 1 \in DOMAIN b.bids /\ b.bestBid = b.bids[1].price
             /\ Value[b.bids[i].price] <= Value[b.bestBid]
  <2>1. b.bids # << >> /\ 1 \in DOMAIN b.bids /\ Head(b.bids) = b.bids[1] /\ (i = 1 \/ 1 < i)
      BY <1>3, <1>4
  <2>2. b.bestBid = b.bids[1].price
      BY <1>1, <2>1 DEF Ordered
  <2>3. i = 1 \/ Value[b.bids[1].price] >= Value[b.bids[i].price]
      BY <1>1, <1>4, <2>1 DEF Ordered
  <2>4. Value[b.bids[1].price] \in Nat /\ Value[b.bids[i].price] \in Nat
      BY <1>3, <2>1
  <2> QED
      BY <2>1, <2>2, <2>3, <2>4
<1>5. ASSUME NEW i \in DOMAIN b.asks
      PROVE  /\ 1 \in DOMAIN b.asks /\ b.bestAsk = b.asks[1].price
             /\ Value[b.asks[i].price] >= Value[b.bestAsk]
  <2>1. b.asks # << >> /\ 1 \in DOMAIN b.asks /\ Head(b.asks) = b.asks[1] /\ (i = 1 \/ 1 < i)
      BY <1>3, <1>5
  <2>2. b.bestAsk = b.asks[1].price
      BY <1>1, <2>1 DEF Ordered
  <2>3. i = 1 \/ Value[b.asks[1].price] <= Value[b.asks[i].price]
      BY <1>1, <1>5, <2>1 DEF Ordered
  <2>4. Value[b.asks[1].price] \in Nat /\ Value[b.asks[i].price] \in Nat
      BY <1>3, <2>1
  <2> QED
      BY <2>1, <2>2, <2>3, <2>4
<1>6. ASSUME t \notin astray, None \notin {b.bestBid, b.bestAsk}
      PROVE  Value[b.bestBid] < Value[b.bestAsk]
  <2>1. b.bids # << >> /\ b.asks # << >>
      BY <1>1, <1>6 DEF Ordered
  <2>2. 1 \in DOMAIN b.bids /\ 1 \in DOMAIN b.asks
      BY <1>3, <2>1
  <2> DEFINE x == [price |-> Value[b.bids[1].price], size |-> b.bids[1].size]
             y == [price |-> Value[b.asks[1].price], size |-> b.asks[1].size]
  <2>3. x \in Read(Levels(b))["bids"] /\ y \in Read(Levels(b))["asks"]
      BY <2>2 DEF Read, Numbers, Levels, Sides, ToSet
  <2>4. x.price < y.price
    <3> HIDE DEF x, y
    <3> QED
        BY <1>2, <1>6, <2>3 DEF SoundQuotes
  <2> QED
      BY <1>4, <1>5, <2>2, <2>4
<1>7. ASSUME t \notin astray, NEW side \in Sides, NEW i \in DOMAIN b[side], NEW j \in DOMAIN b[side],
             i < j
      PROVE  Value[b[side][i].price] # Value[b[side][j].price]
  <2>1. CASE side = "bids"
    <3>1. Unique(b.bids) /\ i \in DOMAIN b.bids /\ j \in DOMAIN b.bids /\ i # j
        BY <1>2, <1>3, <1>7, <2>1
    <3>2. Value[b.bids[i].price] # Value[b.bids[j].price]
        BY <3>1 DEF Unique
    <3> QED
        BY <2>1, <3>2
  <2>2. CASE side = "asks"
    <3>1. Unique(b.asks) /\ i \in DOMAIN b.asks /\ j \in DOMAIN b.asks /\ i # j
        BY <1>2, <1>3, <1>7, <2>2
    <3>2. Value[b.asks[i].price] # Value[b.asks[j].price]
        BY <3>1 DEF Unique
    <3> QED
        BY <2>2, <3>2
  <2> QED
      BY <2>1, <2>2 DEF Sides
<1>8. /\ \A l \in ToSet(b.bids) : Value[l.price] <= Value[b.bestBid]
      /\ \A l \in ToSet(b.asks) : Value[l.price] >= Value[b.bestAsk]
    BY <1>4, <1>5 DEF ToSet
<1>9. /\ \A i, j \in DOMAIN b.bids : i < j => Value[b.bids[i].price] >= Value[b.bids[j].price]
      /\ \A i, j \in DOMAIN b.asks : i < j => Value[b.asks[i].price] <= Value[b.asks[j].price]
    BY <1>1 DEF Ordered
<1> QED
    BY <1>6, <1>7, <1>8, <1>9 DEF b

\* normalize_book and apply_level: every book a client reads is in executable order and its
\* best quotes are its best levels, whatever texts its prices come in and whatever was
\* skipped; with neither, it has one level for each price and is never crossed.
THEOREM SpecExecutable == Spec => []Executable
    BY SpecIInv, InvExecutable, PTL

\* push_event and events of a watch with its feed: whatever its messages, its events are
\* kept and polled as EventLog says, so that what is proved of LogSpec holds of the watch.
THEOREM SpecKeepsLog == Spec => LogSpec
<1>1. Init => LogInit
    BY DEF Init
<1> QED
    BY <1>1, FeedStepIsLogStep, PTL DEF Spec, LogSpec

=============================================================================
