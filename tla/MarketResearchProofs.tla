----------------------- MODULE MarketResearchProofs -----------------------
(***************************************************************************)
(* The research tools, for any markets, tokens, events, books and          *)
(* histories: whose book an answer is, what is kept of a history, what the *)
(* sums of a basket are worth, what an order on a book comes to, and what  *)
(* a client has that pages through a listing while it changes.             *)
(***************************************************************************)
EXTENDS MarketResearch, SequenceLemmas

Answer == [key : Tokens \cup Nat, book : Books \cup {Failed}]

-----------------------------------------------------------------------------
(* The fan-out. *)

LEMMA InitRInv == Init => RInv
    BY DEF Init, RInv, ResearchTypes, BeforeAndAfter, EachOnce

\* A page of the listing comes before the fan-out of a scan, or goes to its client.
LEMMA ListInv ==
    ASSUME RInv, List
    PROVE  RInv'
<1>1. UNCHANGED <<tool, phase, legs, todo, flying, arrived, history>>
    BY DEF List, fanOut
<1>2. tool = "list_markets" \/ (tool = "scan" /\ phase = "asked")
    BY DEF List, RInv, BeforeAndAfter
<1> QED
    BY <1>1, <1>2 DEF RInv, ResearchTypes, BeforeAndAfter, EachOnce

LEMMA StartScanInv ==
    ASSUME RInv, StartScan
    PROVE  RInv'
<1>1. /\ tool = "scan" /\ phase = "asked" /\ listed # << >> /\ phase' = "fetching"
      /\ todo' = PickedTokens
      /\ UNCHANGED <<tool, legs, flying, arrived, history, listed>>
    BY DEF StartScan, listing, client
<1>2. flying = {} /\ Keys = {} /\ arrived = << >>
    BY <1>1 DEF RInv, BeforeAndAfter, Keys
<1>3. Keys' = {} /\ Needed' = PickedTokens
    BY <1>1, <1>2 DEF Keys, Needed, PickedTokens, Picked
<1> QED
    BY <1>1, <1>2, <1>3 DEF RInv, ResearchTypes, BeforeAndAfter, EachOnce

LEMMA StartEventInv ==
    ASSUME RInv, StartEvent
    PROVE  RInv'
<1>1. /\ tool = "event" /\ phase = "asked" /\ phase' = "fetching"
      /\ legs' \in Seq(Markets) /\ todo' = DOMAIN legs'
      /\ UNCHANGED <<tool, flying, arrived, history, listed>>
    BY ResearchAssumption DEF StartEvent, listing, client
<1>2. flying = {} /\ Keys = {} /\ arrived = << >>
    BY <1>1 DEF RInv, BeforeAndAfter, Keys
<1>3. Keys' = {} /\ Needed' = DOMAIN legs'
    BY <1>1, <1>2 DEF Keys, Needed
<1> QED
    BY <1>1, <1>2, <1>3 DEF RInv, ResearchTypes, BeforeAndAfter, EachOnce

\* What is asked for is still needed, and a book is asked for once.
LEMMA AskBookInv ==
    ASSUME RInv, NEW k, AskBook(k)
    PROVE  RInv'
<1>1. /\ k \in todo /\ todo' = todo \ {k} /\ flying' = flying \cup {k}
      /\ UNCHANGED <<tool, phase, legs, arrived, history, listed>>
    BY DEF AskBook, listing, client
<1>2. Keys' = Keys /\ Needed' = Needed
    BY <1>1 DEF Keys, Needed, PickedTokens, Picked
<1> QED
    BY <1>1, <1>2 DEF RInv, ResearchTypes, BeforeAndAfter, EachOnce

\* A sequence of answers, and one more.
LEMMA AppendAnswer ==
    ASSUME NEW s \in Seq(Answer), NEW a \in Answer, \A i \in DOMAIN s : s[i].key # a.key,
           \A i, j \in DOMAIN s : s[i].key = s[j].key => i = j
    PROVE  /\ Append(s, a) \in Seq(Answer)
           /\ {Append(s, a)[i].key : i \in DOMAIN Append(s, a)}
                  = {s[i].key : i \in DOMAIN s} \cup {a.key}
           /\ \A i, j \in DOMAIN Append(s, a) :
                  Append(s, a)[i].key = Append(s, a)[j].key => i = j
<1> DEFINE t == Append(s, a)
           n == Len(s)
<1>1. /\ n \in Nat /\ DOMAIN s = 1..n /\ t \in Seq(Answer) /\ DOMAIN t = 1..(n + 1)
      /\ t[n + 1] = a /\ \A i \in 1..n : t[i] = s[i]
    OBVIOUS
<1> HIDE DEF t, n
<1>2. \A i \in 1..(n + 1) : i \in 1..n \/ i = n + 1
    BY <1>1
<1>3. n + 1 \in 1..(n + 1) /\ \A i \in 1..n : i \in 1..(n + 1)
    BY <1>1
<1>4. {t[i].key : i \in DOMAIN t} = {s[i].key : i \in DOMAIN s} \cup {a.key}
    BY <1>1, <1>2, <1>3
<1>5. \A i, j \in DOMAIN t : t[i].key = t[j].key => i = j
    BY <1>1, <1>2
<1> QED
    BY <1>1, <1>4, <1>5 DEF t

\* An answer takes the place of its request.
LEMMA AnswerBookInv ==
    ASSUME RInv, NEW k \in Tokens \cup DOMAIN legs, AnswerBook(k)
    PROVE  RInv'
<1>1. PICK book \in Books \cup {Failed} :
          /\ k \in flying /\ flying' = flying \ {k}
          /\ arrived' = Append(arrived, [key |-> k, book |-> book])
          /\ UNCHANGED <<tool, phase, legs, todo, history, listed>>
    BY DEF AnswerBook, listing, client
<1> DEFINE a == [key |-> k, book |-> book]
<1>2. arrived \in Seq(Answer) /\ a \in Answer
    BY DEF RInv, ResearchTypes, Answer
<1>3. Needed' = Needed
    BY <1>1 DEF Needed, PickedTokens, Picked
<1>4. phase # "asked" /\ phase # "done"
    BY <1>1 DEF RInv, BeforeAndAfter
<1>5. arrived' \in Seq(Answer)
    BY <1>1, <1>2
<1>6. ResearchTypes' /\ BeforeAndAfter'
    BY <1>1, <1>4, <1>5 DEF RInv, ResearchTypes, BeforeAndAfter, Answer
<1>7. EachOnce'
  <2> SUFFICES ASSUME tool \in {"scan", "event"} PROVE EachOnce'
      BY <1>1 DEF EachOnce
  <2>1. /\ todo \cup flying \cup Keys = Needed
        /\ todo \cap flying = {} /\ Keys \cap (todo \cup flying) = {}
        /\ \A i, j \in DOMAIN arrived : arrived[i].key = arrived[j].key => i = j
      BY <1>4 DEF RInv, EachOnce
  <2>2. \A i \in DOMAIN arrived : arrived[i].key # a.key
      BY <1>1, <2>1 DEF Keys
  <2> HIDE DEF a
  <2>3. /\ {Append(arrived, a)[i].key : i \in DOMAIN Append(arrived, a)}
              = {arrived[i].key : i \in DOMAIN arrived} \cup {a.key}
        /\ \A i, j \in DOMAIN Append(arrived, a) :
              Append(arrived, a)[i].key = Append(arrived, a)[j].key => i = j
      BY <1>2, <2>1, <2>2, AppendAnswer
  <2>4. Keys' = Keys \cup {k}
      BY <1>1, <2>3 DEF Keys, a
  <2>5. \A i, j \in DOMAIN arrived' : arrived'[i].key = arrived'[j].key => i = j
      BY <1>1, <2>3 DEF a
  <2>6. /\ todo' \cup flying' \cup Keys' = Needed'
        /\ todo' \cap flying' = {} /\ Keys' \cap (todo' \cup flying') = {}
      BY <1>1, <1>3, <2>1, <2>4
  <2> QED
      BY <2>5, <2>6 DEF EachOnce
<1> QED
    BY <1>6, <1>7 DEF RInv

LEMMA ReportInv ==
    ASSUME RInv, Report
    PROVE  RInv'
<1>1. /\ phase = "fetching" /\ phase' = "done" /\ todo = {} /\ flying = {}
      /\ UNCHANGED <<tool, legs, todo, flying, arrived, history, listed>>
    BY DEF Report, fanOut, listing, client
<1>2. Keys' = Keys /\ Needed' = Needed
    BY <1>1 DEF Keys, Needed, PickedTokens, Picked
<1> QED
    BY <1>1, <1>2 DEF RInv, ResearchTypes, BeforeAndAfter, EachOnce

LEMMA AnswerHistoryInv ==
    ASSUME RInv, AnswerHistory
    PROVE  RInv'
<1>1. /\ tool = "history" /\ phase = "asked" /\ phase' = "done"
      /\ UNCHANGED <<tool, legs, todo, flying, arrived, listed>>
    BY DEF AnswerHistory, fanOut, listing, client
<1>2. history' \in Seq(Prices)
    BY ResearchAssumption DEF AnswerHistory
<1> QED
    BY <1>1, <1>2 DEF RInv, ResearchTypes, BeforeAndAfter, EachOnce

LEMMA StepRInv == RInv /\ [Next]_vars => RInv'
<1> SUFFICES ASSUME RInv, [Next]_vars PROVE RInv'
    OBVIOUS
<1>1. ASSUME NEW k \in Tokens \cup DOMAIN legs, AskBook(k) \/ AnswerBook(k) PROVE RInv'
    BY <1>1, AskBookInv, AnswerBookInv
<1>2. CASE UNCHANGED vars
  <2>1. UNCHANGED <<tool, phase, legs, todo, flying, arrived, history, listed>>
      BY <1>2 DEF vars, fanOut, listing, client
  <2>2. Keys' = Keys /\ Needed' = Needed
      BY <2>1 DEF Keys, Needed, PickedTokens, Picked
  <2> QED
      BY <2>1, <2>2 DEF RInv, ResearchTypes, BeforeAndAfter, EachOnce
<1> QED
    BY <1>1, <1>2, ListInv, StartScanInv, StartEventInv, ReportInv, AnswerHistoryInv DEF Next

\* Every book a tool needs is to be asked for, asked for or answered, and answered once,
\* for any markets and events and any number of requests in flight.
THEOREM SpecRInv == Spec => []RInv
    BY InitRInv, StepRInv, PTL DEF Spec

-----------------------------------------------------------------------------
(* Answers in the order of their keys. *)

\* From 1 to n there is one way up in n steps.
LEMMA StraightUp ==
    ASSUME NEW n \in Nat, NEW f \in [1..n -> 1..n], \A i, j \in 1..n : i < j => f[i] < f[j]
    PROVE  \A i \in 1..n : f[i] = i
<1> DEFINE T == {k \in Nat : k + 1 <= n => f[k + 1] >= k + 1}
           U == {k \in Nat : k + 1 <= n => f[n - k] <= n - k}
<1>1. Nat \subseteq T
  <2>1. 0 \in T
      OBVIOUS
  <2>2. ASSUME NEW k \in Nat, k \in T PROVE k + 1 \in T
    <3> SUFFICES ASSUME k + 2 <= n PROVE f[k + 2] >= k + 2
        OBVIOUS
    <3>1. k + 1 \in 1..n /\ k + 2 \in 1..n /\ k + 1 < k + 2 /\ f[k + 1] >= k + 1
        BY <2>2
    <3>2. f[k + 1] < f[k + 2]
        BY <3>1
    <3> QED
        BY <3>1, <3>2
  <2> HIDE DEF T
  <2> QED
      BY <2>1, <2>2, Induction
<1>2. Nat \subseteq U
  <2>1. 0 \in U
      OBVIOUS
  <2>2. ASSUME NEW k \in Nat, k \in U PROVE k + 1 \in U
    <3> SUFFICES ASSUME k + 2 <= n PROVE f[n - (k + 1)] <= n - (k + 1)
        OBVIOUS
    <3>1. n - k \in 1..n /\ n - (k + 1) \in 1..n /\ n - (k + 1) < n - k /\ f[n - k] <= n - k
        BY <2>2
    <3>2. f[n - (k + 1)] < f[n - k]
        BY <3>1
    <3> QED
        BY <3>1, <3>2
  <2> HIDE DEF U
  <2> QED
      BY <2>1, <2>2, Induction
<1>3. ASSUME NEW i \in 1..n PROVE f[i] = i
  <2>1. i - 1 \in Nat /\ n - i \in Nat
      OBVIOUS
  <2>2. i - 1 \in T /\ n - i \in U
      BY <1>1, <1>2, <2>1
  <2>3. f[i] >= i /\ f[i] <= i
      BY <2>1, <2>2
  <2> QED
      BY <2>3
<1> QED
    BY <1>3

\* Of each key one answer: as many answers as keys.
LEMMA OneForEachKey ==
    ASSUME NEW s \in Seq(Answer), \A i, j \in DOMAIN s : s[i].key = s[j].key => i = j
    PROVE  Cardinality({s[i].key : i \in DOMAIN s}) = Len(s)
<1> DEFINE K == {s[i].key : i \in DOMAIN s}
           f == [i \in 1..Len(s) |-> s[i].key]
<1>1. Len(s) \in Nat /\ DOMAIN s = 1..Len(s)
    OBVIOUS
<1>2. f \in Bijection(1..Len(s), K)
  <2>1. f \in [1..Len(s) -> K]
      BY <1>1
  <2>2. \A i, j \in 1..Len(s) : f[i] = f[j] => i = j
      BY <1>1
  <2>3. \A k \in K : \E i \in 1..Len(s) : f[i] = k
      BY <1>1
  <2> HIDE DEF f, K
  <2> QED
      BY <2>1, <2>2, <2>3 DEF Bijection, Injection, Surjection, IsInjective
<1>3. IsFiniteSet(1..Len(s)) /\ Cardinality(1..Len(s)) = Len(s)
    BY <1>1, FS_Interval
<1> HIDE DEF f, K
<1>4. ExistsBijection(1..Len(s), K)
    BY <1>2 DEF ExistsBijection
<1> QED
    BY <1>3, <1>4, FS_Bijection, FS_SameCardinalityBij DEF K

\* All of a sequence in the order of its keys.
LEMMA SortedFacts ==
    ASSUME NEW X, NEW s \in Seq(X), NEW S, S = DOMAIN s, NEW key \in [S -> Int]
    PROVE  /\ Sorted(s, key) \in Seq(X) /\ Len(Sorted(s, key)) = Len(s)
           /\ ToSet(Sorted(s, key)) = ToSet(s)
           /\ \E at : Places(at, s, S, key)
<1> DEFINE t == Sorted(s, key)
<1>1. S \in SUBSET (DOMAIN s)
    OBVIOUS
<1>2. Len(s) \in Nat
    OBVIOUS
<1>3. Cardinality(S) = Len(s)
  <2>1. Cardinality(1..Len(s)) = Len(s)
    <3> SUFFICES ASSUME NEW n \in Nat PROVE Cardinality(1..n) = n
        BY <1>2
    <3> QED
        BY FS_Interval
  <2> QED
      BY <2>1
<1>4. t = Arranged(s, S, key)
    BY DEF Sorted
<1>5. ToSet(s) = {s[i] : i \in S}
    BY DEF ToSet
<1> HIDE DEF t
<1>6. /\ t \in Seq(X) /\ Len(t) = Cardinality(S) /\ ToSet(t) = {s[i] : i \in S}
      /\ \E at : Places(at, s, S, key)
    BY <1>1, <1>4, ArrangedFacts
<1> QED
    BY <1>3, <1>5, <1>6 DEF t

\* sort_by_key of answers whose keys are those of the legs.
LEMMA AnswersInOrder ==
    ASSUME NEW s \in Seq(Answer), NEW n \in Nat, {s[i].key : i \in DOMAIN s} = 1..n,
           \A i, j \in DOMAIN s : s[i].key = s[j].key => i = j
    PROVE  LET t == Sorted(s, [i \in DOMAIN s |-> s[i].key])
           IN  /\ t \in Seq(Answer) /\ Len(t) = n
               /\ \A i \in 1..n : t[i].key = i /\ t[i] \in ToSet(s)
<1> DEFINE key == [i \in DOMAIN s |-> s[i].key]
           t == Sorted(s, key)
<1>1. Cardinality(1..n) = n
    BY FS_Interval
<1>2. /\ Len(s) = n /\ DOMAIN s = 1..n /\ Cardinality(DOMAIN s) = n
      /\ \A i \in DOMAIN s : s[i].key \in 1..n
  <2>1. Cardinality({s[i].key : i \in DOMAIN s}) = Len(s)
      BY OneForEachKey
  <2>2. Len(s) = n
      BY <2>1, <1>1
  <2>3. DOMAIN s = 1..n
      BY <2>2
  <2> QED
      BY <1>1, <2>2, <2>3
<1> DEFINE S == DOMAIN s
<1>3. S = DOMAIN s /\ key \in [S -> Int]
    BY <1>2
<1> HIDE DEF key, S
<1>4. /\ t \in Seq(Answer) /\ Len(t) = n
      /\ \E at : Places(at, s, S, key)
    BY <1>2, <1>3, SortedFacts
<1>5. PICK at : Places(at, s, S, key)
    BY <1>4
<1> DEFINE f == [i \in 1..n |-> s[at[i]].key]
<1>6. /\ at \in [1..n -> DOMAIN s]
      /\ \A i \in 1..n : t[i] = s[at[i]]
      /\ \A i, j \in 1..n : i < j => at[i] # at[j] /\ key[at[i]] <= key[at[j]]
    BY <1>2, <1>3, <1>5 DEF Places, Sorted
<1> HIDE DEF t
<1>7. f \in [1..n -> 1..n]
    BY <1>2, <1>6
<1>8. \A i, j \in 1..n : i < j => f[i] < f[j]
  <2> SUFFICES ASSUME NEW i \in 1..n, NEW j \in 1..n, i < j PROVE f[i] < f[j]
      OBVIOUS
  <2>1. at[i] \in DOMAIN s /\ at[j] \in DOMAIN s /\ at[i] # at[j] /\ key[at[i]] <= key[at[j]]
      BY <1>6
  <2>2. s[at[i]].key # s[at[j]].key /\ s[at[i]].key <= s[at[j]].key
      BY <2>1 DEF key
  <2> QED
      BY <1>7, <2>2
<1> HIDE DEF f
<1>9. \A i \in 1..n : f[i] = i
    BY <1>7, <1>8, StraightUp
<1>10. \A i \in 1..n : t[i].key = i /\ t[i] \in ToSet(s)
    BY <1>6, <1>9 DEF f, ToSet
<1> QED
    BY <1>4, <1>10 DEF t, key

LEMMA LegsOfEvent ==
    ASSUME RInv, tool = "event", phase = "done"
    PROVE  /\ Len(EventLegs) = Len(legs) /\ EventLegs \in Seq(Books \cup {Failed})
           /\ \A i \in DOMAIN legs : [key |-> i, book |-> EventLegs[i]] \in ToSet(arrived)
<1> DEFINE n == Len(legs)
           t == Sorted(arrived, [i \in DOMAIN arrived |-> arrived[i].key])
<1>1. n \in Nat /\ DOMAIN legs = 1..n
    BY DEF RInv, ResearchTypes
<1>2. /\ arrived \in Seq(Answer) /\ {arrived[i].key : i \in DOMAIN arrived} = 1..n
      /\ \A i, j \in DOMAIN arrived : arrived[i].key = arrived[j].key => i = j
    BY <1>1 DEF RInv, ResearchTypes, BeforeAndAfter, EachOnce, Keys, Needed, Answer
<1> HIDE DEF n
<1>3. /\ t \in Seq(Answer) /\ Len(t) = n
      /\ \A i \in 1..n : t[i].key = i /\ t[i] \in ToSet(arrived)
    BY <1>1, <1>2, AnswersInOrder
<1>4. EventLegs = [i \in DOMAIN t |-> t[i].book]
    BY DEF EventLegs
<1> HIDE DEF t
<1>5. EventLegs \in Seq(Books \cup {Failed}) /\ Len(EventLegs) = n
  <2>1. DOMAIN t = 1..n
      BY <1>1, <1>3
  <2>2. \A i \in 1..n : t[i] \in Answer
      BY <1>3, <2>1
  <2>3. \A i \in 1..n : t[i].book \in Books \cup {Failed}
      BY <2>2 DEF Answer
  <2> QED
      BY <1>1, <1>4, <2>1, <2>3
<1>6. ASSUME NEW i \in 1..n PROVE [key |-> i, book |-> EventLegs[i]] \in ToSet(arrived)
  <2>1. t[i] \in Answer /\ t[i].key = i /\ EventLegs[i] = t[i].book
      BY <1>1, <1>3, <1>4
  <2>2. t[i] = [key |-> i, book |-> EventLegs[i]]
      BY <2>1 DEF Answer
  <2> QED
      BY <1>3, <2>2
<1> QED
    BY <1>1, <1>5, <1>6 DEF n

LEMMA RInvOwnBooks == RInv => OwnBooks
<1> SUFFICES ASSUME RInv, phase = "done" PROVE OwnBooks
    BY DEF OwnBooks
<1>1. CASE tool = "event"
    BY <1>1, LegsOfEvent DEF OwnBooks
<1>2. CASE tool = "scan"
  <2>1. /\ {arrived[i].key : i \in DOMAIN arrived} = PickedTokens
        /\ arrived \in Seq(Answer)
        /\ \A i, j \in DOMAIN arrived : arrived[i].key = arrived[j].key => i = j
      BY <1>2 DEF RInv, ResearchTypes, BeforeAndAfter, EachOnce, Keys, Needed, Answer
  <2>2. Len(arrived) = Cardinality(PickedTokens)
      BY <2>1, OneForEachKey
  <2> QED
      BY <1>2, <2>1, <2>2 DEF OwnBooks
<1> QED
    BY <1>1, <1>2 DEF OwnBooks

\* buffer_unordered and what is made of its answers: every leg of an event's report is the
\* answer to its own request, and every token of a scan has one answer of its own.
THEOREM SpecOwnBooks == Spec => []OwnBooks
    BY SpecRInv, RInvOwnBooks, PTL

-----------------------------------------------------------------------------
(* What is kept of a history. *)

\* A quotient and what is left of the number.
LEMMA Quotient ==
    ASSUME NEW a \in Nat, NEW m \in Nat \ {0}
    PROVE  a \div m \in Nat /\ m * (a \div m) <= a /\ a < m * (a \div m) + m
    OBVIOUS

LEMMA Product ==
    ASSUME NEW a \in Nat, NEW b \in Nat, NEW m \in Nat, a <= b
    PROVE  a * m \in Nat /\ m * a <= m * b /\ a * m <= b * m
    OBVIOUS

\* A whole divisor more is a quotient more.
LEMMA QuotientGrows ==
    ASSUME NEW a \in Nat, NEW b \in Nat, NEW m \in Nat \ {0}, a + m <= b
    PROVE  a \div m < b \div m
<1> DEFINE p == a \div m
           q == b \div m
<1>1. /\ p \in Nat /\ m * p <= a
      /\ q \in Nat /\ b < m * q + m
    BY Quotient
<1> HIDE DEF p, q
<1>2. ASSUME q <= p PROVE FALSE
  <2>1. m * q <= m * p /\ m * q \in Nat /\ m * p \in Nat
      BY <1>1, <1>2, Product
  <2> QED
      BY <1>1, <2>1
<1> QED
    BY <1>1, <1>2 DEF p, q

LEMMA QuotientOfMultiple ==
    ASSUME NEW a \in Nat, NEW m \in Nat \ {0}
    PROVE  (m * a) \div m = a
<1> DEFINE q == (m * a) \div m
<1>1. m * a \in Nat
    BY Product
<1>2. q \in Nat /\ m * q <= m * a /\ m * a < m * q + m
    BY <1>1, Quotient
<1> HIDE DEF q
<1>3. ASSUME q + 1 <= a PROVE FALSE
  <2>1. m * (q + 1) <= m * a /\ m * (q + 1) = m * q + m
      BY <1>2, <1>3, Product
  <2> QED
      BY <1>2, <2>1
<1>4. ASSUME a + 1 <= q PROVE FALSE
  <2>1. m * (a + 1) <= m * q /\ m * (a + 1) = m * a + m
      BY <1>2, <1>4, Product
  <2> QED
      BY <1>1, <1>2, <2>1
<1> QED
    BY <1>2, <1>3, <1>4 DEF q

\* The indices downsample_points keeps: up to the limit of them, each greater than the
\* one before, from the first to the last.
LEMMA SampledFacts ==
    ASSUME NEW n \in Nat \ {0}, NEW limit \in Nat, limit >= 2
    PROVE  \E k \in 1..limit :
               /\ Sampled(n, limit) \in [1..k -> 1..n]
               /\ Sampled(n, limit)[1] = 1 /\ Sampled(n, limit)[k] = n
               /\ \A i, j \in 1..k : i < j => Sampled(n, limit)[i] < Sampled(n, limit)[j]
<1>1. CASE n <= limit
  <2>1. Sampled(n, limit) = [i \in 1..n |-> i]
      BY <1>1 DEF Sampled
  <2>2. n \in 1..limit
      BY <1>1
  <2> QED
      BY <2>1, <2>2
<1>2. CASE limit < n
  <2> DEFINE m == limit - 1
             at == [i \in 1..limit |-> ((i - 1) * (n - 1)) \div m + 1]
  <2>1. Sampled(n, limit) = at
      BY <1>2 DEF Sampled
  <2>2. m \in Nat \ {0} /\ n - 1 \in Nat /\ m <= n - 1
      BY <1>2
  <2> HIDE DEF m
  <2>3. ASSUME NEW i \in 1..limit
        PROVE  i - 1 \in Nat /\ (i - 1) * (n - 1) \in Nat /\ ((i - 1) * (n - 1)) \div m \in Nat
    <3>1. i - 1 \in Nat
        OBVIOUS
    <3>2. (i - 1) * (n - 1) \in Nat
        BY <2>2, <3>1, Product
    <3> QED
        BY <2>2, <3>1, <3>2, Quotient
  <2>4. at[1] = 1
    <3>1. (1 - 1) * (n - 1) = m * 0 /\ 1 \in 1..limit
        BY <2>2
    <3>2. (m * 0) \div m = 0
        BY <2>2, QuotientOfMultiple
    <3> QED
        BY <3>1, <3>2
  <2>5. at[limit] = n
    <3>1. (limit - 1) * (n - 1) = m * (n - 1) /\ limit \in 1..limit
        BY DEF m
    <3>2. (m * (n - 1)) \div m = n - 1
        BY <2>2, QuotientOfMultiple
    <3> QED
        BY <3>1, <3>2
  <2>6. \A i, j \in 1..limit : i < j => at[i] < at[j]
    <3> SUFFICES ASSUME NEW i \in 1..limit, NEW j \in 1..limit, i < j PROVE at[i] < at[j]
        OBVIOUS
    <3> DEFINE a == (i - 1) * (n - 1)
               b == (j - 1) * (n - 1)
    <3>1. a \in Nat /\ b \in Nat /\ a \div m \in Nat /\ b \div m \in Nat
        BY <2>3
    <3>2. a + m <= b
      <4>1. i \in Nat /\ j - 1 \in Nat /\ i <= j - 1
          OBVIOUS
      <4>2. i * (n - 1) <= (j - 1) * (n - 1)
          BY <2>2, <4>1, Product
      <4>3. i * (n - 1) = a + (n - 1)
          BY <2>2, <4>1
      <4> QED
          BY <2>2, <3>1, <4>2, <4>3
    <3>3. at[i] = a \div m + 1 /\ at[j] = b \div m + 1
        OBVIOUS
    <3> HIDE DEF a, b, at
    <3>4. a \div m < b \div m
        BY <2>2, <3>1, <3>2, QuotientGrows
    <3> QED
        BY <3>1, <3>3, <3>4
  <2>7. at \in [1..limit -> 1..n]
    <3>1. \A i \in 1..limit : at[i] \in Nat /\ at[i] >= 1
      <4> SUFFICES ASSUME NEW i \in 1..limit PROVE at[i] \in Nat /\ at[i] >= 1
          OBVIOUS
      <4> DEFINE q == ((i - 1) * (n - 1)) \div m
      <4>1. q \in Nat /\ at[i] = q + 1
          BY <2>3
      <4> HIDE DEF q, at
      <4> QED
          BY <4>1
    <3>2. at \in [1..limit -> Nat]
        BY <3>1
    <3> HIDE DEF at
    <3>3. \A i \in 1..limit : at[i] \in 1..n
      <4> SUFFICES ASSUME NEW i \in 1..limit PROVE at[i] <= n
          BY <3>1
      <4>1. limit \in 1..limit
          OBVIOUS
      <4>2. CASE i = limit
          BY <2>5, <4>2
      <4>3. CASE i < limit
          BY <2>5, <2>6, <3>1, <4>1, <4>3
      <4> QED
          BY <4>2, <4>3
    <3> QED
        BY <3>2, <3>3
  <2>8. limit \in 1..limit
      OBVIOUS
  <2> HIDE DEF at
  <2> QED
      BY <2>1, <2>4, <2>5, <2>6, <2>7, <2>8
<1> QED
    BY <1>1, <1>2

\* Of finitely many naturals one is the greatest.
LEMMA Greatest ==
    ASSUME NEW n \in Nat \ {0}, NEW f \in [1..n -> Nat]
    PROVE  \E m \in 1..n : \A i \in 1..n : f[i] <= f[m]
<1> DEFINE Highest(k, m) == m \in 1..k /\ \A i \in 1..k : f[i] <= f[m]
           T == {k \in Nat : k + 1 <= n => \E m \in 1..n : Highest(k + 1, m)}
<1>1. 0 \in T
  <2>1. Highest(1, 1) /\ 1 \in 1..n
      OBVIOUS
  <2> QED
      BY <2>1
<1>2. ASSUME NEW k \in Nat, k \in T PROVE k + 1 \in T
  <2> SUFFICES ASSUME k + 2 <= n PROVE \E m \in 1..n : Highest(k + 2, m)
      OBVIOUS
  <2>1. PICK m \in 1..n : Highest(k + 1, m)
      BY <1>2
  <2>2. k + 2 \in 1..n /\ \A i \in 1..(k + 2) : i \in 1..(k + 1) \/ i = k + 2
      OBVIOUS
  <2>3. CASE f[k + 2] <= f[m]
      BY <2>1, <2>2, <2>3
  <2>4. CASE f[m] <= f[k + 2]
    <3>1. \A i \in 1..(k + 2) : f[i] <= f[k + 2]
        BY <2>1, <2>2, <2>4
    <3>2. Highest(k + 2, k + 2)
        BY <3>1
    <3> QED
        BY <2>2, <3>2
  <2> QED
      BY <2>1, <2>2, <2>3, <2>4
<1> HIDE DEF T
<1>3. Nat \subseteq T
    BY <1>1, <1>2, Induction
<1>4. n - 1 \in T
    BY <1>3
<1> QED
    BY <1>4 DEF T

\* The extremes of a history are points of it that no other passes.
LEMMA Extremes ==
    ASSUME NEW s \in Seq(Nat), s # << >>
    PROVE  /\ Min(ToSet(s)) \in ToSet(s) /\ Max(ToSet(s)) \in ToSet(s)
           /\ \A x \in ToSet(s) : x \in Nat /\ Min(ToSet(s)) <= x /\ x <= Max(ToSet(s))
<1> DEFINE n == Len(s)
           S == ToSet(s)
<1>1. n \in Nat \ {0} /\ s \in [1..n -> Nat]
    OBVIOUS
<1>2. S \in SUBSET Nat /\ s[1] \in S /\ S = {s[i] : i \in 1..n}
    BY DEF ToSet
<1> HIDE DEF n, S
<1>3. \E m \in S : \A k \in S : m <= k
    BY <1>2, Smallest
<1>4. \E m \in S : \A k \in S : k <= m
  <2>1. PICK m \in 1..n : \A i \in 1..n : s[i] <= s[m]
      BY <1>1, Greatest
  <2> QED
      BY <1>2, <2>1
<1>5. Min(S) \in S /\ \A k \in S : Min(S) <= k
    BY <1>3 DEF Min
<1>6. Max(S) \in S /\ \A k \in S : k <= Max(S)
    BY <1>4 DEF Max
<1> QED
    BY <1>2, <1>5, <1>6 DEF S

LEMMA RInvHistoryEnds == RInv => HistoryEnds
<1> SUFFICES ASSUME RInv, history # << >>, NEW limit \in 2..MaxPoints
             PROVE  LET kept == Sampled(Len(history), limit)
                        part == Summary(Downsample(history, limit))
                        all  == Summary(history)
                    IN /\ part.first = all.first /\ part.last = all.last
                       /\ part.change = all.change
                       /\ all.minimum <= part.minimum /\ part.maximum <= all.maximum
                       /\ \A i, j \in DOMAIN kept : i < j => kept[i] < kept[j]
    BY DEF HistoryEnds
<1> DEFINE n    == Len(history)
           kept == Sampled(n, limit)
           down == Downsample(history, limit)
<1>1. history \in Seq(Nat)
  <2>1. history \in Seq(Prices) /\ Prices \subseteq Nat
      BY ResearchAssumption DEF RInv, ResearchTypes
  <2>2. Len(history) \in Nat /\ history \in [1..Len(history) -> Prices]
      BY <2>1
  <2>3. history \in [1..Len(history) -> Nat]
      BY <2>1, <2>2
  <2> QED
      BY <2>2, <2>3
<1>2. n \in Nat \ {0} /\ \A i \in 1..n : history[i] \in Nat
    BY <1>1
<1>3. limit \in Nat /\ limit >= 2
    BY ResearchAssumption
<1>4. PICK k \in 1..limit :
          /\ kept \in [1..k -> 1..n] /\ kept[1] = 1 /\ kept[k] = n
          /\ \A i, j \in 1..k : i < j => kept[i] < kept[j]
  <2> HIDE DEF n
  <2> QED
      BY <1>2, <1>3, SampledFacts
<1>5. down = [i \in DOMAIN kept |-> history[kept[i]]]
    BY DEF Downsample
<1> HIDE DEF kept, down
<1>6. k \in Nat \ {0}
    BY <1>3
<1>7. \A i \in 1..k : kept[i] \in 1..n /\ history[kept[i]] \in Nat
    BY <1>2, <1>4
<1>8. /\ down \in Seq(Nat) /\ Len(down) = k /\ down # << >>
      /\ \A i \in 1..k : down[i] = history[kept[i]]
  <2>1. down = [i \in 1..k |-> history[kept[i]]]
      BY <1>4, <1>5
  <2>2. down \in [1..k -> Nat] /\ \A i \in 1..k : down[i] = history[kept[i]]
      BY <1>7, <2>1
  <2>3. down \in Seq(Nat) /\ Len(down) = k
      BY <1>6, <2>2
  <2> QED
      BY <1>6, <2>2, <2>3
<1>9. ToSet(down) \subseteq ToSet(history)
  <2> SUFFICES ASSUME NEW i \in DOMAIN down PROVE down[i] \in ToSet(history)
      BY DEF ToSet
  <2>1. i \in 1..k
      BY <1>8
  <2>2. kept[i] \in DOMAIN history /\ down[i] = history[kept[i]]
      BY <1>1, <1>7, <1>8, <2>1
  <2> QED
      BY <2>2 DEF ToSet
<1>10. down[1] = history[1] /\ down[k] = history[n]
    BY <1>4, <1>6, <1>8
<1> DEFINE part == Summary(down)
           all  == Summary(history)
<1>11. /\ part.first = down[1] /\ part.last = down[k] /\ part.change = down[k] - down[1]
       /\ part.minimum = Min(ToSet(down)) /\ part.maximum = Max(ToSet(down))
    BY <1>8 DEF Summary
<1>12. /\ all.first = history[1] /\ all.last = history[n]
       /\ all.change = history[n] - history[1]
       /\ all.minimum = Min(ToSet(history)) /\ all.maximum = Max(ToSet(history))
    BY <1>1 DEF Summary
<1> HIDE DEF part, all
<1>13. all.minimum <= part.minimum /\ part.maximum <= all.maximum
  <2>1. Min(ToSet(down)) \in ToSet(history) /\ Max(ToSet(down)) \in ToSet(history)
      BY <1>8, <1>9, Extremes
  <2>2. \A x \in ToSet(history) : Min(ToSet(history)) <= x /\ x <= Max(ToSet(history))
      BY <1>1, Extremes
  <2> QED
      BY <1>11, <1>12, <2>1, <2>2
<1>14. \A i, j \in DOMAIN kept : i < j => kept[i] < kept[j]
    BY <1>4
<1> QED
    BY <1>10, <1>11, <1>12, <1>13, <1>14 DEF part, all, kept, down, n

\* downsample_points and price_history_summary, for a history of any length and any number
\* of points asked for, from two up: the sample keeps the first and the last point and the
\* order of time, reports the change of the whole, and no extreme beyond the true ones.
THEOREM SpecHistoryEnds == Spec => []HistoryEnds
    BY SpecRInv, RInvHistoryEnds, PTL

-----------------------------------------------------------------------------
(* simulate_book at the best price. *)

Level == [price : Nat, size : Nat]

Fill == [remaining : Nat, filled : Nat, notional : Nat, worst : SUBSET Nat, consumed : Nat]

Walk(requested, levels) ==
    FoldLeft(LAMBDA fill, level : Take(level, fill), Unfilled(requested), levels)

LEMMA Lesser ==
    ASSUME NEW a \in Nat, NEW b \in Nat
    PROVE  Min({a, b}) = IF a <= b THEN a ELSE b
<1> DEFINE S == {a, b}
           least == IF a <= b THEN a ELSE b
<1>1. least \in S /\ \A y \in S : least <= y
    OBVIOUS
<1>2. \A z \in S : (\A y \in S : z <= y) => z = least
    OBVIOUS
<1> HIDE DEF least
<1>3. Min(S) = CHOOSE z \in S : \A y \in S : z <= y
    BY DEF Min
<1> HIDE DEF S
<1>4. Min(S) = least
    BY <1>1, <1>2, <1>3
<1> QED
    BY <1>4 DEF S, least

\* A level gives what is asked of it as far as it goes.
LEMMA TakeFacts ==
    ASSUME NEW level \in Level, NEW fill \in Fill
    PROVE  LET q == IF fill.remaining <= level.size THEN fill.remaining ELSE level.size
               next == Take(level, fill)
           IN /\ next \in Fill /\ q \in Nat
              /\ next.remaining = fill.remaining - q /\ next.filled = fill.filled + q
              /\ next.notional = fill.notional + q * level.price
<1> DEFINE q == IF fill.remaining <= level.size THEN fill.remaining ELSE level.size
<1>1. level.price \in Nat /\ level.size \in Nat
    BY DEF Level
<1>2. /\ fill.remaining \in Nat /\ fill.filled \in Nat /\ fill.notional \in Nat
      /\ fill.worst \in SUBSET Nat /\ fill.consumed \in Nat
    BY DEF Fill
<1>3. Min({fill.remaining, level.size}) = q
    BY <1>1, <1>2, Lesser
<1>4. q \in Nat /\ q <= fill.remaining
    BY <1>1, <1>2
<1>5. q * level.price \in Nat /\ 0 * level.price = 0
    BY <1>1, <1>4, Product
<1> HIDE DEF q
<1>6. CASE q = 0
  <2>1. Take(level, fill) = fill
      BY <1>3, <1>6 DEF Take
  <2> QED
      BY <1>2, <1>4, <1>5, <1>6, <2>1 DEF q
<1>7. CASE q # 0
  <2>1. Take(level, fill) =
            [remaining |-> fill.remaining - q, filled |-> fill.filled + q,
             notional |-> fill.notional + q * level.price,
             worst |-> {level.price}, consumed |-> fill.consumed + 1]
      BY <1>3, <1>7 DEF Take
  <2>2. /\ fill.remaining - q \in Nat /\ fill.filled + q \in Nat
        /\ fill.notional + q * level.price \in Nat
        /\ {level.price} \in SUBSET Nat /\ fill.consumed + 1 \in Nat
      BY <1>1, <1>2, <1>4, <1>5
  <2>3. Take(level, fill) \in Fill
      BY <2>1, <2>2 DEF Fill
  <2> QED
      BY <1>4, <2>1, <2>3 DEF q
<1> QED
    BY <1>6, <1>7

LEMMA UnfilledType == ASSUME NEW c \in Nat PROVE Unfilled(c) \in Fill
    BY DEF Unfilled, Fill

\* The levels, one after the other.
LEMMA WalkRuns ==
    ASSUME NEW c \in Nat, NEW levels \in Seq(Level)
    PROVE  \E g \in [0..Len(levels) -> Fill] :
              /\ g[0] = Unfilled(c)
              /\ \A k \in 1..Len(levels) : g[k] = Take(levels[k], g[k - 1])
              /\ Walk(c, levels) = g[Len(levels)]
<1> DEFINE n == Len(levels)
           step == [p \in Fill \X (1..n) |-> Take(levels[p[2]], p[1])]
           Is(it) == it = [s \in SUBSET (1..n) |->
                              IF s = {} THEN Unfilled(c)
                              ELSE Take(levels[Max(s)], it[s \ {Max(s)}])]
           it == CHOOSE f : Is(f)
           run == [k \in 0..n |-> it[1..k]]
<1>1. /\ n \in Nat /\ DOMAIN levels = 1..n /\ Unfilled(c) \in Fill
      /\ \A k \in 1..n : levels[k] \in Level
    BY UnfilledType
<1>2. step \in [Fill \X (1..n) -> Fill]
    BY <1>1, TakeFacts
<1>3. \E f : Is(f)
  <2>1. PICK f : FoldsUpto(f, n, Fill, Unfilled(c), step)
    <3> HIDE DEF step, n
    <3> QED
        BY <1>1, <1>2, FoldExists
  <2>2. ASSUME NEW s \in SUBSET (1..n), s # {}
        PROVE  f[s] = Take(levels[Max(s)], f[s \ {Max(s)}])
    <3>1. Max(s) \in 1..n /\ s \ {Max(s)} \in SUBSET (1..n)
        BY <1>1, <2>2, MaxInSet
    <3> QED
        BY <2>1, <2>2, <3>1 DEF FoldsUpto
  <2>3. f = [s \in SUBSET (1..n) |->
                 IF s = {} THEN Unfilled(c) ELSE Take(levels[Max(s)], f[s \ {Max(s)}])]
      BY <2>1, <2>2 DEF FoldsUpto
  <2> QED
      BY <2>3
<1>4. Is(it)
  <2> HIDE DEF Is
  <2> QED
      BY <1>3
<1>5. Walk(c, levels) = it[1..n]
    BY <1>1 DEF Walk, FoldLeft, MapThenFoldSet
<1>6. RunsTo(run, n, Fill, Unfilled(c), step, it[1..n])
  <2>1. it[{}] = Unfilled(c)
    <3> HIDE DEF it
    <3> QED
        BY <1>4
  <2>2. ASSUME NEW s \in SUBSET (1..n), s # {}, it[s \ {Max(s)}] \in Fill
        PROVE  it[s] = step[<<it[s \ {Max(s)}], Max(s)>>]
    <3>1. Max(s) \in 1..n
        BY <1>1, <2>2, MaxInSet
    <3> HIDE DEF it
    <3> QED
        BY <1>4, <2>2, <3>1
  <2> HIDE DEF it, step, n, Is
  <2> QED
      BY <1>1, <1>2, <2>1, <2>2, FoldRuns
<1> HIDE DEF it, run
<1>7. \A k \in 1..n : run[k] = Take(levels[k], run[k - 1])
  <2> SUFFICES ASSUME NEW k \in 1..n PROVE run[k] = Take(levels[k], run[k - 1])
      OBVIOUS
  <2>1. run[k - 1] \in Fill
      BY <1>1, <1>6 DEF RunsTo
  <2> QED
      BY <1>6, <2>1 DEF RunsTo
<1> QED
    BY <1>5, <1>6, <1>7 DEF RunsTo

\* Levels that begin with one price: what the last of these can give alone is filled at
\* this price.
LEMMA FillsAtOnePrice ==
    ASSUME NEW c \in Nat, NEW levels \in Seq(Level), NEW k \in 1..Len(levels), NEW p \in Nat,
           \A i \in 1..k : levels[i].price = p, c <= levels[k].size
    PROVE  Walk(c, levels).filled = c /\ Walk(c, levels).notional = c * p
<1> DEFINE n == Len(levels)
<1>1. n \in Nat /\ \A i \in 1..n : levels[i] \in Level
    OBVIOUS
<1>2. PICK g \in [0..n -> Fill] :
          /\ g[0] = Unfilled(c)
          /\ \A i \in 1..n : g[i] = Take(levels[i], g[i - 1])
          /\ Walk(c, levels) = g[n]
    BY WalkRuns
<1> HIDE DEF n
<1> DEFINE Good(i) ==
               /\ g[i].remaining + g[i].filled = c
               /\ g[i].notional = g[i].filled * p
               /\ i >= k => g[i].remaining = 0
           T == {i \in Nat : i <= n => Good(i)}
<1>3. 0 \in T
  <2>1. g[0].remaining = c /\ g[0].filled = 0 /\ g[0].notional = 0
      BY <1>2 DEF Unfilled
  <2>2. Good(0)
      BY <2>1
  <2> QED
      BY <2>2
<1>4. ASSUME NEW i \in Nat, i \in T PROVE i + 1 \in T
  <2> SUFFICES ASSUME i + 1 <= n PROVE Good(i + 1)
      OBVIOUS
  <2> DEFINE fill == g[i]
             level == levels[i + 1]
             next == g[i + 1]
             q == IF fill.remaining <= level.size THEN fill.remaining ELSE level.size
  <2>1. fill \in Fill /\ level \in Level /\ next = Take(level, fill) /\ Good(i)
      BY <1>1, <1>2, <1>4
  <2>2. /\ q \in Nat /\ next.remaining = fill.remaining - q /\ next.filled = fill.filled + q
        /\ next.notional = fill.notional + q * level.price
      BY <2>1, TakeFacts
  <2>3. /\ fill.remaining \in Nat /\ fill.filled \in Nat /\ fill.notional \in Nat
        /\ level.size \in Nat
      BY <2>1 DEF Fill, Level
  <2>4. i + 1 <= k => level.price = p
      OBVIOUS
  <2>5. i + 1 = k => c <= level.size
      OBVIOUS
  <2>6. /\ fill.remaining + fill.filled = c /\ fill.notional = fill.filled * p
        /\ i >= k => fill.remaining = 0
      BY <2>1
  <2>7. q = IF fill.remaining <= level.size THEN fill.remaining ELSE level.size
      OBVIOUS
  <2> HIDE DEF q, fill, level, next
  <2>8. next.remaining + next.filled = c
      BY <2>2, <2>3, <2>6
  <2>9. i + 1 >= k => next.remaining = 0
      BY <2>2, <2>3, <2>5, <2>6, <2>7
  <2>10. next.notional = next.filled * p
    <3>1. CASE i + 1 <= k
        BY <2>2, <2>3, <2>4, <2>6, <3>1
    <3>2. CASE i >= k
      <4>1. q = 0
          BY <2>3, <2>6, <2>7, <3>2
      <4>2. level.price \in Nat
          BY <2>1 DEF Level
      <4> QED
          BY <2>2, <2>3, <2>6, <4>1, <4>2
    <3> QED
        BY <3>1, <3>2
  <2> QED
      BY <2>8, <2>9, <2>10 DEF next
<1> HIDE DEF T
<1>5. Nat \subseteq T
    BY <1>3, <1>4, Induction
<1>6. Good(n)
    BY <1>1, <1>5 DEF T
<1>7. n >= k /\ g[n] \in Fill
    BY <1>1, <1>2 DEF n
<1>8. g[n].filled \in Nat /\ g[n].remaining = 0
    BY <1>6, <1>7 DEF Fill
<1>9. g[n].filled = c /\ g[n].notional = c * p
  <2>1. g[n].remaining + g[n].filled = c /\ g[n].notional = g[n].filled * p
      BY <1>6
  <2> HIDE DEF Good
  <2>2. g[n].filled = c
      BY <1>8, <2>1
  <2> QED
      BY <2>1, <2>2
<1> QED
    BY <1>2, <1>9

\* In the order of keys that tell prices apart, the levels at the best price come first.
LEMMA BestComesFirst ==
    ASSUME NEW levels \in Seq(Level), NEW S, S = DOMAIN levels, NEW key \in [S -> Int],
           NEW q \in ToSet(levels),
           \A i, j \in S : levels[j] = q /\ key[i] <= key[j] => levels[i].price = q.price
    PROVE  \E k \in 1..Len(Sorted(levels, key)) :
               /\ Sorted(levels, key)[k] = q
               /\ \A i \in 1..k : Sorted(levels, key)[i].price = q.price
<1> DEFINE t == Sorted(levels, key)
           n == Len(levels)
<1>1. t \in Seq(Level) /\ Len(t) = n /\ ToSet(t) = ToSet(levels)
    BY SortedFacts
<1>2. PICK at : Places(at, levels, S, key)
    BY SortedFacts
<1>3. n \in Nat /\ DOMAIN t = 1..n
    BY <1>1
<1>4. Cardinality(S) = n
  <2> SUFFICES ASSUME NEW m \in Nat PROVE Cardinality(1..m) = m
      BY <1>3
  <2> QED
      BY FS_Interval
<1>5. /\ at \in [1..n -> S]
      /\ \A i \in 1..n : t[i] = levels[at[i]]
      /\ \A i, j \in 1..n : i < j => key[at[i]] <= key[at[j]]
    BY <1>2, <1>4 DEF Places, Sorted
<1> HIDE DEF t, n
<1>6. PICK k \in 1..n : t[k] = q
    BY <1>1, <1>3 DEF ToSet
<1>7. ASSUME NEW i \in 1..k PROVE t[i].price = q.price
  <2>1. i \in 1..n /\ (i = k \/ i < k)
      BY <1>3
  <2>2. CASE i = k
      BY <1>6, <2>2
  <2>3. CASE i < k
    <3>1. at[i] \in S /\ at[k] \in S /\ key[at[i]] <= key[at[k]] /\ levels[at[k]] = q
        BY <1>5, <1>6, <2>1, <2>3
    <3> QED
        BY <1>5, <2>1, <3>1
  <2> QED
      BY <2>1, <2>2, <2>3
<1> QED
    BY <1>1, <1>6, <1>7 DEF t

-----------------------------------------------------------------------------
(* The sums of a basket, and the orders that make them true. *)

LEMMA BookSides ==
    ASSUME NEW book \in Books
    PROVE  book.asks \in Seq(Level) /\ book.bids \in Seq(Level)
    BY ResearchAssumption DEF Level

\* A purchase of no more than a best ask shows is filled at its price.
LEMMA BuyFills ==
    ASSUME NEW book \in Books, NEW q \in BestAsk(book), NEW c \in Nat, c <= q.size
    PROVE  /\ Simulate(book, "buy", c).filled = c
           /\ Simulate(book, "buy", c).notional = c * q.price
<1> DEFINE levels == book.asks
           S == DOMAIN levels
           key == [i \in S |-> levels[i].price]
           t == Sorted(levels, key)
<1>1. levels \in Seq(Level)
    BY BookSides
<1>2. \A i \in S : levels[i] \in Level /\ levels[i] \in ToSet(levels)
    BY <1>1 DEF ToSet
<1>3. key \in [S -> Int]
    BY <1>2 DEF Level
<1>4. q \in ToSet(levels) /\ q \in Level /\ \A i \in S : q.price <= levels[i].price
    BY <1>1, <1>2 DEF BestAsk, ToSet
<1>5. \A i, j \in S : levels[j] = q /\ key[i] <= key[j] => levels[i].price = q.price
    BY <1>2, <1>4 DEF Level
<1>6. Simulate(book, "buy", c) = Walk(c, t)
    BY DEF Simulate, Walk, Executable, CheapestFirst
<1>7. S = DOMAIN levels
    OBVIOUS
<1> HIDE DEF key, S, levels
<1>8. t \in Seq(Level)
    BY <1>1, <1>3, <1>7, SortedFacts
<1>9. PICK k \in 1..Len(t) : t[k] = q /\ \A i \in 1..k : t[i].price = q.price
    BY <1>1, <1>3, <1>4, <1>5, <1>7, BestComesFirst
<1> HIDE DEF t
<1>10. q.price \in Nat /\ c <= t[k].size
    BY <1>4, <1>9 DEF Level
<1>11. Walk(c, t).filled = c /\ Walk(c, t).notional = c * q.price
    BY <1>8, <1>9, <1>10, FillsAtOnePrice
<1> QED
    BY <1>6, <1>11

\* A sale of no more than a best bid shows, likewise.
LEMMA SellFills ==
    ASSUME NEW book \in Books, NEW q \in BestBid(book), NEW c \in Nat, c <= q.size
    PROVE  /\ Simulate(book, "sell", c).filled = c
           /\ Simulate(book, "sell", c).notional = c * q.price
<1> DEFINE levels == book.bids
           S == DOMAIN levels
           key == [i \in S |-> -levels[i].price]
           t == Sorted(levels, key)
<1>1. levels \in Seq(Level)
    BY BookSides
<1>2. \A i \in S : levels[i] \in Level /\ levels[i] \in ToSet(levels)
    BY <1>1 DEF ToSet
<1>3. key \in [S -> Int]
    BY <1>2 DEF Level
<1>4. q \in ToSet(levels) /\ q \in Level /\ \A i \in S : q.price >= levels[i].price
    BY <1>1, <1>2 DEF BestBid, ToSet
<1>5. \A i, j \in S : levels[j] = q /\ key[i] <= key[j] => levels[i].price = q.price
    BY <1>2, <1>4 DEF Level
<1>6. Simulate(book, "sell", c) = Walk(c, t)
    BY DEF Simulate, Walk, Executable, DearestFirst
<1>7. S = DOMAIN levels
    OBVIOUS
<1> HIDE DEF key, S, levels
<1>8. t \in Seq(Level)
    BY <1>1, <1>3, <1>7, SortedFacts
<1>9. PICK k \in 1..Len(t) : t[k] = q /\ \A i \in 1..k : t[i].price = q.price
    BY <1>1, <1>3, <1>4, <1>5, <1>7, BestComesFirst
<1> HIDE DEF t
<1>10. q.price \in Nat /\ c <= t[k].size
    BY <1>4, <1>9 DEF Level
<1>11. Walk(c, t).filled = c /\ Walk(c, t).notional = c * q.price
    BY <1>8, <1>9, <1>10, FillsAtOnePrice
<1> QED
    BY <1>6, <1>11

\* A quote of each book that an order of up to its size gets.
Quotes(quotes, books, side) ==
    /\ quotes \in Seq(SUBSET Level) /\ DOMAIN quotes = DOMAIN books
    /\ \A i \in DOMAIN quotes : \A q \in quotes[i], c \in Nat : c <= q.size =>
           /\ Simulate(books[i], side, c).filled = c
           /\ Simulate(books[i], side, c).notional = c * q.price

\* The sum and the capacity of such quotes are those of orders the books fill.
LEMMA SumsHold ==
    ASSUME NEW quotes, NEW books, NEW side, Quotes(quotes, books, side), quotes # << >>
    PROVE  \A sum \in PriceSum(quotes) :
               /\ \E c \in Capacity(quotes) :
                     \A i \in DOMAIN books : Simulate(books[i], side, c).filled = c
               /\ \A c \in Capacity(quotes) :
                     Notionals(books, side, c) = c * sum
<1> SUFFICES ASSUME NEW sum \in PriceSum(quotes)
             PROVE  /\ \E c \in Capacity(quotes) :
                          \A i \in DOMAIN books : Simulate(books[i], side, c).filled = c
                    /\ \A c \in Capacity(quotes) :
                          Notionals(books, side, c) = c * sum
    OBVIOUS
<1>1. Complete(quotes) /\ sum = SumFunction([i \in DOMAIN quotes |-> The(quotes[i]).price])
    BY DEF PriceSum
<1> DEFINE S == DOMAIN quotes
           sizes == {The(quotes[i]).size : i \in S}
           c == Min(sizes)
           v == [i \in S |-> The(quotes[i]).price]
           w == [i \in S |-> Simulate(books[i], side, c).notional]
<1>2. quotes \in Seq(SUBSET Level) /\ S = DOMAIN books
    BY DEF Quotes
<1>3. S # {} /\ IsFiniteSet(S)
  <2>1. Len(quotes) \in Nat /\ Len(quotes) # 0 /\ S = 1..Len(quotes)
      BY <1>2
  <2>2. ASSUME NEW m \in Nat PROVE IsFiniteSet(1..m)
      BY FS_Interval
  <2> QED
      BY <2>1, <2>2
<1>4. \A i \in S : The(quotes[i]) \in quotes[i] /\ The(quotes[i]) \in Level
    BY <1>1, <1>2 DEF Complete, The
<1>5. \A i \in S : The(quotes[i]).price \in Nat /\ The(quotes[i]).size \in Nat
    BY <1>4 DEF Level
<1>6. c \in Nat /\ \A i \in S : c <= The(quotes[i]).size
  <2>1. sizes \in SUBSET Nat /\ sizes # {}
      BY <1>3, <1>5
  <2>2. \A i \in S : The(quotes[i]).size \in sizes
      OBVIOUS
  <2> HIDE DEF sizes
  <2>3. \E m \in sizes : \A k \in sizes : m <= k
      BY <2>1, Smallest
  <2>4. c \in sizes /\ \A k \in sizes : c <= k
      BY <2>3 DEF Min
  <2> QED
      BY <2>1, <2>2, <2>4
<1>7. Capacity(quotes) = {c}
    BY <1>1 DEF Capacity
<1> HIDE DEF c
<1>8. ASSUME NEW i \in S
      PROVE  /\ Simulate(books[i], side, c).filled = c
             /\ Simulate(books[i], side, c).notional = c * The(quotes[i]).price
    BY <1>4, <1>6 DEF Quotes
<1>9. S = DOMAIN quotes
    OBVIOUS
<1>10. v \in [S -> Nat] /\ \A i \in S : v[i] = The(quotes[i]).price
    BY <1>5
<1>11. /\ w \in [S -> Nat]
       /\ \A i \in S : w[i] = Simulate(books[i], side, c).notional /\ w[i] = c * v[i]
  <2>1. \A i \in S : w[i] = Simulate(books[i], side, c).notional /\ w[i] = c * v[i]
      BY <1>8
  <2>2. \A i \in S : v[i] \in Nat
      BY <1>10
  <2> HIDE DEF v
  <2>3. \A i \in S : w[i] \in Nat
    <3> SUFFICES ASSUME NEW i \in S PROVE c * v[i] \in Nat
        BY <2>1
    <3> QED
        BY <1>6, <2>2, Product
  <2> QED
      BY <2>1, <2>3
<1>12. sum = SumFunctionOnSet(v, S)
    BY <1>1 DEF SumFunction
<1>13. Notionals(books, side, c) = SumFunctionOnSet(w, S)
    BY <1>2 DEF Notionals, SumFunction
<1> HIDE DEF S, v, w
<1>14. SumFunctionOnSet(w, S) = c * SumFunctionOnSet(v, S)
  <2>1. (\A x \in S : v[x] \in Nat) /\ \A x \in S : w[x] \in Nat
      BY <1>10, <1>11
  <2>2. S \in SUBSET S /\ \A x \in S : w[x] = c * v[x]
      BY <1>11
  <2> QED
      BY <1>3, <1>6, <2>1, <2>2, SumTimes
<1>15. Notionals(books, side, c) = c * sum
    BY <1>12, <1>13, <1>14
<1>16. \A i \in DOMAIN books : Simulate(books[i], side, c).filled = c
    BY <1>2, <1>8
<1> QED
    BY <1>7, <1>15, <1>16

LEMMA QuotesHold ==
    ASSUME NEW books \in Seq(Books), books # << >>
    PROVE  Holds(QuotesOf(books), books)
<1> DEFINE asks == [i \in DOMAIN books |-> BestAsk(books[i])]
           bids == [i \in DOMAIN books |-> BestBid(books[i])]
           basket == QuotesOf(books)
<1>1. \A i \in DOMAIN books : books[i] \in Books
    OBVIOUS
<1>2. ASSUME NEW book \in Books PROVE BestAsk(book) \in SUBSET Level /\ BestBid(book) \in SUBSET Level
  <2>1. book.asks \in Seq(Level) /\ book.bids \in Seq(Level)
      BY BookSides
  <2>2. ToSet(book.asks) \subseteq Level /\ ToSet(book.bids) \subseteq Level
      BY <2>1 DEF ToSet
  <2> QED
      BY <2>2 DEF BestAsk, BestBid
<1>3. Len(books) \in Nat /\ DOMAIN books = 1..Len(books) /\ 1 \in DOMAIN books
    OBVIOUS
<1>4. Quotes(asks, books, "buy") /\ asks # << >>
  <2>1. asks \in Seq(SUBSET Level) /\ DOMAIN asks = DOMAIN books
      BY <1>1, <1>2, <1>3
  <2>2. ASSUME NEW i \in DOMAIN asks, NEW q \in asks[i], NEW c \in Nat, c <= q.size
        PROVE  /\ Simulate(books[i], "buy", c).filled = c
               /\ Simulate(books[i], "buy", c).notional = c * q.price
    <3>1. books[i] \in Books /\ q \in BestAsk(books[i])
        BY <1>1, <2>2
    <3> QED
        BY <2>2, <3>1, BuyFills
  <2>3. asks # << >>
      BY <1>3, <2>1
  <2> QED
      BY <2>1, <2>2, <2>3 DEF Quotes
<1>5. Quotes(bids, books, "sell") /\ bids # << >>
  <2>1. bids \in Seq(SUBSET Level) /\ DOMAIN bids = DOMAIN books
      BY <1>1, <1>2, <1>3
  <2>2. ASSUME NEW i \in DOMAIN bids, NEW q \in bids[i], NEW c \in Nat, c <= q.size
        PROVE  /\ Simulate(books[i], "sell", c).filled = c
               /\ Simulate(books[i], "sell", c).notional = c * q.price
    <3>1. books[i] \in Books /\ q \in BestBid(books[i])
        BY <1>1, <2>2
    <3> QED
        BY <2>2, <3>1, SellFills
  <2>3. bids # << >>
      BY <1>3, <2>1
  <2> QED
      BY <2>1, <2>2, <2>3 DEF Quotes
<1>6. /\ basket.askSum = PriceSum(asks) /\ basket.buyable = Capacity(asks)
      /\ basket.bidSum = PriceSum(bids) /\ basket.sellable = Capacity(bids)
    BY DEF QuotesOf, Basket
<1> HIDE DEF asks, bids, basket
<1>7. \A sum \in PriceSum(asks) :
          /\ \E c \in Capacity(asks) :
                \A i \in DOMAIN books : Simulate(books[i], "buy", c).filled = c
          /\ \A c \in Capacity(asks) :
                Notionals(books, "buy", c) = c * sum
    BY <1>4, SumsHold
<1>8. \A sum \in PriceSum(bids) :
          /\ \E c \in Capacity(bids) :
                \A i \in DOMAIN books : Simulate(books[i], "sell", c).filled = c
          /\ \A c \in Capacity(bids) :
                Notionals(books, "sell", c) = c * sum
    BY <1>5, SumsHold
<1>9. Holds(basket, books)
    BY <1>6, <1>7, <1>8 DEF Holds
<1> QED
    BY <1>9 DEF basket

\* The books of a market both of whose outcomes have one are books that came.
LEMMA PairsAreBooks ==
    ASSUME RInv, NEW m \in Markets, NEW pair \in Pair(m)
    PROVE  pair \in Seq(Books) /\ pair # << >>
<1> DEFINE s == Outcomes[m]
           S == {i \in DOMAIN s : BookOf(s[i]) # {}}
           key == [i \in S |-> i]
           rows == ScanRows(m)
<1>1. s \in Seq(Tokens \cup {NoToken}) /\ S \in SUBSET (DOMAIN s)
    BY ResearchAssumption
<1>2. \A i \in DOMAIN s : i \in Int
    BY <1>1
<1>3. key \in [S -> Int]
    BY <1>2
<1>4. rows = Arranged(s, S, key)
    BY DEF ScanRows, Kept
<1>5. \A i \in S : BookOf(s[i]) # {}
    OBVIOUS
<1>6. Len(rows) = 2 /\ pair = [i \in 1..2 |-> CHOOSE book \in BookOf(rows[i]) : TRUE]
    BY DEF Pair
<1> HIDE DEF s, S, key, rows
<1>7. rows \in Seq(Tokens \cup {NoToken}) /\ ToSet(rows) = {s[i] : i \in S}
    BY <1>1, <1>3, <1>4, ArrangedFacts
<1>8. \A i \in 1..2 : BookOf(rows[i]) # {}
  <2>1. \A i \in 1..2 : rows[i] \in ToSet(rows)
      BY <1>6, <1>7 DEF ToSet
  <2> QED
      BY <1>5, <1>7, <2>1
<1>9. ASSUME NEW token PROVE BookOf(token) \subseteq Books
  <2>1. \A i \in DOMAIN arrived : arrived[i].book \in Books \cup {Failed}
    <3>1. arrived \in Seq(Answer)
        BY DEF RInv, ResearchTypes, Answer
    <3>2. \A i \in DOMAIN arrived : arrived[i] \in Answer
        BY <3>1
    <3> QED
        BY <3>2 DEF Answer
  <2> QED
      BY <2>1 DEF BookOf
<1>10. \A i \in 1..2 : (CHOOSE book \in BookOf(rows[i]) : TRUE) \in Books
    BY <1>8, <1>9
<1>11. pair \in [1..2 -> Books]
    BY <1>6, <1>10
<1>12. ASSUME NEW n \in Nat, NEW f \in [1..n -> Books] PROVE f \in Seq(Books) /\ Len(f) = n
    OBVIOUS
<1>13. Len(pair) = 2 /\ pair \in Seq(Books)
    BY <1>11, <1>12
<1> QED
    BY <1>13

LEMMA RInvBasketExecutable == RInv => BasketExecutable
<1> SUFFICES ASSUME RInv, phase = "done" PROVE BasketExecutable
    BY DEF BasketExecutable
<1>1. ASSUME tool = "event", NEW basket \in EventBasket PROVE Holds(basket, EventLegs)
  <2>1. /\ Len(EventLegs) >= 2 /\ \A i \in DOMAIN EventLegs : EventLegs[i] # Failed
        /\ basket = QuotesOf(EventLegs)
      BY DEF EventBasket, EligibleForBasket
  <2>2. EventLegs \in Seq(Books \cup {Failed})
      BY <1>1, LegsOfEvent
  <2>3. EventLegs \in Seq(Books) /\ EventLegs # << >>
      BY <2>1, <2>2
  <2> QED
      BY <2>1, <2>3, QuotesHold
<1>2. ASSUME NEW m \in Markets, NEW pair \in Pair(m) PROVE Holds(QuotesOf(pair), pair)
    BY PairsAreBooks, QuotesHold
<1> QED
    BY <1>1, <1>2 DEF BasketExecutable

\* decimal_sum and decimal_min over the best quotes, for any books, events and markets: a
\* reported sum is what orders of the reported capacity on every book come to, filled whole.
THEOREM SpecBasketExecutable == Spec => []BasketExecutable
    BY SpecRInv, RInvBasketExecutable, PTL

-----------------------------------------------------------------------------
(* simulate_book over a whole side of a book. *)

\* What an order for c takes of levels walked one by one: q[k] of the k-th, all of it
\* before the b-th and nothing after.
Takes(q, b, c, t, n) ==
    /\ \A k \in 1..n : /\ q[k] \in Nat /\ q[k] <= t[k].size
                       /\ k < b => q[k] = t[k].size
                       /\ k > b => q[k] = 0
    /\ b \in 0..n
    /\ Walk(c, t).filled = SumUpto(q, n)
    /\ Walk(c, t).notional = SumUpto([k \in 1..n |-> q[k] * t[k].price], n)
    /\ Walk(c, t).remaining \in Nat /\ Walk(c, t).remaining + Walk(c, t).filled = c
    /\ Walk(c, t).remaining = 0 \/ \A k \in 1..n : q[k] = t[k].size

LEMMA WalkTakes ==
    ASSUME NEW c \in Nat, NEW t \in Seq(Level), NEW n, n = Len(t)
    PROVE  \E q, b : Takes(q, b, c, t, n)
<1>1. n \in Nat /\ \A k \in 1..n : t[k] \in Level /\ t[k].price \in Nat /\ t[k].size \in Nat
  <2>1. n \in Nat /\ \A k \in 1..n : t[k] \in Level
      OBVIOUS
  <2> QED
      BY <2>1 DEF Level
<1>2. PICK g \in [0..n -> Fill] :
          /\ g[0] = Unfilled(c)
          /\ \A k \in 1..n : g[k] = Take(t[k], g[k - 1])
          /\ Walk(c, t) = g[n]
    BY WalkRuns
<1> DEFINE q == [k \in 1..n |-> IF g[k - 1].remaining <= t[k].size
                                THEN g[k - 1].remaining ELSE t[k].size]
           worth == [k \in 1..n |-> q[k] * t[k].price]
<1>3. ASSUME NEW k \in 0..n
      PROVE  g[k] \in Fill /\ g[k].remaining \in Nat /\ g[k].filled \in Nat /\ g[k].notional \in Nat
    BY <1>2 DEF Fill
<1>4. ASSUME NEW k \in 1..n
      PROVE  /\ q[k] \in Nat /\ q[k] <= t[k].size
             /\ q[k] < t[k].size => q[k] = g[k - 1].remaining
             /\ g[k].remaining = g[k - 1].remaining - q[k]
             /\ g[k].filled = g[k - 1].filled + q[k]
             /\ g[k].notional = g[k - 1].notional + q[k] * t[k].price
  <2>1. k - 1 \in 0..n
      BY <1>1
  <2>2. g[k - 1] \in Fill /\ t[k] \in Level /\ g[k] = Take(t[k], g[k - 1])
      BY <1>1, <1>2, <1>3, <2>1
  <2>3. q[k] = IF g[k - 1].remaining <= t[k].size THEN g[k - 1].remaining ELSE t[k].size
      OBVIOUS
  <2>4. g[k - 1].remaining \in Nat /\ t[k].size \in Nat
      BY <1>1, <1>3, <2>1
  <2> HIDE DEF q
  <2>5. /\ q[k] \in Nat
        /\ g[k].remaining = g[k - 1].remaining - q[k]
        /\ g[k].filled = g[k - 1].filled + q[k]
        /\ g[k].notional = g[k - 1].notional + q[k] * t[k].price
      BY <2>2, <2>3, TakeFacts
  <2> QED
      BY <2>3, <2>4, <2>5
<1>5. \A k \in 1..n : worth[k] = q[k] * t[k].price
    OBVIOUS
<1> HIDE DEF q, worth
<1>6. \A k \in 1..n : worth[k] \in Nat
  <2> SUFFICES ASSUME NEW k \in 1..n PROVE q[k] * t[k].price \in Nat
      BY <1>5
  <2> QED
      BY <1>1, <1>4, Product
<1> DEFINE Until(b, k) ==
               \A j \in 1..k : (j < b => q[j] = t[j].size) /\ (j > b => q[j] = 0)
           Good(k) ==
               /\ g[k].remaining + g[k].filled = c
               /\ g[k].filled = SumUpto(q, k)
               /\ g[k].notional = SumUpto(worth, k)
               /\ g[k].remaining = 0 \/ \A j \in 1..k : q[j] = t[j].size
               /\ \E b \in 0..k : Until(b, k)
           T == {k \in Nat : k <= n => Good(k)}
<1> HIDE DEF Good
<1>7. 0 \in T
  <2>1. g[0].remaining = c /\ g[0].filled = 0 /\ g[0].notional = 0
      BY <1>2 DEF Unfilled
  <2>2. SumUpto(q, 0) = 0 /\ SumUpto(worth, 0) = 0
    <3>1. \A k \in 1..n : q[k] \in Nat
        BY <1>4
    <3> QED
        BY <1>1, <1>6, <3>1, SumNext
  <2>3. \A j \in 1..0 : FALSE
      OBVIOUS
  <2>4. Until(0, 0) /\ 0 \in 0..0
      BY <2>3
  <2> HIDE DEF Until
  <2> QED
      BY <1>1, <2>1, <2>2, <2>3, <2>4 DEF Good
<1>8. ASSUME NEW k \in Nat, k \in T PROVE k + 1 \in T
  <2> SUFFICES ASSUME k + 1 <= n PROVE Good(k + 1)
      OBVIOUS
  <2>1. Good(k)
      BY <1>1, <1>8
  <2>2. /\ k + 1 \in 1..n /\ k \in 0..n /\ (k + 1) - 1 = k
        /\ \A j \in 1..(k + 1) : j \in 1..k \/ j = k + 1
      BY <1>1
  <2>3. /\ SumUpto(q, k + 1) = SumUpto(q, k) + q[k + 1]
        /\ SumUpto(worth, k + 1) = SumUpto(worth, k) + q[k + 1] * t[k + 1].price
    <3>1. \A j \in 1..n : q[j] \in Nat
        BY <1>4
    <3>2. SumUpto(worth, k + 1) = SumUpto(worth, k) + worth[k + 1]
        BY <1>1, <1>6, SumNext
    <3>3. worth[k + 1] = q[k + 1] * t[k + 1].price
        BY <1>5, <2>2
    <3> QED
        BY <1>1, <3>1, <3>2, <3>3, SumNext
  <2>4. /\ q[k + 1] \in Nat /\ q[k + 1] <= t[k + 1].size
        /\ q[k + 1] < t[k + 1].size => q[k + 1] = g[k].remaining
        /\ g[k + 1].remaining = g[k].remaining - q[k + 1]
        /\ g[k + 1].filled = g[k].filled + q[k + 1]
        /\ g[k + 1].notional = g[k].notional + q[k + 1] * t[k + 1].price
      BY <1>4, <2>2
  <2>5. /\ g[k].remaining \in Nat /\ g[k].filled \in Nat /\ g[k + 1].remaining \in Nat
        /\ t[k + 1].size \in Nat
      BY <1>1, <1>3, <2>2
  <2> HIDE DEF Until, T
  <2>6. /\ g[k + 1].remaining + g[k + 1].filled = c
        /\ g[k + 1].filled = SumUpto(q, k + 1)
        /\ g[k + 1].notional = SumUpto(worth, k + 1)
      BY <2>1, <2>3, <2>4, <2>5 DEF Good
  <2>7. CASE g[k].remaining = 0
    <3>1. q[k + 1] = 0 /\ g[k + 1].remaining = 0
        BY <2>4, <2>5, <2>7
    <3>2. PICK b \in 0..k : Until(b, k)
        BY <2>1 DEF Good
    <3>3. Until(b, k + 1) /\ b \in 0..(k + 1)
        BY <2>2, <3>1, <3>2 DEF Until
    <3> QED
        BY <2>6, <3>1, <3>3 DEF Good
  <2>8. CASE \A j \in 1..k : q[j] = t[j].size
    <3>1. Until(k + 1, k + 1) /\ k + 1 \in 0..(k + 1)
        BY <2>2, <2>8 DEF Until
    <3>2. g[k + 1].remaining = 0 \/ q[k + 1] = t[k + 1].size
        BY <1>1, <2>2, <2>4, <2>5
    <3>3. g[k + 1].remaining = 0 \/ \A j \in 1..(k + 1) : q[j] = t[j].size
        BY <2>2, <2>8, <3>2
    <3> QED
        BY <2>6, <3>1, <3>3 DEF Good
  <2> QED
      BY <2>1, <2>7, <2>8 DEF Good
<1>9. Good(n)
  <2>1. Nat \subseteq T
    <3> HIDE DEF T
    <3> QED
        BY <1>7, <1>8, Induction
  <2>2. n \in T
      BY <1>1, <2>1
  <2> QED
      BY <1>1, <2>2
<1>10. PICK b \in 0..n : Until(b, n)
    BY <1>9 DEF Good
<1>11. worth = [k \in 1..n |-> q[k] * t[k].price]
    BY DEF worth
<1>12. n \in 0..n
    BY <1>1
<1> HIDE DEF worth
<1>13. Takes(q, b, c, t, n)
    BY <1>2, <1>3, <1>4, <1>9, <1>10, <1>11, <1>12 DEF Takes, Good
<1> QED
    BY <1>13

\* What an order for c takes of levels in the order of their keys: r[i] of the i-th, all
\* of it below the key of the j-th and nothing above.
TakenOf(r, j, c, levels, S, key, fill) ==
    /\ \A i \in S : /\ r[i] \in Nat /\ r[i] <= levels[i].size
                    /\ key[i] < key[j] => r[i] = levels[i].size
                    /\ key[i] > key[j] => r[i] = 0
    /\ S # {} => j \in S
    /\ fill.filled = SumFunctionOnSet(r, S)
    /\ fill.notional = SumFunctionOnSet([i \in S |-> r[i] * levels[i].price], S)
    /\ fill.remaining \in Nat /\ fill.remaining + fill.filled = c
    /\ fill.remaining = 0 \/ \A i \in S : r[i] = levels[i].size

LEMMA LevelIndices ==
    ASSUME NEW levels \in Seq(Level), NEW S, S = DOMAIN levels
    PROVE  /\ IsFiniteSet(S) /\ Cardinality(S) = Len(levels) /\ Len(levels) \in Nat
           /\ \A i \in S : levels[i] \in Level /\ levels[i].price \in Nat /\ levels[i].size \in Nat
<1>1. Len(levels) \in Nat /\ S = 1..Len(levels) /\ \A i \in S : levels[i] \in Level
    OBVIOUS
<1>2. ASSUME NEW n \in Nat PROVE IsFiniteSet(1..n) /\ Cardinality(1..n) = n
    BY FS_Interval
<1> QED
    BY <1>1, <1>2 DEF Level

\* Levels in an order: the k-th is the at[k]-th of a book.
OrderOf(at, t, n, levels, S, key) ==
    /\ \A i \in S : levels[i].price \in Nat /\ levels[i].size \in Nat /\ key[i] \in Int
    /\ \A k \in 1..n : at[k] \in S /\ t[k] = levels[at[k]]
    /\ \A k, m \in 1..n : k < m => at[k] # at[m] /\ key[at[k]] <= key[at[m]]
    /\ \A i \in S : \E k \in 1..n : at[k] = i

\* What is taken of levels in an order, by their indices.
LEMMA TakesByIndex ==
    ASSUME NEW S, IsFiniteSet(S), NEW n \in Nat, NEW levels, NEW t, NEW key, NEW at,
           OrderOf(at, t, n, levels, S, key), NEW c \in Nat, NEW q, NEW b, Takes(q, b, c, t, n)
    PROVE  \E r, j : TakenOf(r, j, c, levels, S, key, Walk(c, t))
<1>1. \A i \in S : levels[i].price \in Nat /\ levels[i].size \in Nat
    BY DEF OrderOf
<1>4. /\ \A k \in 1..n : at[k] \in S /\ t[k] = levels[at[k]]
      /\ \A k, m \in 1..n : k < m => at[k] # at[m] /\ key[at[k]] <= key[at[m]]
      /\ \A i \in S : \E k \in 1..n : at[k] = i
    BY DEF OrderOf
<1>5. \A i \in S : key[i] \in Int
    BY DEF OrderOf
<1>6. Takes(q, b, c, t, n)
    OBVIOUS
<1>7. \A k, m \in 1..n : at[k] = at[m] => k = m
    BY <1>1, <1>4
<1> DEFINE r == [i \in S |-> q[CHOOSE k \in 1..n : at[k] = i]]
           j == IF b = 0 THEN at[1] ELSE at[b]
           worth == [i \in S |-> r[i] * levels[i].price]
           along == [k \in 1..n |-> q[k] * t[k].price]
<1>8. \A k \in 1..n : r[at[k]] = q[k]
    BY <1>4, <1>7
<1>9. /\ \A k \in 1..n : /\ q[k] \in Nat /\ q[k] <= t[k].size
                         /\ k < b => q[k] = t[k].size
                         /\ k > b => q[k] = 0
      /\ b \in Nat /\ b <= n
    BY <1>1, <1>6 DEF Takes
<1>10. ASSUME NEW i \in S
       PROVE  /\ r[i] \in Nat /\ r[i] <= levels[i].size
              /\ key[i] < key[j] => r[i] = levels[i].size
              /\ key[i] > key[j] => r[i] = 0
  <2>1. PICK k \in 1..n : at[k] = i
      BY <1>4
  <2>2. r[i] = q[k] /\ levels[i] = t[k]
      BY <1>4, <1>8, <2>1
  <2>3. PICK m \in 1..n : j = at[m] /\ (k < m => k < b) /\ (k > m => k > b)
      BY <1>1, <1>9
  <2> HIDE DEF r, j
  <2>4. key[at[k]] \in Int /\ key[at[m]] \in Int
      BY <1>4, <1>5
  <2>5. key[i] < key[j] => k < m
      BY <1>4, <1>1, <2>1, <2>3, <2>4
  <2>6. key[i] > key[j] => k > m
      BY <1>4, <1>1, <2>1, <2>3, <2>4
  <2> QED
      BY <1>9, <2>2, <2>3, <2>5, <2>6
<1>11. S # {} => j \in S
    BY <1>1, <1>4, <1>9
<1>12. \A i \in S : worth[i] = r[i] * levels[i].price
    OBVIOUS
<1>13. \A k \in 1..n : along[k] = q[k] * t[k].price
    OBVIOUS
<1> HIDE DEF r, j, worth, along
<1>14. \A i \in S : worth[i] \in Nat
  <2> SUFFICES ASSUME NEW i \in S PROVE r[i] * levels[i].price \in Nat
      BY <1>12
  <2> QED
      BY <1>1, <1>10, Product
<1>15. ASSUME NEW k \in 1..n PROVE along[k] = worth[at[k]]
  <2>1. at[k] \in S /\ t[k] = levels[at[k]] /\ r[at[k]] = q[k]
      BY <1>4, <1>8
  <2> QED
      BY <1>12, <1>13, <2>1
<1>16. \A x \in S : \E k \in 1..n : at[k] = x
    BY <1>4
<1>17. SumUpto(q, n) = SumFunctionOnSet(r, S)
  <2>1. (\A i \in S : r[i] \in Nat) /\ \A k \in 1..n : at[k] \in S /\ q[k] = r[at[k]]
      BY <1>4, <1>8, <1>10
  <2> QED
      BY <1>1, <1>7, <1>16, <2>1, SumAlongAll
<1>18. SumUpto(along, n) = SumFunctionOnSet(worth, S)
  <2>1. \A k \in 1..n : at[k] \in S /\ along[k] = worth[at[k]]
      BY <1>4, <1>15
  <2> QED
      BY <1>1, <1>7, <1>14, <1>16, <2>1, SumAlongAll
<1>19. Walk(c, t).remaining = 0 \/ \A i \in S : r[i] = levels[i].size
    BY <1>4, <1>6, <1>8 DEF Takes
<1>20. /\ Walk(c, t).filled = SumFunctionOnSet(r, S)
       /\ Walk(c, t).notional = SumFunctionOnSet(worth, S)
       /\ Walk(c, t).remaining \in Nat /\ Walk(c, t).remaining + Walk(c, t).filled = c
    BY <1>6, <1>17, <1>18 DEF Takes, along
<1>21. TakenOf(r, j, c, levels, S, key, Walk(c, t))
    BY <1>10, <1>11, <1>19, <1>20 DEF TakenOf, worth
<1> QED
    BY <1>21

LEMMA WalkOnLevels ==
    ASSUME NEW c \in Nat, NEW levels \in Seq(Level), NEW S, S = DOMAIN levels,
           NEW key \in [S -> Int]
    PROVE  \E r, j : TakenOf(r, j, c, levels, S, key, Walk(c, Sorted(levels, key)))
<1> DEFINE t == Sorted(levels, key)
           n == Cardinality(S)
<1>1. /\ IsFiniteSet(S) /\ n = Len(levels) /\ n \in Nat
      /\ \A i \in S : levels[i] \in Level /\ levels[i].price \in Nat /\ levels[i].size \in Nat
    BY LevelIndices
<1>2. t \in Seq(Level) /\ n = Len(t) /\ \E at : Places(at, levels, S, key)
    BY <1>1, SortedFacts
<1>3. PICK at : Places(at, levels, S, key)
    BY <1>2
<1>4. /\ \A k \in 1..n : at[k] \in S /\ t[k] = levels[at[k]]
      /\ \A k, m \in 1..n : k < m => at[k] # at[m] /\ key[at[k]] <= key[at[m]]
      /\ \A i \in S : \E k \in 1..n : at[k] = i
    BY <1>3 DEF Places, Sorted
<1>5. \A i \in S : key[i] \in Int
    OBVIOUS
<1> HIDE DEF t, n
<1>6. PICK q, b : Takes(q, b, c, t, n)
    BY <1>2, WalkTakes
<1>7. OrderOf(at, t, n, levels, S, key)
    BY <1>1, <1>4, <1>5 DEF OrderOf
<1>8. \E r, j : TakenOf(r, j, c, levels, S, key, Walk(c, t))
    BY <1>1, <1>6, <1>7, TakesByIndex
<1> QED
    BY <1>8 DEF t

\* Less at the lower price and more at the higher one costs more.
LEMMA Exchange ==
    ASSUME NEW a \in Nat, NEW b \in Nat, NEW x \in Nat, NEW y \in Nat, a <= b, x <= y
    PROVE  b * x + a * y <= a * x + b * y
<1> DEFINE d == b - a
           e == y - x
<1>1. d \in Nat /\ e \in Nat /\ b = a + d /\ y = x + e
    OBVIOUS
<1> HIDE DEF d, e
<1>2. 0 <= d * e
    BY <1>1
<1>3. (a + d) * x = a * x + d * x /\ a * (x + e) = a * x + a * e
    BY <1>1
<1>4. (a + d) * (x + e) = a * x + a * e + d * x + d * e
    BY <1>1
<1>5. a * x \in Nat /\ a * e \in Nat /\ d * x \in Nat /\ d * e \in Nat
    BY <1>1, Product
<1> QED
    BY <1>1, <1>2, <1>3, <1>4, <1>5

\* More of what is cheaper than p and less of what is dearer: exchanged at p it pays.
LEMMA TradeOff ==
    ASSUME NEW r \in Nat, NEW q \in Nat, NEW x \in Nat, NEW p \in Nat, NEW u \in Nat,
           NEW v \in Nat,
           u = r * x, v = q * x, x < p => q <= r, x > p => r <= q
    PROVE  u + p * q <= v + p * r
<1>1. p * q = q * p /\ p * r = r * p
    OBVIOUS
<1>2. CASE x < p
    BY <1>1, <1>2, Exchange
<1>3. CASE x > p
    BY <1>1, <1>3, Exchange
<1>4. CASE x = p
    BY <1>1, <1>4, Product
<1> QED
    BY <1>2, <1>3, <1>4

\* u and v are what r and p cost; exchanged for p at one price, r costs no more.
Exchanged(r, p, u, v, price, S) ==
    \A i \in S : /\ r[i] \in Nat /\ p[i] \in Nat /\ u[i] \in Nat /\ v[i] \in Nat
                 /\ u[i] + price * p[i] <= v[i] + price * r[i]

LEMMA ExchangePays ==
    ASSUME NEW S, IsFiniteSet(S), NEW price \in Nat, NEW r, NEW p, NEW u, NEW v,
           Exchanged(r, p, u, v, price, S), SumFunctionOnSet(r, S) = SumFunctionOnSet(p, S)
    PROVE  SumFunctionOnSet(u, S) <= SumFunctionOnSet(v, S)
<1> DEFINE a == [i \in S |-> price * p[i]]
           b == [i \in S |-> price * r[i]]
           x == [i \in S |-> u[i] + a[i]]
           y == [i \in S |-> v[i] + b[i]]
<1>1. /\ \A i \in S : r[i] \in Nat
      /\ \A i \in S : p[i] \in Nat
      /\ \A i \in S : u[i] \in Nat
      /\ \A i \in S : v[i] \in Nat
    BY DEF Exchanged
<1>2. (\A i \in S : a[i] = price * p[i]) /\ \A i \in S : b[i] = price * r[i]
    OBVIOUS
<1>3. (\A i \in S : x[i] = u[i] + a[i]) /\ \A i \in S : y[i] = v[i] + b[i]
    OBVIOUS
<1> HIDE DEF a, b, x, y
<1>4. (\A i \in S : a[i] \in Nat) /\ \A i \in S : b[i] \in Nat
  <2> SUFFICES ASSUME NEW i \in S PROVE price * p[i] \in Nat /\ price * r[i] \in Nat
      BY <1>2
  <2> QED
      BY <1>1, Product
<1>5. (\A i \in S : x[i] \in Nat) /\ \A i \in S : y[i] \in Nat
    BY <1>1, <1>3, <1>4
<1>6. \A i \in S : x[i] <= y[i]
    BY <1>2, <1>3 DEF Exchanged
<1>7. S \in SUBSET S
    OBVIOUS
<1>8. SumFunctionOnSet(x, S) <= SumFunctionOnSet(y, S)
    BY <1>5, <1>6, <1>7, SumAtMost
<1>9. SumFunctionOnSet(x, S) = SumFunctionOnSet(u, S) + SumFunctionOnSet(a, S)
    BY <1>1, <1>3, <1>4, <1>5, <1>7, SumPlus
<1>10. SumFunctionOnSet(y, S) = SumFunctionOnSet(v, S) + SumFunctionOnSet(b, S)
    BY <1>1, <1>3, <1>4, <1>5, <1>7, SumPlus
<1>11. SumFunctionOnSet(a, S) = price * SumFunctionOnSet(p, S)
    BY <1>1, <1>2, <1>4, <1>7, SumTimes
<1>12. SumFunctionOnSet(b, S) = price * SumFunctionOnSet(r, S)
  <2>1. /\ \A i \in S : r[i] \in Nat
        /\ \A i \in S : b[i] \in Nat
        /\ \A i \in S : b[i] = price * r[i]
      BY <1>1, <1>2, <1>4
  <2>2. \A s \in SUBSET S : SumFunctionOnSet(b, s) = price * SumFunctionOnSet(r, s)
      BY <2>1, SumTimes
  <2> QED
      BY <1>7, <2>2
<1>13. SumFunctionOnSet(a, S) = SumFunctionOnSet(b, S)
    BY <1>11, <1>12
<1>14. /\ SumFunctionOnSet(u, S) \in Nat /\ SumFunctionOnSet(v, S) \in Nat
       /\ SumFunctionOnSet(a, S) \in Nat
  <2>1. SumFunctionOnSet(u, S) \in Nat
      BY <1>1, <1>7, SumFacts
  <2>2. SumFunctionOnSet(v, S) \in Nat
      BY <1>1, <1>7, SumFacts
  <2>3. SumFunctionOnSet(a, S) \in Nat
      BY <1>4, <1>7, SumFacts
  <2> QED
      BY <2>1, <2>2, <2>3
<1> QED
    BY <1>8, <1>9, <1>10, <1>13, <1>14

\* An order is filled as far as the levels go.
LEMMA FilledWhole ==
    ASSUME NEW levels \in Seq(Level), NEW S, S = DOMAIN levels, NEW key, NEW c \in Nat,
           NEW r, NEW j, NEW fill, TakenOf(r, j, c, levels, S, key, fill)
    PROVE  /\ fill.filled = IF c <= Shares(levels) THEN c ELSE Shares(levels)
           /\ fill.remaining = c - fill.filled
           /\ fill.filled \in Nat /\ Shares(levels) \in Nat
<1> DEFINE size == [i \in S |-> levels[i].size]
<1>1. IsFiniteSet(S) /\ \A i \in S : levels[i].size \in Nat
    BY LevelIndices
<1>2. Shares(levels) = SumFunctionOnSet(size, S)
    BY DEF Shares, SumFunction
<1>3. \A i \in S : size[i] = levels[i].size
    OBVIOUS
<1> HIDE DEF size
<1>4. /\ \A i \in S : r[i] \in Nat
      /\ \A i \in S : size[i] \in Nat
      /\ \A i \in S : r[i] <= size[i]
    BY <1>1, <1>3 DEF TakenOf
<1>5. S \in SUBSET S
    OBVIOUS
<1>6. fill.filled <= Shares(levels)
  <2>1. SumFunctionOnSet(r, S) <= SumFunctionOnSet(size, S)
      BY <1>1, <1>4, <1>5, SumAtMost
  <2> QED
      BY <1>2, <2>1 DEF TakenOf
<1>7. fill.filled \in Nat /\ Shares(levels) \in Nat
  <2>1. SumFunctionOnSet(r, S) \in Nat
      BY <1>1, <1>4, <1>5, SumFacts
  <2>2. SumFunctionOnSet(size, S) \in Nat
      BY <1>1, <1>4, <1>5, SumFacts
  <2> QED
      BY <1>2, <2>1, <2>2 DEF TakenOf
<1>8. fill.remaining # 0 => Shares(levels) <= fill.filled
  <2> SUFFICES ASSUME fill.remaining # 0 PROVE Shares(levels) <= fill.filled
      OBVIOUS
  <2>1. \A i \in S : size[i] <= r[i]
      BY <1>3, <1>4 DEF TakenOf
  <2>2. SumFunctionOnSet(size, S) <= SumFunctionOnSet(r, S)
      BY <1>1, <1>4, <1>5, <2>1, SumAtMost
  <2> QED
      BY <1>2, <2>2 DEF TakenOf
<1>9. fill.remaining \in Nat /\ fill.remaining + fill.filled = c
    BY DEF TakenOf
<1> QED
    BY <1>6, <1>7, <1>8, <1>9

\* What each share costs is at least the best price, or at most.
LEMMA CostBounds ==
    ASSUME NEW levels, NEW S, IsFiniteSet(S), \A i \in S : levels[i].price \in Nat, NEW key,
           NEW c,
           NEW r, NEW j, NEW fill, TakenOf(r, j, c, levels, S, key, fill), NEW best \in Nat
    PROVE  /\ (\A i \in S : best <= levels[i].price) => best * fill.filled <= fill.notional
           /\ (\A i \in S : best >= levels[i].price) => best * fill.filled >= fill.notional
           /\ fill.notional \in Nat /\ best * fill.filled \in Nat
<1> DEFINE cost == [i \in S |-> r[i] * levels[i].price]
           flat == [i \in S |-> best * r[i]]
<1>1. /\ IsFiniteSet(S)
      /\ \A i \in S : levels[i].price \in Nat
      /\ \A i \in S : r[i] \in Nat
    BY DEF TakenOf
<1>2. /\ \A i \in S : cost[i] = r[i] * levels[i].price
      /\ \A i \in S : flat[i] = best * r[i]
    OBVIOUS
<1>3. fill.filled = SumFunctionOnSet(r, S) /\ fill.notional = SumFunctionOnSet(cost, S)
    BY DEF TakenOf
<1> HIDE DEF cost, flat
<1>4. /\ \A i \in S : cost[i] \in Nat
      /\ \A i \in S : flat[i] \in Nat
  <2> SUFFICES ASSUME NEW i \in S PROVE r[i] * levels[i].price \in Nat /\ best * r[i] \in Nat
      BY <1>2
  <2> QED
      BY <1>1, Product
<1>5. S \in SUBSET S
    OBVIOUS
<1>6. SumFunctionOnSet(flat, S) = best * fill.filled
  <2>1. \A s \in SUBSET S : SumFunctionOnSet(flat, s) = best * SumFunctionOnSet(r, s)
    <3>1. /\ \A i \in S : r[i] \in Nat
          /\ \A i \in S : flat[i] \in Nat
          /\ \A i \in S : flat[i] = best * r[i]
        BY <1>1, <1>2, <1>4
    <3> QED
        BY <1>1, <3>1, SumTimes
  <2> QED
      BY <1>3, <1>5, <2>1
<1>7. ASSUME \A i \in S : best <= levels[i].price PROVE best * fill.filled <= fill.notional
  <2>1. ASSUME NEW i \in S PROVE flat[i] <= cost[i]
    <3>1. best * r[i] <= levels[i].price * r[i]
        BY <1>1, <1>7, Product
    <3>2. levels[i].price * r[i] = r[i] * levels[i].price
        BY <1>1
    <3> QED
        BY <1>2, <3>1, <3>2
  <2>2. SumFunctionOnSet(flat, S) <= SumFunctionOnSet(cost, S)
      BY <1>1, <1>4, <1>5, <2>1, SumAtMost
  <2> QED
      BY <1>3, <1>6, <2>2
<1>8. ASSUME \A i \in S : best >= levels[i].price PROVE fill.notional <= best * fill.filled
  <2>1. ASSUME NEW i \in S PROVE cost[i] <= flat[i]
    <3>1. levels[i].price * r[i] <= best * r[i]
        BY <1>1, <1>8, Product
    <3>2. levels[i].price * r[i] = r[i] * levels[i].price
        BY <1>1
    <3> QED
        BY <1>2, <3>1, <3>2
  <2>2. SumFunctionOnSet(cost, S) <= SumFunctionOnSet(flat, S)
      BY <1>1, <1>4, <1>5, <2>1, SumAtMost
  <2> QED
      BY <1>3, <1>6, <2>2
<1>9. fill.notional \in Nat /\ best * fill.filled \in Nat
  <2>1. SumFunctionOnSet(cost, S) \in Nat /\ SumFunctionOnSet(flat, S) \in Nat
    <3>1. SumFunctionOnSet(cost, S) \in Nat
        BY <1>1, <1>4, <1>5, SumFacts
    <3>2. SumFunctionOnSet(flat, S) \in Nat
        BY <1>1, <1>4, <1>5, SumFacts
    <3> QED
        BY <3>1, <3>2
  <2> QED
      BY <1>3, <1>6, <2>1
<1> QED
    BY <1>7, <1>8, <1>9

\* The first of the levels in their order is the best one.
LEMMA FirstIsBest ==
    ASSUME NEW levels \in Seq(Level), NEW S, S = DOMAIN levels, NEW key \in [S -> Int],
           1 \in DOMAIN Sorted(levels, key)
    PROVE  \E i \in S : /\ Sorted(levels, key)[1] = levels[i]
                        /\ \A m \in S : key[i] <= key[m]
<1> DEFINE t == Sorted(levels, key)
           n == Cardinality(S)
<1>1. n = Len(levels) /\ n \in Nat
    BY LevelIndices
<1>2. t \in Seq(Level) /\ Len(t) = n /\ \E at : Places(at, levels, S, key)
    BY <1>1, SortedFacts
<1>3. PICK at : Places(at, levels, S, key)
    BY <1>2
<1>4. /\ \A k \in 1..n : at[k] \in S /\ t[k] = levels[at[k]]
      /\ \A k, m \in 1..n : k < m => key[at[k]] <= key[at[m]]
      /\ \A i \in S : \E k \in 1..n : at[k] = i
    BY <1>3 DEF Places, Sorted
<1>5. 1 \in 1..n
    BY <1>1, <1>2
<1>6. \A i \in S : key[i] \in Int
    OBVIOUS
<1> HIDE DEF t, n
<1>7. at[1] \in S /\ t[1] = levels[at[1]]
    BY <1>4, <1>5
<1>8. ASSUME NEW m \in S PROVE key[at[1]] <= key[m]
  <2>1. PICK k \in 1..n : at[k] = m
      BY <1>4
  <2>2. k = 1 \/ 1 < k
      BY <1>1
  <2>3. CASE k = 1
    <3>1. key[m] \in Int /\ at[1] = m
        BY <1>6, <2>1, <2>3
    <3> QED
        BY <3>1
  <2>4. CASE 1 < k
      BY <1>4, <1>5, <2>1, <2>4
  <2> QED
      BY <2>2, <2>3, <2>4
<1> QED
    BY <1>7, <1>8 DEF t

\* Another way to take as many shares from the displayed levels.
Alternative(q, levels, S, filled) ==
    /\ \A i \in S : q[i] \in Nat /\ q[i] <= levels[i].size
    /\ SumFunctionOnSet(q, S) = filled

\* Taken from the cheapest level on, the shares cost the least.
LEMMA NoCheaper ==
    ASSUME NEW levels, NEW S, IsFiniteSet(S), NEW key, NEW c, NEW r, NEW j, NEW fill,
           TakenOf(r, j, c, levels, S, key, fill),
           \A i \in S : /\ levels[i].price \in Nat /\ levels[i].size \in Nat
                        /\ key[i] = levels[i].price,
           NEW q, Alternative(q, levels, S, fill.filled), NEW worth,
           worth = [i \in S |-> q[i] * levels[i].price]
    PROVE  fill.notional <= SumFunctionOnSet(worth, S)
<1> DEFINE cost == [i \in S |-> r[i] * levels[i].price]
<1>1. /\ fill.filled = SumFunctionOnSet(r, S) /\ fill.notional = SumFunctionOnSet(cost, S)
      /\ SumFunctionOnSet(q, S) = SumFunctionOnSet(r, S)
    BY DEF TakenOf, Alternative
<1>2. (\A i \in S : cost[i] = r[i] * levels[i].price) /\ \A i \in S : worth[i] = q[i] * levels[i].price
    OBVIOUS
<1> HIDE DEF cost
<1>3. ASSUME NEW i \in S
      PROVE  /\ r[i] \in Nat /\ q[i] \in Nat /\ levels[i].price \in Nat /\ levels[i].size \in Nat
             /\ q[i] <= levels[i].size
    BY DEF TakenOf, Alternative
<1>4. ASSUME NEW i \in S PROVE cost[i] \in Nat /\ worth[i] \in Nat
  <2>1. r[i] * levels[i].price \in Nat /\ q[i] * levels[i].price \in Nat
      BY <1>3, Product
  <2> QED
      BY <1>2, <2>1
<1>5. CASE S = {}
  <2>1. SumFunctionOnSet(cost, {}) = 0
      BY <1>5, SumFacts
  <2>2. SumFunctionOnSet(worth, {}) = 0
      BY <1>5, SumFacts
  <2> QED
      BY <1>1, <1>5, <2>1, <2>2
<1>6. CASE S # {}
  <2> DEFINE p == levels[j].price
  <2>1. j \in S /\ p \in Nat
      BY <1>6 DEF TakenOf
  <2>2. ASSUME NEW i \in S
        PROVE  /\ levels[i].price < p => r[i] = levels[i].size
               /\ levels[i].price > p => r[i] = 0
      BY <2>1 DEF TakenOf
  <2> HIDE DEF p
  <2>3. ASSUME NEW i \in S PROVE cost[i] + p * q[i] <= worth[i] + p * r[i]
    <3>1. /\ levels[i].price < p => q[i] <= r[i]
          /\ levels[i].price > p => r[i] <= q[i]
        BY <1>3, <2>2
    <3>2. cost[i] = r[i] * levels[i].price /\ worth[i] = q[i] * levels[i].price
        BY <1>2
    <3> QED
        BY <1>3, <1>4, <2>1, <3>1, <3>2, TradeOff
  <2>4. Exchanged(r, q, cost, worth, p, S)
      BY <1>3, <1>4, <2>3 DEF Exchanged
  <2>5. SumFunctionOnSet(cost, S) <= SumFunctionOnSet(worth, S)
      BY <1>1, <2>1, <2>4, ExchangePays
  <2> QED
      BY <1>1, <2>5
<1> QED
    BY <1>5, <1>6

\* Taken from the dearest level on, they pay the most.
LEMMA NoDearer ==
    ASSUME NEW levels, NEW S, IsFiniteSet(S), NEW key, NEW c, NEW r, NEW j, NEW fill,
           TakenOf(r, j, c, levels, S, key, fill),
           \A i \in S : /\ levels[i].price \in Nat /\ levels[i].size \in Nat
                        /\ key[i] = -levels[i].price,
           NEW q, Alternative(q, levels, S, fill.filled), NEW worth,
           worth = [i \in S |-> q[i] * levels[i].price]
    PROVE  fill.notional >= SumFunctionOnSet(worth, S)
<1> DEFINE cost == [i \in S |-> r[i] * levels[i].price]
<1>1. /\ fill.filled = SumFunctionOnSet(r, S) /\ fill.notional = SumFunctionOnSet(cost, S)
      /\ SumFunctionOnSet(q, S) = SumFunctionOnSet(r, S)
    BY DEF TakenOf, Alternative
<1>2. (\A i \in S : cost[i] = r[i] * levels[i].price) /\ \A i \in S : worth[i] = q[i] * levels[i].price
    OBVIOUS
<1> HIDE DEF cost
<1>3. ASSUME NEW i \in S
      PROVE  /\ r[i] \in Nat /\ q[i] \in Nat /\ levels[i].price \in Nat /\ levels[i].size \in Nat
             /\ q[i] <= levels[i].size
    BY DEF TakenOf, Alternative
<1>4. ASSUME NEW i \in S PROVE cost[i] \in Nat /\ worth[i] \in Nat
  <2>1. r[i] * levels[i].price \in Nat /\ q[i] * levels[i].price \in Nat
      BY <1>3, Product
  <2> QED
      BY <1>2, <2>1
<1>5. CASE S = {}
  <2>1. SumFunctionOnSet(cost, {}) = 0
      BY <1>5, SumFacts
  <2>2. SumFunctionOnSet(worth, {}) = 0
      BY <1>5, SumFacts
  <2> QED
      BY <1>1, <1>5, <2>1, <2>2
<1>6. CASE S # {}
  <2> DEFINE p == levels[j].price
  <2>1. j \in S /\ p \in Nat
      BY <1>6 DEF TakenOf
  <2>2. ASSUME NEW i \in S
        PROVE  /\ levels[i].price > p => r[i] = levels[i].size
               /\ levels[i].price < p => r[i] = 0
      BY <2>1 DEF TakenOf
  <2> HIDE DEF p
  <2>3. ASSUME NEW i \in S PROVE worth[i] + p * r[i] <= cost[i] + p * q[i]
    <3>1. /\ levels[i].price > p => q[i] <= r[i]
          /\ levels[i].price < p => r[i] <= q[i]
        BY <1>3, <2>2
    <3>2. cost[i] = r[i] * levels[i].price /\ worth[i] = q[i] * levels[i].price
        BY <1>2
    <3> QED
        BY <1>3, <1>4, <2>1, <3>1, <3>2, TradeOff
  <2>4. Exchanged(q, r, worth, cost, p, S)
      BY <1>3, <1>4, <2>3 DEF Exchanged
  <2>5. SumFunctionOnSet(worth, S) <= SumFunctionOnSet(cost, S)
      BY <1>1, <2>1, <2>4, ExchangePays
  <2> QED
      BY <1>1, <2>5
<1> QED
    BY <1>5, <1>6

\* A sample purchase is filled as far as the asks go, and at the least cost.
LEMMA BuyIsBest ==
    ASSUME NEW book \in Books, NEW sample \in Nat, NEW f, f = Simulate(book, "buy", sample)
    PROVE  /\ f.filled = Min({sample, Shares(book.asks)}) /\ f.remaining = sample - f.filled
           /\ \A q \in Allocations(book.asks, f.filled) : f.notional <= Worth(book.asks, q)
           /\ \A s \in Slippage(book, "buy", f) : s[1] >= 0
<1> DEFINE levels == book.asks
           S == DOMAIN levels
           key == [i \in S |-> levels[i].price]
           t == Sorted(levels, key)
<1>1. levels \in Seq(Level)
    BY BookSides
<1>2. S = DOMAIN levels
    OBVIOUS
<1>3. Executable(book, "buy") = t
    BY DEF Executable, CheapestFirst
<1>4. f = Walk(sample, t)
    BY <1>3 DEF Simulate, Walk
<1>5. \A i \in S : key[i] = levels[i].price
    OBVIOUS
<1>6. DOMAIN key = S /\ key = [i \in S |-> key[i]]
    OBVIOUS
<1> HIDE DEF levels, S, key
<1>7. IsFiniteSet(S) /\ \A i \in S : levels[i].price \in Nat /\ levels[i].size \in Nat
    BY <1>1, <1>2, LevelIndices
<1>8. key \in [S -> Int]
  <2>1. \A i \in S : key[i] \in Int
      BY <1>5, <1>7
  <2> QED
      BY <1>6, <2>1
<1>9. PICK r, j : TakenOf(r, j, sample, levels, S, key, f)
  <2>1. \E r, j : TakenOf(r, j, sample, levels, S, key, Walk(sample, Sorted(levels, key)))
      BY <1>1, <1>2, <1>8, WalkOnLevels
  <2> QED
      BY <1>4, <2>1
<1>10. /\ f.filled = IF sample <= Shares(levels) THEN sample ELSE Shares(levels)
       /\ f.remaining = sample - f.filled
       /\ f.filled \in Nat /\ Shares(levels) \in Nat
    BY <1>1, <1>2, <1>9, FilledWhole
<1>11. f.filled \in Nat
    BY <1>10
<1>12. ASSUME NEW q \in Allocations(levels, f.filled) PROVE f.notional <= Worth(levels, q)
  <2> DEFINE worth == [i \in S |-> q[i] * levels[i].price]
  <2>1. /\ q \in [S -> 0..f.filled] /\ \A i \in S : q[i] <= levels[i].size
        /\ SumFunction(q) = f.filled
      BY <1>2 DEF Allocations
  <2>2. SumFunctionOnSet(q, S) = f.filled
      BY <2>1 DEF SumFunction
  <2>3. \A i \in S : q[i] \in Nat
      BY <1>11, <2>1
  <2>4. Alternative(q, levels, S, f.filled)
      BY <2>1, <2>2, <2>3 DEF Alternative
  <2>5. Worth(levels, q) = SumFunctionOnSet(worth, S)
      BY <1>2 DEF Worth, SumFunction
  <2>6. worth = [i \in S |-> q[i] * levels[i].price]
      OBVIOUS
  <2> HIDE DEF worth
  <2>7. f.notional <= SumFunctionOnSet(worth, S)
      BY <1>5, <1>7, <1>9, <2>4, <2>6, NoCheaper
  <2> QED
      BY <2>5, <2>7
<1>13. ASSUME NEW s \in Slippage(book, "buy", f) PROVE s[1] >= 0
  <2>1. PICK best : /\ 1 \in DOMAIN t /\ best = t[1].price
                    /\ s = <<f.notional - best * f.filled, best * f.filled>>
      BY <1>3 DEF Slippage
  <2>2. PICK i \in S : t[1] = levels[i] /\ \A m \in S : key[i] <= key[m]
      BY <1>1, <1>2, <1>8, <2>1, FirstIsBest
  <2>3. best = levels[i].price /\ best \in Nat
      BY <1>7, <2>1, <2>2
  <2>4. \A m \in S : best <= levels[m].price
      BY <1>5, <1>7, <2>2, <2>3
  <2>5. best * f.filled <= f.notional /\ f.notional \in Int /\ best * f.filled \in Int
      BY <1>7, <1>9, <2>3, <2>4, CostBounds
  <2>6. s[1] = f.notional - best * f.filled
      BY <2>1
  <2> QED
      BY <2>5, <2>6
<1>14. f.filled = Min({sample, Shares(levels)})
    BY <1>10, Lesser
<1> QED
    BY <1>10, <1>12, <1>13, <1>14 DEF levels

\* A sample sale, likewise, for the most.
LEMMA SellIsBest ==
    ASSUME NEW book \in Books, NEW sample \in Nat, NEW f, f = Simulate(book, "sell", sample)
    PROVE  /\ f.filled = Min({sample, Shares(book.bids)}) /\ f.remaining = sample - f.filled
           /\ \A q \in Allocations(book.bids, f.filled) : f.notional >= Worth(book.bids, q)
           /\ \A s \in Slippage(book, "sell", f) : s[1] >= 0
<1> DEFINE levels == book.bids
           S == DOMAIN levels
           key == [i \in S |-> -levels[i].price]
           t == Sorted(levels, key)
<1>1. levels \in Seq(Level)
    BY BookSides
<1>2. S = DOMAIN levels
    OBVIOUS
<1>3. Executable(book, "sell") = t
    BY DEF Executable, DearestFirst
<1>4. f = Walk(sample, t)
    BY <1>3 DEF Simulate, Walk
<1>5. \A i \in S : key[i] = -levels[i].price
    OBVIOUS
<1>6. DOMAIN key = S /\ key = [i \in S |-> key[i]]
    OBVIOUS
<1> HIDE DEF levels, S, key
<1>7. IsFiniteSet(S) /\ \A i \in S : levels[i].price \in Nat /\ levels[i].size \in Nat
    BY <1>1, <1>2, LevelIndices
<1>8. key \in [S -> Int]
  <2>1. \A i \in S : key[i] \in Int
      BY <1>5, <1>7
  <2> QED
      BY <1>6, <2>1
<1>9. PICK r, j : TakenOf(r, j, sample, levels, S, key, f)
  <2>1. \E r, j : TakenOf(r, j, sample, levels, S, key, Walk(sample, Sorted(levels, key)))
      BY <1>1, <1>2, <1>8, WalkOnLevels
  <2> QED
      BY <1>4, <2>1
<1>10. /\ f.filled = IF sample <= Shares(levels) THEN sample ELSE Shares(levels)
       /\ f.remaining = sample - f.filled
       /\ f.filled \in Nat /\ Shares(levels) \in Nat
    BY <1>1, <1>2, <1>9, FilledWhole
<1>11. f.filled \in Nat
    BY <1>10
<1>12. ASSUME NEW q \in Allocations(levels, f.filled) PROVE f.notional >= Worth(levels, q)
  <2> DEFINE worth == [i \in S |-> q[i] * levels[i].price]
  <2>1. /\ q \in [S -> 0..f.filled] /\ \A i \in S : q[i] <= levels[i].size
        /\ SumFunction(q) = f.filled
      BY <1>2 DEF Allocations
  <2>2. SumFunctionOnSet(q, S) = f.filled
      BY <2>1 DEF SumFunction
  <2>3. \A i \in S : q[i] \in Nat
      BY <1>11, <2>1
  <2>4. Alternative(q, levels, S, f.filled)
      BY <2>1, <2>2, <2>3 DEF Alternative
  <2>5. Worth(levels, q) = SumFunctionOnSet(worth, S)
      BY <1>2 DEF Worth, SumFunction
  <2>6. worth = [i \in S |-> q[i] * levels[i].price]
      OBVIOUS
  <2> HIDE DEF worth
  <2>7. f.notional >= SumFunctionOnSet(worth, S)
      BY <1>5, <1>7, <1>9, <2>4, <2>6, NoDearer
  <2> QED
      BY <2>5, <2>7
<1>13. ASSUME NEW s \in Slippage(book, "sell", f) PROVE s[1] >= 0
  <2>1. PICK best : /\ 1 \in DOMAIN t /\ best = t[1].price
                    /\ s = <<best * f.filled - f.notional, best * f.filled>>
      BY <1>3 DEF Slippage
  <2>2. PICK i \in S : t[1] = levels[i] /\ \A m \in S : key[i] <= key[m]
      BY <1>1, <1>2, <1>8, <2>1, FirstIsBest
  <2>3. best = levels[i].price /\ best \in Nat
      BY <1>7, <2>1, <2>2
  <2>4. \A m \in S : best >= levels[m].price
      BY <1>5, <1>7, <2>2, <2>3
  <2>5. best * f.filled >= f.notional /\ f.notional \in Int /\ best * f.filled \in Int
      BY <1>7, <1>9, <2>3, <2>4, CostBounds
  <2>6. s[1] = best * f.filled - f.notional
      BY <2>1
  <2> QED
      BY <2>5, <2>6
<1>14. f.filled = Min({sample, Shares(levels)})
    BY <1>10, Lesser
<1> QED
    BY <1>10, <1>12, <1>13, <1>14 DEF levels

\* Some of the levels of a book, each once.
PartOf(at, u, n, s, S) ==
    /\ \A k \in 1..n : at[k] \in S /\ u[k] = s[at[k]]
    /\ \A k, m \in 1..n : k < m => at[k] # at[m]

LEMMA SharesOfPart ==
    ASSUME NEW s, NEW S, S = DOMAIN s, IsFiniteSet(S), \A i \in S : s[i].size \in Nat,
           NEW n \in Nat, NEW u, DOMAIN u = 1..n, NEW at, PartOf(at, u, n, s, S)
    PROVE  Shares(u) <= Shares(s)
<1> DEFINE v == [k \in 1..n |-> u[k].size]
           w == [i \in S |-> s[i].size]
<1>1. Shares(u) = SumUpto(v, n) /\ Shares(s) = SumFunctionOnSet(w, S)
    BY DEF Shares, SumFunction, SumUpto
<1>2. (\A k \in 1..n : v[k] = u[k].size) /\ \A i \in S : w[i] = s[i].size
    OBVIOUS
<1> HIDE DEF v, w
<1>3. \A k \in 1..n : at[k] \in S /\ v[k] = w[at[k]]
    BY <1>2 DEF PartOf
<1>4. \A i, j \in 1..n : at[i] = at[j] => i = j
    BY DEF PartOf
<1>5. \A i \in S : w[i] \in Nat
    BY <1>2
<1>6. SumUpto(v, n) = SumFunctionOnSet(w, Reached(at, n))
    BY <1>3, <1>4, <1>5, SumAlong
<1>7. Reached(at, n) \in SUBSET S
    BY <1>3 DEF Reached
<1>8. SumFunctionOnSet(w, Reached(at, n)) <= SumFunctionOnSet(w, S)
    BY <1>5, <1>7, SumOfPart
<1> QED
    BY <1>1, <1>6, <1>8

LEMMA FirstPart ==
    ASSUME NEW s \in Seq(Level), NEW m \in Nat
    PROVE  First(s, m) \in Seq(Level) /\ Shares(First(s, m)) <= Shares(s)
<1> DEFINE n == IF m < Len(s) THEN m ELSE Len(s)
           u == First(s, m)
           at == [k \in 1..n |-> k]
           S == DOMAIN s
<1>1. n \in Nat /\ n <= Len(s) /\ S = 1..Len(s) /\ Len(s) \in Nat
    OBVIOUS
<1>2. u = SubSeq(s, 1, n)
    BY DEF First
<1> HIDE DEF n
<1>3. u \in Seq(Level) /\ Len(u) = n /\ \A k \in 1..n : u[k] = s[k]
    BY <1>1, <1>2
<1>4. DOMAIN u = 1..n
    BY <1>1, <1>3
<1>5. PartOf(at, u, n, s, S)
    BY <1>1, <1>3 DEF PartOf
<1>6. IsFiniteSet(S) /\ \A i \in S : s[i].size \in Nat
    BY LevelIndices
<1>7. S = DOMAIN s
    OBVIOUS
<1> HIDE DEF u, at, S
<1>8. Shares(u) <= Shares(s)
    BY <1>1, <1>4, <1>5, <1>6, <1>7, SharesOfPart
<1> QED
    BY <1>3, <1>8 DEF u

LEMMA ArrangedPart ==
    ASSUME NEW s \in Seq(Level), NEW K \in SUBSET (DOMAIN s), NEW key \in [K -> Int],
           NEW u, u = Arranged(s, K, key)
    PROVE  u \in Seq(Level) /\ Shares(u) <= Shares(s)
<1> DEFINE n == Cardinality(K)
           S == DOMAIN s
<1>1. u \in Seq(Level) /\ Len(u) = n /\ n \in Nat /\ \E at : Places(at, s, K, key)
    BY ArrangedFacts
<1>2. PICK at : Places(at, s, K, key)
    BY <1>1
<1>3. DOMAIN u = 1..n
    BY <1>1
<1>4. PartOf(at, u, n, s, S)
    BY <1>2 DEF Places, PartOf
<1>5. IsFiniteSet(S) /\ \A i \in S : s[i].size \in Nat
    BY LevelIndices
<1>6. S = DOMAIN s
    OBVIOUS
<1> HIDE DEF n, S
<1>7. Shares(u) <= Shares(s)
    BY <1>1, <1>3, <1>4, <1>5, <1>6, SharesOfPart
<1> QED
    BY <1>1, <1>7

\* Nothing is added to a book by sorting it, cutting it to a depth or looking near its top.
LEMMA Depth ==
    ASSUME NEW book \in Books, NEW side \in {"buy", "sell"}, NEW depth \in Nat, NEW band,
           NEW near,
           near = Near(First(Executable(book, side), depth), band)
    PROVE  /\ Executable(book, side) \in Seq(Level)
           /\ First(Executable(book, side), depth) \in Seq(Level)
           /\ Shares(near) <= Shares(First(Executable(book, side), depth))
           /\ Shares(First(Executable(book, side), depth))
                  <= Shares(IF side = "buy" THEN book.asks ELSE book.bids)
<1> DEFINE levels == IF side = "buy" THEN book.asks ELSE book.bids
           K == DOMAIN levels
           key == [i \in K |-> IF side = "buy" THEN levels[i].price ELSE -levels[i].price]
           t == Executable(book, side)
           first == First(t, depth)
<1>1. levels \in Seq(Level)
    BY BookSides
<1>2. t = Arranged(levels, K, key)
    BY DEF Executable, CheapestFirst, DearestFirst, Sorted
<1>3. key \in [K -> Int]
  <2>1. \A i \in K : levels[i].price \in Nat
    <3> HIDE DEF levels
    <3> QED
        BY <1>1, LevelIndices
  <2> HIDE DEF levels, K
  <2> QED
      BY <2>1
<1>4. K \in SUBSET (DOMAIN levels)
    OBVIOUS
<1> HIDE DEF levels, K, key, t
<1>5. t \in Seq(Level) /\ Shares(t) <= Shares(levels)
    BY <1>1, <1>2, <1>3, <1>4, ArrangedPart
<1>6. first \in Seq(Level) /\ Shares(first) <= Shares(t)
    BY <1>5, FirstPart
<1> HIDE DEF first
<1>7. Shares(near) <= Shares(first)
  <2> DEFINE I == {i \in DOMAIN first : \A best \in Top(first) :
                      first[i].price \in (best.price - band)..(best.price + band)}
             own == [i \in I |-> i]
  <2>1. near = Arranged(first, I, own)
      BY DEF Near, Kept, first, t
  <2>2. I \in SUBSET (DOMAIN first) /\ \A i \in DOMAIN first : i \in Int
      BY <1>6
  <2> HIDE DEF I
  <2>3. own \in [I -> Int]
      BY <2>2
  <2> HIDE DEF own
  <2> QED
      BY <1>6, <2>1, <2>2, <2>3, ArrangedPart
<1>8. Shares(first) \in Int /\ Shares(t) \in Int /\ Shares(levels) \in Int
  <2> SUFFICES ASSUME NEW s \in Seq(Level) PROVE Shares(s) \in Int
      BY <1>1, <1>5, <1>6
  <2> DEFINE S == DOMAIN s
             size == [i \in S |-> s[i].size]
  <2>1. IsFiniteSet(S) /\ \A i \in S : size[i] \in Nat
      BY LevelIndices
  <2>2. Shares(s) = SumFunctionOnSet(size, S)
      BY DEF Shares, SumFunction
  <2>3. S \in SUBSET S
      OBVIOUS
  <2> HIDE DEF S, size
  <2>4. SumFunctionOnSet(size, S) \in Nat
      BY <2>1, <2>3, SumFacts
  <2> QED
      BY <2>2, <2>4
<1>9. Shares(first) <= Shares(levels)
    BY <1>5, <1>6, <1>8
<1> QED
    BY <1>5, <1>6, <1>7, <1>9 DEF levels, t, first

\* The microprice lies between the best prices, nearer to the price of the thinner side.
LEMMA MicropriceBetween ==
    ASSUME NEW bid \in Level, NEW ask \in Level, bid.price < ask.price,
           NEW m, m = Microprice(bid, ask), bid.size + ask.size > 0
    PROVE  /\ bid.price * m[2] <= m[1] /\ m[1] <= ask.price * m[2]
           /\ bid.size > ask.size => 2 * m[1] > (bid.price + ask.price) * m[2]
<1> SUFFICES ASSUME NEW b \in Nat, NEW a \in Nat, NEW x \in Nat, NEW y \in Nat, b < a
             PROVE  /\ b * (x + y) <= a * x + b * y /\ a * x + b * y <= a * (x + y)
                    /\ x > y => 2 * (a * x + b * y) > (b + a) * (x + y)
    BY DEF Microprice, Level
<1>1. b * (x + y) = b * x + b * y /\ a * (x + y) = a * x + a * y
    OBVIOUS
<1>2. b * x <= a * x /\ b * y <= a * y
    BY Product
<1>3. (b + a) * (x + y) = b * x + b * y + a * x + a * y
    OBVIOUS
<1>4. a * x \in Nat /\ a * y \in Nat /\ b * x \in Nat /\ b * y \in Nat
    BY Product
<1>5. ASSUME x > y PROVE a * x + b * y > b * x + a * y
  <2> DEFINE d == a - b
             e == x - y
  <2>1. d \in Nat \ {0} /\ e \in Nat \ {0} /\ a = b + d /\ x = y + e
      BY <1>5
  <2> HIDE DEF d, e
  <2>2. (b + d) * (y + e) = b * y + b * e + d * y + d * e
      BY <2>1
  <2>3. b * (y + e) = b * y + b * e /\ (b + d) * y = b * y + d * y
      BY <2>1
  <2>4. d * e > 0
      BY <2>1
  <2>5. b * y \in Nat /\ b * e \in Nat /\ d * y \in Nat /\ d * e \in Nat
      BY <2>1, Product
  <2> QED
      BY <2>1, <2>2, <2>3, <2>4, <2>5
<1> QED
    BY <1>1, <1>2, <1>3, <1>4, <1>5

LEMMA RInvAnalysisSound == RInv => AnalysisSound
<1> SUFFICES ASSUME RInv, NEW i \in DOMAIN arrived, NEW depth \in Depths, NEW band \in Bands,
                    NEW sample \in Samples, arrived[i].book # Failed
             PROVE  LET book == arrived[i].book
                        a    == Analysis(book, depth, band, sample)
                    IN /\ FillIsBest(book, sample)
                       /\ \A m \in a.microprice, bid \in a.bid, ask \in a.ask : bid.price < ask.price =>
                             /\ bid.price * m[2] <= m[1] /\ m[1] <= ask.price * m[2]
                             /\ bid.size > ask.size => 2 * m[1] > (bid.price + ask.price) * m[2]
                       /\ a.nearBids[1] <= a.bidDepth[1] /\ a.bidDepth[1] <= Shares(book.bids)
                       /\ a.nearAsks[1] <= a.askDepth[1] /\ a.askDepth[1] <= Shares(book.asks)
    BY DEF AnalysisSound
<1> DEFINE book == arrived[i].book
           a    == Analysis(book, depth, band, sample)
           bids == First(Executable(book, "sell"), depth)
           asks == First(Executable(book, "buy"), depth)
<1>1. book \in Books
  <2>1. arrived \in Seq(Answer)
      BY DEF RInv, ResearchTypes, Answer
  <2>2. arrived[i] \in Answer
      BY <2>1
  <2> QED
      BY <2>2 DEF Answer
<1>2. depth \in Nat /\ sample \in Nat
    BY ResearchAssumption
<1> HIDE DEF book
<1>3. /\ a.bid = Top(bids) /\ a.ask = Top(asks)
      /\ a.microprice = {Microprice(t[1], t[2]) :
                            t \in {u \in Top(bids) \X Top(asks) : u[1].size + u[2].size > 0}}
      /\ a.bidDepth[1] = Shares(bids) /\ a.nearBids[1] = Shares(Near(bids, band))
      /\ a.askDepth[1] = Shares(asks) /\ a.nearAsks[1] = Shares(Near(asks, band))
    BY DEF Analysis
<1>4. FillIsBest(book, sample)
    BY <1>1, <1>2, BuyIsBest, SellIsBest DEF FillIsBest
<1>5. /\ bids \in Seq(Level)
      /\ Shares(Near(bids, band)) <= Shares(bids) /\ Shares(bids) <= Shares(book.bids)
    BY <1>1, <1>2, Depth
<1>6. /\ asks \in Seq(Level)
      /\ Shares(Near(asks, band)) <= Shares(asks) /\ Shares(asks) <= Shares(book.asks)
    BY <1>1, <1>2, Depth
<1> HIDE DEF a, bids, asks
<1>7. ASSUME NEW s \in Seq(Level)
      PROVE  Top(s) \subseteq Level /\ \A x, y \in Top(s) : x = y
    BY DEF Top
<1>8. ASSUME NEW m \in a.microprice, NEW bid \in a.bid, NEW ask \in a.ask, bid.price < ask.price
      PROVE  /\ bid.price * m[2] <= m[1] /\ m[1] <= ask.price * m[2]
             /\ bid.size > ask.size => 2 * m[1] > (bid.price + ask.price) * m[2]
  <2>1. PICK b \in Top(bids), c \in Top(asks) : m = Microprice(b, c) /\ b.size + c.size > 0
      BY <1>3
  <2>2. b = bid /\ c = ask /\ bid \in Level /\ ask \in Level
      BY <1>3, <1>5, <1>6, <1>7, <2>1
  <2> QED
      BY <1>8, <2>1, <2>2, MicropriceBetween
<1> QED
    BY <1>3, <1>4, <1>5, <1>6, <1>8 DEF a, book

\* analyze_book and simulate_book, for any books in any order of levels, any depth, band
\* and sample: the sample is filled as far as the book goes and at the best price there
\* is, the microprice lies within an uncrossed spread and leans to its thinner side, and
\* the depths are parts of the book.
THEOREM SpecAnalysisSound == Spec => []AnalysisSound
    BY SpecRInv, RInvAnalysisSound, PTL

-----------------------------------------------------------------------------
(* Pages of the listing: the order of markets. *)

\* Markets with a volume each.
Volumed(S, v) == S \subseteq Nat /\ IsFiniteSet(S) /\ \A m \in S : v[m] \in Nat

Higher(S, v, m) == {k \in S : Above(v, k, m)}

\* The order is a total one.
LEMMA AboveIsTotal ==
    ASSUME NEW S, NEW v, Volumed(S, v), NEW m \in S, NEW k \in S
    PROVE  /\ m \in Nat /\ k \in Nat /\ v[m] \in Nat /\ v[k] \in Nat
           /\ ~Above(v, m, m)
           /\ ~(Above(v, m, k) /\ Above(v, k, m))
           /\ m # k => Above(v, m, k) \/ Above(v, k, m)
<1>1. m \in Nat /\ k \in Nat /\ v[m] \in Nat /\ v[k] \in Nat
    BY DEF Volumed
<1> QED
    BY <1>1 DEF Above

\* And transitive.
LEMMA AboveIsTransitive ==
    ASSUME NEW S, NEW v, Volumed(S, v), NEW m \in S, NEW k \in S, NEW x \in S,
           Above(v, m, k), Above(v, k, x)
    PROVE  Above(v, m, x)
<1>1. m \in Nat /\ k \in Nat /\ x \in Nat /\ v[m] \in Nat /\ v[k] \in Nat /\ v[x] \in Nat
    BY DEF Volumed
<1> QED
    BY <1>1 DEF Above

\* How many markets go before one.
LEMMA BeforeFacts ==
    ASSUME NEW S, NEW v, Volumed(S, v), NEW m \in S
    PROVE  /\ Before(S, v, m) = Cardinality(Higher(S, v, m))
           /\ IsFiniteSet(Higher(S, v, m)) /\ Higher(S, v, m) \subseteq S
           /\ Cardinality(S) \in Nat
           /\ Before(S, v, m) \in Nat /\ Before(S, v, m) < Cardinality(S)
           /\ \A k \in S : Above(v, k, m) => Before(S, v, k) < Before(S, v, m)
           /\ \A k \in S : Before(S, v, k) = Before(S, v, m) => k = m
<1>1. \A k \in S : /\ Before(S, v, k) = Cardinality(Higher(S, v, k))
                   /\ IsFiniteSet(Higher(S, v, k)) /\ Higher(S, v, k) \subseteq S
                   /\ Cardinality(Higher(S, v, k)) \in Nat
    BY FS_Subset, FS_CardinalityType DEF Before, Higher, Volumed
<1>2. ASSUME NEW x \in S, NEW k \in S, Above(v, k, x)
      PROVE  Before(S, v, k) < Before(S, v, x)
  <2>1. Higher(S, v, k) \subseteq Higher(S, v, x)
      BY <1>2, AboveIsTransitive DEF Higher
  <2>2. k \in Higher(S, v, x) /\ k \notin Higher(S, v, k)
      BY <1>2, AboveIsTotal DEF Higher
  <2> QED
      BY <1>1, <2>1, <2>2, FS_Subset
<1>3. \A k \in S : Before(S, v, k) = Before(S, v, m) => k = m
    BY <1>1, <1>2, AboveIsTotal
<1>4. Higher(S, v, m) # S
    BY AboveIsTotal DEF Higher
<1>5. IsFiniteSet(S) /\ Cardinality(S) \in Nat
    BY FS_CardinalityType DEF Volumed
<1>6. Cardinality(Higher(S, v, m)) < Cardinality(S)
    BY <1>1, <1>4, <1>5, FS_Subset
<1> QED
    BY <1>1, <1>2, <1>3, <1>5, <1>6

\* Each place but the last is that of one market.
LEMMA PlacesTaken ==
    ASSUME NEW S, NEW v, Volumed(S, v), NEW n \in Nat, n < Cardinality(S)
    PROVE  \E m \in S : Before(S, v, m) = n
<1> DEFINE N == Cardinality(S)
           place == [m \in S |-> Before(S, v, m)]
<1>1. N \in Nat /\ IsFiniteSet(S)
    BY FS_CardinalityType DEF Volumed
<1>2. \A m \in S : place[m] \in 0..(N - 1)
    BY <1>1, BeforeFacts
<1>3. place \in Injection(S, 0..(N - 1))
  <2>1. \A m, k \in S : place[m] = place[k] => m = k
      BY BeforeFacts
  <2> QED
      BY <1>2, <2>1 DEF Injection, IsInjective
<1>4. IsFiniteSet(0..(N - 1)) /\ Cardinality(0..(N - 1)) = N
  <2>1. N - 1 \in Int /\ 0 \in Int /\ ~(0 > N - 1) /\ (N - 1) - 0 + 1 = N
      BY <1>1
  <2> QED
      BY <2>1, FS_Interval
<1>5. place \in Surjection(S, 0..(N - 1))
    BY <1>3, <1>4, FS_Injection
<1>6. n \in 0..(N - 1)
    BY <1>1
<1> QED
    BY <1>5, <1>6 DEF Surjection

\* What Ranked is.
LEMMA RankedFacts ==
    ASSUME NEW S, NEW v, Volumed(S, v)
    PROVE  /\ Cardinality(S) \in Nat
           /\ Ranked(S, v) \in Seq(S) /\ Len(Ranked(S, v)) = Cardinality(S)
           /\ DOMAIN Ranked(S, v) = 1..Cardinality(S)
           /\ \A i \in 1..Cardinality(S) :
                  Ranked(S, v)[i] \in S /\ Before(S, v, Ranked(S, v)[i]) = i - 1
           /\ \A m \in S : /\ Before(S, v, m) + 1 \in 1..Cardinality(S)
                           /\ Ranked(S, v)[Before(S, v, m) + 1] = m
           /\ ToSet(Ranked(S, v)) = S
<1> DEFINE N == Cardinality(S)
           At(i) == CHOOSE m \in S : Before(S, v, m) = i - 1
<1>1. N \in Nat
    BY FS_CardinalityType DEF Volumed
<1>2. \A i \in 1..N : At(i) \in S /\ Before(S, v, At(i)) = i - 1
  <2> SUFFICES ASSUME NEW i \in 1..N PROVE \E m \in S : Before(S, v, m) = i - 1
      OBVIOUS
  <2>1. i - 1 \in Nat /\ i - 1 < N
      BY <1>1
  <2> QED
      BY <2>1, PlacesTaken
<1>3. Ranked(S, v) = [i \in 1..N |-> At(i)]
    BY DEF Ranked
<1> HIDE DEF At
<1>4. Ranked(S, v) \in Seq(S) /\ Len(Ranked(S, v)) = N /\ DOMAIN Ranked(S, v) = 1..N
    BY <1>1, <1>2, <1>3
<1>5. \A i \in 1..N : Ranked(S, v)[i] \in S /\ Before(S, v, Ranked(S, v)[i]) = i - 1
    BY <1>2, <1>3
<1>6. ASSUME NEW m \in S
      PROVE  Before(S, v, m) + 1 \in 1..N /\ Ranked(S, v)[Before(S, v, m) + 1] = m
  <2>1. Before(S, v, m) \in Nat /\ Before(S, v, m) < N
      BY BeforeFacts
  <2>2. Before(S, v, m) + 1 \in 1..N
      BY <1>1, <2>1
  <2>3. PICK i \in 1..N : i = Before(S, v, m) + 1
      BY <2>2
  <2>4. Ranked(S, v)[i] \in S /\ Before(S, v, Ranked(S, v)[i]) = i - 1
      BY <1>5
  <2>5. Before(S, v, Ranked(S, v)[i]) = Before(S, v, m)
      BY <2>1, <2>3, <2>4
  <2>6. Ranked(S, v)[i] = m
      BY <2>4, <2>5, BeforeFacts
  <2> QED
      BY <2>2, <2>3, <2>6
<1>7. ToSet(Ranked(S, v)) = S
    BY <1>4, <1>5, <1>6 DEF ToSet
<1> QED
    BY <1>1, <1>4, <1>5, <1>6, <1>7

\* A range has as many members as its last.
LEMMA Numbered ==
    ASSUME NEW n \in Nat
    PROVE  IsFiniteSet(1..n) /\ Cardinality(1..n) = n
    BY FS_Interval

\* The first n of a set are n, or all.
LEMMA TopFacts ==
    ASSUME NEW S, NEW v, Volumed(S, v), NEW n \in Nat
    PROVE  /\ Leaders(S, v, n) \subseteq S /\ IsFiniteSet(Leaders(S, v, n))
           /\ Cardinality(S) \in Nat
           /\ Cardinality(Leaders(S, v, n)) = IF n <= Cardinality(S) THEN n ELSE Cardinality(S)
           /\ n >= Cardinality(S) => Leaders(S, v, n) = S
<1> DEFINE L == IF n <= Cardinality(S) THEN n ELSE Cardinality(S)
           T == Leaders(S, v, n)
           at == [i \in 1..L |-> Ranked(S, v)[i]]
<1>1. L \in Nat /\ Cardinality(S) \in Nat /\ L <= Cardinality(S) /\ L <= n /\ IsFiniteSet(S)
  <2>1. Cardinality(S) \in Nat /\ IsFiniteSet(S)
      BY FS_CardinalityType DEF Volumed
  <2> QED
      BY <2>1
<1>2. T \subseteq S /\ IsFiniteSet(T)
    BY <1>1, FS_Subset DEF Leaders
<1>3. ASSUME NEW i \in 1..L
      PROVE  at[i] \in T /\ Before(S, v, at[i]) = i - 1
  <2>1. i \in 1..Cardinality(S) /\ i - 1 < n
      BY <1>1
  <2>2. at[i] \in S /\ Before(S, v, at[i]) = i - 1
      BY <2>1, RankedFacts
  <2> QED
      BY <2>1, <2>2 DEF Leaders
<1>4. ASSUME NEW m \in T
      PROVE  \E i \in 1..L : at[i] = m
  <2>1. m \in S /\ Before(S, v, m) \in Nat /\ Before(S, v, m) < n /\ Before(S, v, m) < Cardinality(S)
      BY BeforeFacts DEF Leaders
  <2>2. PICK i \in 1..L : i = Before(S, v, m) + 1
      BY <1>1, <2>1
  <2>3. at[i] = m
      BY <2>1, <2>2, RankedFacts
  <2> QED
      BY <2>3
<1>5. at \in Bijection(1..L, T)
  <2>1. at \in [1..L -> T]
      BY <1>3
  <2>2. \A i, j \in 1..L : at[i] = at[j] => i = j
    <3> SUFFICES ASSUME NEW i \in 1..L, NEW j \in 1..L, at[i] = at[j]
                 PROVE  i = j
        OBVIOUS
    <3>1. Before(S, v, at[i]) = i - 1 /\ Before(S, v, at[j]) = j - 1
        BY <1>3
    <3> HIDE DEF at
    <3> QED
        BY <3>1
  <2> HIDE DEF at, L, T
  <2> QED
      BY <2>1, <2>2, <1>4 DEF Bijection, Injection, Surjection, IsInjective
<1>6. IsFiniteSet(1..L) /\ Cardinality(1..L) = L
    BY <1>1, Numbered
<1>7. Cardinality(T) = L
    BY <1>5, <1>6, FS_Bijection DEF ExistsBijection
<1>8. n >= Cardinality(S) => T = S
    BY <1>1, BeforeFacts DEF Leaders
<1> QED
    BY <1>1, <1>2, <1>7, <1>8

\* More of them contain those before.
LEMMA TopGrows ==
    ASSUME NEW S, NEW v, Volumed(S, v), NEW n \in Nat, NEW k \in Nat, n <= k
    PROVE  Leaders(S, v, n) \subseteq Leaders(S, v, k)
<1> SUFFICES ASSUME NEW m \in Leaders(S, v, n) PROVE m \in Leaders(S, v, k)
    OBVIOUS
<1>1. m \in S /\ Before(S, v, m) \in Nat /\ Before(S, v, m) < n
    BY BeforeFacts DEF Leaders
<1> QED
    BY <1>1 DEF Leaders

Alike(S, v, w) == \A m \in S : v[m] = w[m]

\* Two sets of markets and their volumes differ in m at most.
SameBut(S, v, T, w, m) ==
    /\ Volumed(S, v) /\ Volumed(T, w)
    /\ S \ {m} = T \ {m} /\ Alike(S \ {m}, v, w)

\* What a market that moves does to the place of another.
LEMMA PlaceMoves ==
    ASSUME NEW S, NEW v, NEW T, NEW w, NEW m, SameBut(S, v, T, w, m), NEW k \in S, k # m
    PROVE  /\ k \in T /\ Before(S, v, k) \in Nat /\ Before(T, w, k) \in Nat
           /\ Before(T, w, k) = Before(S, v, k) - (IF m \in Higher(S, v, k) THEN 1 ELSE 0)
                                                + (IF m \in Higher(T, w, k) THEN 1 ELSE 0)
<1> DEFINE A == Higher(S, v, k)
           B == Higher(T, w, k)
<1>1. k \in T
    BY DEF SameBut
<1>2. A \ {m} = B \ {m}
  <2>1. ASSUME NEW x, x # m PROVE x \in A <=> x \in B
    <3>1. x \in S <=> x \in T
        BY <2>1 DEF SameBut
    <3>2. x \in S => v[x] = w[x]
        BY <2>1 DEF SameBut, Alike
    <3>3. v[k] = w[k]
        BY DEF SameBut, Alike
    <3> QED
        BY <3>1, <3>2, <3>3 DEF Higher, Above
  <2> QED
      BY <2>1
<1>3. /\ Before(S, v, k) = Cardinality(A) /\ IsFiniteSet(A) /\ Before(S, v, k) \in Nat
      /\ Before(T, w, k) = Cardinality(B) /\ IsFiniteSet(B) /\ Before(T, w, k) \in Nat
    BY <1>1, BeforeFacts DEF SameBut
<1> HIDE DEF A, B
<1>4. Cardinality(A \ {m}) = IF m \in A THEN Cardinality(A) - 1 ELSE Cardinality(A)
    BY <1>3, FS_RemoveElement
<1>5. Cardinality(B \ {m}) = IF m \in B THEN Cardinality(B) - 1 ELSE Cardinality(B)
    BY <1>3, FS_RemoveElement
<1>6. Before(T, w, k) = Before(S, v, k) - (IF m \in A THEN 1 ELSE 0) + (IF m \in B THEN 1 ELSE 0)
  <2> DEFINE p == Cardinality(A)
             q == Cardinality(B)
  <2>1. p \in Nat /\ q \in Nat /\ p = Before(S, v, k) /\ q = Before(T, w, k)
      BY <1>3
  <2>2. (IF m \in A THEN p - 1 ELSE p) = (IF m \in B THEN q - 1 ELSE q)
      BY <1>2, <1>4, <1>5
  <2> HIDE DEF p, q
  <2>3. q = p - (IF m \in A THEN 1 ELSE 0) + (IF m \in B THEN 1 ELSE 0)
      BY <2>1, <2>2
  <2> QED
      BY <2>1, <2>3
<1> QED
    BY <1>1, <1>3, <1>6 DEF A, B

\* Where a change of one market keeps the first n.
LEMMA TopKept ==
    ASSUME NEW S, NEW v, NEW T, NEW w, NEW m, SameBut(S, v, T, w, m), NEW n \in Nat,
           m \in Leaders(S, v, n) \/ m \notin Leaders(T, w, n)
    PROVE  Leaders(S, v, n) \ {m} \subseteq Leaders(T, w, n)
<1>1. Volumed(S, v) /\ Volumed(T, w)
    BY DEF SameBut
<1> SUFFICES ASSUME NEW k \in Leaders(S, v, n), k # m PROVE k \in Leaders(T, w, n)
    OBVIOUS
<1>2. k \in S /\ Before(S, v, k) < n
    BY DEF Leaders
<1>3. /\ k \in T /\ Before(S, v, k) \in Nat /\ Before(T, w, k) \in Nat
      /\ Before(T, w, k) <= Before(S, v, k) + 1
      /\ m \in Higher(S, v, k) => Before(T, w, k) <= Before(S, v, k)
      /\ m \notin Higher(T, w, k) => Before(T, w, k) <= Before(S, v, k)
    BY <1>2, PlaceMoves
<1>4. CASE m \in Leaders(S, v, n)
  <2>1. m \in S /\ Before(S, v, m) < n /\ Before(S, v, m) \in Nat
      BY <1>1, <1>4, BeforeFacts DEF Leaders
  <2>2. m \notin Higher(S, v, k) => Before(S, v, k) < Before(S, v, m)
      BY <1>1, <1>2, <2>1, AboveIsTotal, BeforeFacts DEF Higher
  <2>3. Before(T, w, k) < n
      BY <1>2, <1>3, <2>1, <2>2
  <2> QED
      BY <1>3, <2>3 DEF Leaders
<1>5. CASE m \notin Leaders(T, w, n)
  <2>1. ASSUME m \in Higher(T, w, k) PROVE FALSE
    <3>1. m \in T /\ Above(w, m, k)
        BY <2>1 DEF Higher
    <3>2. Before(T, w, m) < Before(T, w, k) /\ Before(T, w, m) \in Nat
        BY <1>1, <1>3, <3>1, BeforeFacts
    <3>3. Before(T, w, m) < n
        BY <1>2, <1>3, <3>2
    <3> QED
        BY <1>5, <3>1, <3>3 DEF Leaders
  <2>2. Before(T, w, k) < n
      BY <1>2, <1>3, <2>1
  <2> QED
      BY <1>3, <2>2 DEF Leaders
<1> QED
    BY <1>4, <1>5

\* A place is that of one market at most.
LEMMA OneAtPlace ==
    ASSUME NEW S, NEW v, Volumed(S, v), NEW n \in Nat
    PROVE  \E z : \A k \in S : Before(S, v, k) + 1 = n => k = z
<1>1. CASE \E z \in S : Before(S, v, z) + 1 = n
  <2>1. PICK z \in S : Before(S, v, z) + 1 = n
      BY <1>1
  <2>2. ASSUME NEW k \in S, Before(S, v, k) + 1 = n PROVE k = z
    <3>1. Before(S, v, k) \in Nat /\ Before(S, v, z) \in Nat
        BY BeforeFacts
    <3>2. Before(S, v, k) = Before(S, v, z)
        BY <2>1, <2>2, <3>1
    <3> QED
        BY <3>2, BeforeFacts
  <2> QED
      BY <2>2
<1>2. CASE ~\E z \in S : Before(S, v, z) + 1 = n
    BY <1>2
<1> QED
    BY <1>1, <1>2

\* A change of one market costs the first n one of them.
LEMMA TopSwap ==
    ASSUME NEW S, NEW v, NEW T, NEW w, NEW m, SameBut(S, v, T, w, m), NEW n \in Nat
    PROVE  \E z : Leaders(S, v, n) \ {z} \subseteq Leaders(T, w, n)
<1>1. Volumed(S, v) /\ Volumed(T, w)
    BY DEF SameBut
<1>2. CASE m \in Leaders(S, v, n)
    BY <1>2, TopKept
<1>3. CASE m \notin Leaders(S, v, n)
  <2>1. PICK z : \A k \in S : Before(S, v, k) + 1 = n => k = z
      BY <1>1, OneAtPlace
  <2>2. ASSUME NEW k \in Leaders(S, v, n), k # z PROVE k \in Leaders(T, w, n)
    <3>1. k \in S /\ Before(S, v, k) < n /\ k # m
        BY <1>3 DEF Leaders
    <3>2. /\ k \in T /\ Before(S, v, k) \in Nat /\ Before(T, w, k) \in Nat
          /\ Before(T, w, k) <= Before(S, v, k) + 1
        BY <3>1, PlaceMoves
    <3>3. Before(S, v, k) + 1 # n
        BY <2>1, <2>2, <3>1
    <3> QED
        BY <3>1, <3>2, <3>3 DEF Leaders
  <2> QED
      BY <2>2
<1> QED
    BY <1>2, <1>3

\* Volumes that agree on the markets rank them the same.
LEMMA AlikeRanked ==
    ASSUME NEW S, NEW v, NEW w, Volumed(S, v), Alike(S, v, w)
    PROVE  /\ Volumed(S, w)
           /\ \A m \in S : Before(S, v, m) = Before(S, w, m)
           /\ Ranked(S, v) = Ranked(S, w)
           /\ \A n \in Nat : Leaders(S, v, n) = Leaders(S, w, n)
<1>1. Volumed(S, w)
    BY DEF Volumed, Alike
<1>2. ASSUME NEW m \in S PROVE Before(S, v, m) = Before(S, w, m)
  <2>1. {k \in S : Above(v, k, m)} = {k \in S : Above(w, k, m)}
    <3>1. \A k \in S : v[k] = w[k]
        BY DEF Alike
    <3> QED
        BY <3>1 DEF Above
  <2> QED
      BY <2>1 DEF Before
<1>3. Ranked(S, v) = Ranked(S, w)
  <2>1. \A i \in 1..Cardinality(S) :
            (CHOOSE m \in S : Before(S, v, m) = i - 1) = (CHOOSE m \in S : Before(S, w, m) = i - 1)
      BY <1>2
  <2> QED
      BY <2>1 DEF Ranked
<1>4. \A n \in Nat : Leaders(S, v, n) = Leaders(S, w, n)
    BY <1>2 DEF Leaders
<1> QED
    BY <1>1, <1>2, <1>3, <1>4

\* Two sets of markets and their volumes differ in the markets of D at most.
SameOutside(S, v, T, w, D) ==
    /\ Volumed(S, v) /\ Volumed(T, w) /\ IsFiniteSet(D)
    /\ S \ D = T \ D /\ Alike(S \ D, v, w)

\* Changes of the markets in D cost the first n as many as they are.
LEMMA TopMoved ==
    ASSUME NEW S, NEW v, NEW T, NEW w, NEW D, SameOutside(S, v, T, w, D), NEW n \in Nat
    PROVE  Cardinality(Leaders(S, v, n) \ Leaders(T, w, n)) <= Cardinality(D)
<1> DEFINE Costs(A, x, B, y, C) == Cardinality(Leaders(A, x, n) \ Leaders(B, y, n)) <= Cardinality(C)
           Q(k) == \A A, x, B, y, C :
                       SameOutside(A, x, B, y, C) /\ Cardinality(C) = k => Costs(A, x, B, y, C)
           N == {k \in Nat : Q(k)}
<1>1. ASSUME NEW A, NEW x, NEW B, NEW y, NEW C, SameOutside(A, x, B, y, C), Cardinality(C) = 0
      PROVE  Costs(A, x, B, y, C)
  <2>1. C = {}
      BY <1>1, FS_EmptySet DEF SameOutside
  <2>2. A = B /\ Alike(A, x, y) /\ Volumed(A, x)
      BY <1>1, <2>1 DEF SameOutside
  <2>3. Leaders(A, x, n) = Leaders(B, y, n)
      BY <2>2, AlikeRanked
  <2> QED
      BY <1>1, <2>3, FS_EmptySet
<1>2. ASSUME NEW k \in Nat, Q(k),
             NEW A, NEW x, NEW B, NEW y, NEW C, SameOutside(A, x, B, y, C), Cardinality(C) = k + 1
      PROVE  Costs(A, x, B, y, C)
  <2>1. PICK c \in C : TRUE
      BY <1>2, FS_EmptySet
  <2> DEFINE E == (A \ {c}) \cup (B \cap {c})
             z == [m \in E |-> IF m = c THEN y[m] ELSE x[m]]
  <2>2. Volumed(A, x) /\ Volumed(B, y) /\ IsFiniteSet(C)
      BY <1>2 DEF SameOutside
  <2>3. Volumed(E, z)
    <3>1. IsFiniteSet(E)
      <4>1. IsFiniteSet(A) /\ IsFiniteSet(B)
          BY <2>2 DEF Volumed
      <4>2. IsFiniteSet(A \cup B) /\ E \in SUBSET (A \cup B)
          BY <4>1, FS_Union
      <4> QED
          BY <4>2, FS_Subset
    <3>2. E \subseteq Nat /\ \A m \in E : z[m] \in Nat
        BY <2>2 DEF Volumed
    <3> QED
        BY <3>1, <3>2 DEF Volumed
  <2>4. SameBut(A, x, E, z, c)
    <3>1. A \ {c} = E \ {c} /\ \A m \in A \ {c} : x[m] = z[m]
        OBVIOUS
    <3> QED
        BY <2>2, <2>3, <3>1 DEF SameBut, Alike
  <2>5. SameOutside(E, z, B, y, C \ {c})
    <3>1. E \ (C \ {c}) = B \ (C \ {c})
        BY <1>2, <2>1 DEF SameOutside
    <3>2. \A m \in E \ (C \ {c}) : z[m] = y[m]
        BY <1>2, <2>1 DEF SameOutside, Alike
    <3>3. IsFiniteSet(C \ {c})
        BY <2>2, FS_RemoveElement
    <3> QED
        BY <2>2, <2>3, <3>1, <3>2, <3>3 DEF SameOutside, Alike
  <2>6. Cardinality(C \ {c}) = k
      BY <1>2, <2>1, <2>2, FS_RemoveElement
  <2> HIDE DEF E, z
  <2>7. Costs(E, z, B, y, C \ {c})
      BY <1>2, <2>5, <2>6
  <2>8. PICK d : Leaders(A, x, n) \ {d} \subseteq Leaders(E, z, n)
      BY <2>4, TopSwap
  <2> DEFINE lost == Leaders(E, z, n) \ Leaders(B, y, n)
  <2>9. IsFiniteSet(lost) /\ Cardinality(lost) <= k /\ Cardinality(lost) \in Nat
      BY <2>3, <2>6, <2>7, TopFacts, FS_Subset, FS_CardinalityType
  <2>10. Leaders(A, x, n) \ Leaders(B, y, n) \in SUBSET (lost \cup {d})
      BY <2>8
  <2> HIDE DEF lost
  <2>11. IsFiniteSet(lost \cup {d}) /\ Cardinality(lost \cup {d}) <= k + 1 /\ Cardinality(lost \cup {d}) \in Nat
    <3>1. IsFiniteSet(lost \cup {d})
        BY <2>9, FS_AddElement
    <3>2. Cardinality(lost \cup {d}) = IF d \in lost THEN Cardinality(lost) ELSE Cardinality(lost) + 1
        BY <2>9, FS_AddElement
    <3> QED
        BY <2>9, <3>1, <3>2
  <2>12. /\ IsFiniteSet(Leaders(A, x, n) \ Leaders(B, y, n))
         /\ Cardinality(Leaders(A, x, n) \ Leaders(B, y, n)) <= Cardinality(lost \cup {d})
      BY <2>10, <2>11, FS_Subset
  <2>13. Cardinality(Leaders(A, x, n) \ Leaders(B, y, n)) \in Nat
      BY <2>12, FS_CardinalityType
  <2> QED
      BY <1>2, <2>11, <2>12, <2>13
<1> HIDE DEF Costs
<1>3. 0 \in N
    BY <1>1
<1>4. \A k \in Nat : k \in N => k + 1 \in N
    BY <1>2
<1>5. Nat \subseteq N
  <2> HIDE DEF N
  <2> QED
      BY <1>3, <1>4, Induction
<1>6. Cardinality(D) \in Nat
    BY FS_CardinalityType DEF SameOutside
<1>7. Costs(S, v, T, w, D)
    BY <1>5, <1>6
<1> QED
    BY <1>7 DEF Costs

\* Disjoint sets count together.
LEMMA UnionOfDisjoint ==
    ASSUME NEW A, NEW B, IsFiniteSet(A), IsFiniteSet(B), A \cap B = {}
    PROVE  /\ IsFiniteSet(A \cup B) /\ Cardinality(A) \in Nat /\ Cardinality(B) \in Nat
           /\ Cardinality(A \cup B) = Cardinality(A) + Cardinality(B)
<1>1. Cardinality(A) \in Nat /\ Cardinality(B) \in Nat /\ Cardinality(A \cap B) = 0
    BY FS_CardinalityType, FS_EmptySet
<1>2. /\ IsFiniteSet(A \cup B)
      /\ Cardinality(A \cup B) = Cardinality(A) + Cardinality(B) - Cardinality(A \cap B)
    BY FS_Union
<1> QED
    BY <1>1, <1>2

\* Sequences with the same elements are equal.
LEMMA SameSequence ==
    ASSUME NEW X, NEW s \in Seq(X), NEW t \in Seq(X), Len(s) = Len(t),
           \A i \in 1..Len(s) : s[i] = t[i]
    PROVE  s = t
    OBVIOUS

\* The markets of G come first among those of S.
Heads(G, S, v) ==
    /\ Volumed(S, v) /\ G \subseteq S
    /\ \A m \in G, k \in S \ G : Above(v, m, k)

\* A part of a set of markets is one.
LEMMA VolumedPart ==
    ASSUME NEW S, NEW v, Volumed(S, v), NEW T, T \subseteq S
    PROVE  Volumed(T, v) /\ Cardinality(T) \in Nat /\ Cardinality(T) <= Cardinality(S)
    BY FS_Subset, FS_CardinalityType DEF Volumed

\* Places within the first and within the others.
LEMMA HeadParts ==
    ASSUME NEW G, NEW S, NEW v, Heads(G, S, v)
    PROVE  /\ Volumed(S, v) /\ Volumed(G, v) /\ Volumed(S \ G, v) /\ G \subseteq S
           /\ Cardinality(G) \in Nat /\ Cardinality(S \ G) \in Nat
           /\ Cardinality(S) = Cardinality(G) + Cardinality(S \ G)
<1>1. Volumed(S, v) /\ Volumed(G, v) /\ Volumed(S \ G, v)
    BY VolumedPart DEF Heads
<1>2. IsFiniteSet(G) /\ IsFiniteSet(S \ G) /\ G \cup (S \ G) = S /\ G \cap (S \ G) = {} /\ G \subseteq S
    BY <1>1 DEF Volumed, Heads
<1> QED
    BY <1>1, <1>2, UnionOfDisjoint

\* A market of the head is where it is among all.
LEMMA HeadPlace ==
    ASSUME NEW G, NEW S, NEW v, Heads(G, S, v), NEW m \in G
    PROVE  m \in S /\ Before(S, v, m) = Before(G, v, m)
<1>1. Volumed(S, v) /\ G \subseteq S
    BY HeadParts
<1>2. ASSUME NEW k \in S, Above(v, k, m) PROVE k \in G
    BY <1>1, <1>2, AboveIsTotal DEF Heads
<1>3. {k \in S : Above(v, k, m)} = {k \in G : Above(v, k, m)}
    BY <1>1, <1>2
<1> QED
    BY <1>1, <1>3 DEF Before

\* A market of the tail comes after the whole head.
LEMMA TailPlace ==
    ASSUME NEW G, NEW S, NEW v, Heads(G, S, v), NEW m \in S \ G
    PROVE  Before(S, v, m) = Cardinality(G) + Before(S \ G, v, m)
<1> DEFINE H == Higher(S \ G, v, m)
<1>1. Higher(S, v, m) = G \cup H /\ G \cap H = {}
    BY DEF Higher, Heads
<1>2. Volumed(S, v) /\ Volumed(S \ G, v) /\ Volumed(G, v)
    BY HeadParts
<1>3. /\ Before(S, v, m) = Cardinality(Higher(S, v, m))
      /\ Before(S \ G, v, m) = Cardinality(H)
      /\ IsFiniteSet(H)
    BY <1>2, BeforeFacts
<1>4. IsFiniteSet(G)
    BY <1>2 DEF Volumed
<1> HIDE DEF H
<1>5. Cardinality(G \cup H) = Cardinality(G) + Cardinality(H)
    BY <1>1, <1>3, <1>4, UnionOfDisjoint
<1> QED
    BY <1>1, <1>3, <1>5

\* The first of all are those of the head ...
LEMMA HeadTop ==
    ASSUME NEW G, NEW S, NEW v, Heads(G, S, v), NEW n \in Nat, n <= Cardinality(G)
    PROVE  Leaders(S, v, n) = Leaders(G, v, n)
<1>1. Cardinality(G) \in Nat /\ Volumed(S \ G, v) /\ G \subseteq S
    BY HeadParts
<1>2. ASSUME NEW m \in S \ G PROVE ~(Before(S, v, m) < n)
  <2>1. Before(S, v, m) = Cardinality(G) + Before(S \ G, v, m) /\ Before(S \ G, v, m) \in Nat
      BY <1>1, BeforeFacts, TailPlace
  <2> QED
      BY <1>1, <2>1
<1>3. \A m \in G : Before(S, v, m) = Before(G, v, m)
    BY HeadPlace
<1> QED
    BY <1>1, <1>2, <1>3 DEF Leaders

\* ... as long as it lasts, and those of the tail after it.
LEMMA HeadTops ==
    ASSUME NEW G, NEW S, NEW v, Heads(G, S, v), NEW n \in Nat
    PROVE  /\ Leaders(S, v, Cardinality(G) + n) = G \cup Leaders(S \ G, v, n)
           /\ G \subseteq Leaders(S, v, Cardinality(G) + n)
<1> DEFINE g == Cardinality(G)
<1>1. Volumed(G, v) /\ Volumed(S \ G, v) /\ g \in Nat /\ G \subseteq S
    BY HeadParts
<1>2. ASSUME NEW m \in G PROVE Before(S, v, m) < g + n
  <2>1. Before(G, v, m) \in Nat /\ Before(G, v, m) < g
      BY <1>1, BeforeFacts
  <2>2. Before(S, v, m) = Before(G, v, m)
      BY HeadPlace
  <2> HIDE DEF g
  <2> QED
      BY <1>1, <2>1, <2>2
<1>3. ASSUME NEW m \in S \ G PROVE Before(S, v, m) < g + n <=> Before(S \ G, v, m) < n
  <2>1. Before(S, v, m) = g + Before(S \ G, v, m) /\ Before(S \ G, v, m) \in Nat
      BY <1>1, BeforeFacts, TailPlace
  <2> HIDE DEF g
  <2> QED
      BY <1>1, <2>1
<1> HIDE DEF g
<1>4. Leaders(S, v, g + n) = G \cup Leaders(S \ G, v, n)
    BY <1>1, <1>2, <1>3 DEF Leaders
<1> QED
    BY <1>4 DEF g

\* The first ranked, and then the others.
LEMMA HeadRanked ==
    ASSUME NEW G, NEW S, NEW v, Heads(G, S, v)
    PROVE  Ranked(S, v) = Ranked(G, v) \o Ranked(S \ G, v)
<1> DEFINE g == Cardinality(G)
           h == Cardinality(S \ G)
           a == Ranked(G, v)
           b == Ranked(S \ G, v)
           r == Ranked(S, v)
<1>1. /\ Volumed(S, v) /\ Volumed(G, v) /\ Volumed(S \ G, v) /\ g \in Nat /\ h \in Nat
      /\ Cardinality(S) = g + h /\ G \subseteq S
      /\ \A m \in G : Before(S, v, m) = Before(G, v, m)
      /\ \A m \in S \ G : Before(S, v, m) = g + Before(S \ G, v, m)
    BY HeadParts, HeadPlace, TailPlace
<1>2. a \in Seq(G) /\ Len(a) = g /\ \A i \in 1..g : a[i] \in G /\ Before(G, v, a[i]) = i - 1
    BY <1>1, RankedFacts
<1>3. b \in Seq(S \ G) /\ Len(b) = h /\ \A i \in 1..h : b[i] \in S \ G /\ Before(S \ G, v, b[i]) = i - 1
    BY <1>1, RankedFacts
<1>4. /\ r \in Seq(S) /\ Len(r) = g + h
      /\ \A m \in S : Before(S, v, m) + 1 \in 1..(g + h) /\ r[Before(S, v, m) + 1] = m
  <2>1. /\ r \in Seq(S) /\ Len(r) = Cardinality(S)
        /\ \A m \in S : /\ Before(S, v, m) + 1 \in 1..Cardinality(S)
                        /\ r[Before(S, v, m) + 1] = m
      BY <1>1, RankedFacts
  <2> QED
      BY <1>1, <2>1
<1> HIDE DEF a, b, r, g, h
<1>5. a \in Seq(S) /\ b \in Seq(S)
    BY <1>1, <1>2, <1>3
<1>6. ASSUME NEW i \in 1..(g + h) PROVE r[i] = (a \o b)[i]
  <2>1. CASE i <= g
    <3>1. i \in 1..g
        BY <1>1, <2>1
    <3>2. a[i] \in G /\ Before(G, v, a[i]) = i - 1
        BY <1>2, <3>1
    <3>3. Before(S, v, a[i]) = i - 1 /\ a[i] \in S
        BY <1>1, <3>2
    <3>4. Before(S, v, a[i]) + 1 = i
        BY <1>1, <3>1, <3>3
    <3>5. r[i] = a[i]
        BY <1>4, <3>3, <3>4
    <3>6. (a \o b)[i] = a[i]
        BY <1>2, <1>5, <3>1, <1>3
    <3> QED
        BY <3>5, <3>6
  <2>2. CASE ~(i <= g)
    <3>1. i - g \in 1..h /\ i = g + (i - g)
        BY <1>1, <2>2
    <3>2. PICK j \in 1..h : j = i - g /\ i = g + j
        BY <3>1
    <3>3. b[j] \in S \ G /\ Before(S \ G, v, b[j]) = j - 1
        BY <1>3
    <3>4. Before(S, v, b[j]) = g + (j - 1) /\ b[j] \in S
        BY <1>1, <3>3
    <3>5. Before(S, v, b[j]) + 1 = i
        BY <1>1, <3>2, <3>4
    <3>6. r[i] = b[j]
        BY <1>4, <3>4, <3>5
    <3>7. (a \o b)[i] = b[j]
      <4>1. (a \o b)[Len(a) + j] = b[j]
          BY <1>3, <1>5, <3>2
      <4> QED
          BY <1>2, <3>2, <4>1
    <3> QED
        BY <3>6, <3>7
  <2> QED
      BY <2>1, <2>2
<1>7. Len(a \o b) = g + h /\ a \o b \in Seq(S)
  <2>1. Len(a \o b) = Len(a) + Len(b) /\ a \o b \in Seq(S)
      BY <1>5
  <2> QED
      BY <1>2, <1>3, <2>1
<1>8. r = a \o b
    BY <1>4, <1>6, <1>7, SameSequence
<1> QED
    BY <1>8 DEF a, b, r

\* The first n come first, and among fewer markets too.
LEMMA TopHeads ==
    ASSUME NEW S, NEW v, Volumed(S, v), NEW n \in Nat, NEW T, T \subseteq S
    PROVE  Heads(Leaders(S, v, n) \cap T, T, v)
<1>1. Volumed(T, v)
    BY VolumedPart
<1>2. ASSUME NEW m \in Leaders(S, v, n), NEW k \in S \ Leaders(S, v, n) PROVE Above(v, m, k)
  <2>1. m \in S /\ m # k /\ Before(S, v, m) < n /\ ~(Before(S, v, k) < n)
      BY DEF Leaders
  <2>2. Before(S, v, m) \in Nat /\ Before(S, v, k) \in Nat
      BY <2>1, BeforeFacts
  <2>3. ~Above(v, k, m)
    <3>1. Above(v, k, m) => Before(S, v, k) < Before(S, v, m)
        BY <2>1, BeforeFacts
    <3> QED
        BY <2>1, <2>2, <3>1
  <2> QED
      BY <2>1, <2>3, AboveIsTotal
<1> QED
    BY <1>1, <1>2 DEF Heads

\* One element less.
LEMMA AllButOne ==
    ASSUME NEW A, NEW B, IsFiniteSet(A), IsFiniteSet(B), NEW z, A \ {z} \subseteq B
    PROVE  /\ Cardinality(A) \in Nat /\ Cardinality(B) \in Nat
           /\ Cardinality(A) <= Cardinality(B) + 1
           /\ A \subseteq B => Cardinality(A) <= Cardinality(B)
           /\ \A m \in B : A \ {z} \subseteq B \ {m} => Cardinality(A) <= Cardinality(B)
<1> DEFINE a == Cardinality(A)
           b == Cardinality(B)
           d == Cardinality(A \ {z})
<1>1. a \in Nat /\ b \in Nat /\ IsFiniteSet(A \ {z}) /\ d \in Nat
    BY FS_CardinalityType, FS_RemoveElement
<1>2. a <= d + 1
  <2>1. d = IF z \in A THEN a - 1 ELSE a
      BY FS_RemoveElement
  <2> HIDE DEF a, d
  <2> QED
      BY <1>1, <2>1
<1>3. d <= b
    BY FS_Subset
<1>4. A \subseteq B => a <= b
    BY FS_Subset
<1>5. ASSUME NEW m \in B, A \ {z} \subseteq B \ {m} PROVE a <= b
  <2>1. IsFiniteSet(B \ {m}) /\ Cardinality(B \ {m}) = b - 1
      BY FS_RemoveElement
  <2>2. d <= b - 1
      BY <1>5, <2>1, FS_Subset
  <2> HIDE DEF a, b, d
  <2> QED
      BY <1>1, <1>2, <2>2
<1> HIDE DEF a, b, d
<1>6. a <= b + 1
    BY <1>1, <1>2, <1>3
<1> QED
    BY <1>1, <1>4, <1>5, <1>6 DEF a, b

\* One market changes: its volume, or whether it is among those that count.
Moved(M, o, v, p, w, m) ==
    /\ SameBut(M, v, M, w, m)
    /\ o \subseteq M /\ p \subseteq M /\ o \ {m} = p \ {m}
    /\ o = p \/ Alike(M, v, w)

\* Those that count among the first u of all.
Passed(M, o, v, u) == Leaders(M, v, u) \cap o

\* Those that are passed are the first that count.
LEMMA PassedFacts ==
    ASSUME NEW M, NEW o, NEW v, Volumed(M, v), o \subseteq M, NEW u \in Nat
    PROVE  LET G == Passed(M, o, v, u)
           IN  /\ Heads(G, o, v) /\ Volumed(o, v)
               /\ IsFiniteSet(G) /\ Cardinality(G) \in Nat /\ G \subseteq o
               /\ Leaders(o, v, Cardinality(G)) = G
               /\ \A i \in Nat : G \subseteq Leaders(o, v, Cardinality(G) + i)
<1> DEFINE G == Passed(M, o, v, u)
<1>1. Volumed(o, v) /\ Heads(G, o, v)
    BY VolumedPart, TopHeads DEF Passed
<1> HIDE DEF G
<1>2. Volumed(G, v) /\ IsFiniteSet(G) /\ Cardinality(G) \in Nat /\ G \subseteq o
    BY <1>1, HeadParts DEF Volumed
<1>3. Cardinality(G) <= Cardinality(G) /\ Cardinality(G) >= Cardinality(G)
    BY <1>2
<1>4. Leaders(o, v, Cardinality(G)) = Leaders(G, v, Cardinality(G))
  <2>1. PICK n \in Nat : n = Cardinality(G)
      BY <1>2
  <2>2. n <= Cardinality(G)
      BY <2>1
  <2>3. Leaders(o, v, n) = Leaders(G, v, n)
      BY <1>1, <2>2, HeadTop
  <2> QED
      BY <2>1, <2>3
<1>5. Leaders(G, v, Cardinality(G)) = G
    BY <1>2, <1>3, TopFacts
<1>6. ASSUME NEW i \in Nat PROVE G \subseteq Leaders(o, v, Cardinality(G) + i)
    BY <1>1, HeadTops
<1> QED
    BY <1>1, <1>2, <1>4, <1>5, <1>6 DEF G

\* A move can be taken back, and is one of those that count.
LEMMA MovedFacts ==
    ASSUME NEW M, NEW o, NEW v, NEW p, NEW w, NEW m, Moved(M, o, v, p, w, m)
    PROVE  /\ Moved(M, p, w, o, v, m)
           /\ Volumed(M, v) /\ Volumed(M, w) /\ o \subseteq M /\ p \subseteq M
           /\ SameBut(o, v, p, w, m) /\ Volumed(o, v) /\ Volumed(p, w)
<1>1. Volumed(M, v) /\ Volumed(M, w) /\ Volumed(o, v) /\ Volumed(p, w)
    BY VolumedPart DEF Moved, SameBut
<1>2. Moved(M, p, w, o, v, m)
    BY DEF Moved, SameBut, Alike
<1>3. SameBut(o, v, p, w, m)
    BY <1>1 DEF Moved, SameBut, Alike
<1>4. o \subseteq M /\ p \subseteq M
    BY DEF Moved
<1> QED
    BY <1>1, <1>2, <1>3, <1>4

\* Those that count and were passed before the change are passed after it, but for one.
LEMMA PassedMoves ==
    ASSUME NEW M, NEW o, NEW v, NEW p, NEW w, NEW m, Moved(M, o, v, p, w, m), NEW u \in Nat
    PROVE  LET G == Passed(M, o, v, u)
               H == Passed(M, p, w, u)
           IN  /\ Cardinality(G) <= Cardinality(H) + 1
               /\ m \in G => G \ {m} \subseteq H
               /\ Cardinality(H) < Cardinality(G) /\ m \in o => m \in G /\ m \notin H
               /\ Cardinality(H) < Cardinality(G) /\ m \notin o => o = p
<1> DEFINE G == Passed(M, o, v, u)
           H == Passed(M, p, w, u)
           T == Leaders(M, v, u)
           U == Leaders(M, w, u)
<1>1. /\ Volumed(M, v) /\ Volumed(M, w) /\ SameBut(M, v, M, w, m)
      /\ o \subseteq M /\ p \subseteq M /\ o \ {m} = p \ {m} /\ (o = p \/ Alike(M, v, w))
    BY MovedFacts DEF Moved
<1>2. G = T \cap o /\ H = U \cap p
    BY DEF Passed
<1>3. IsFiniteSet(G) /\ IsFiniteSet(H) /\ Cardinality(G) \in Nat /\ Cardinality(H) \in Nat
    BY <1>1, PassedFacts
<1>4. PICK z : T \ {z} \subseteq U
    BY <1>1, TopSwap
<1>5. m \in T \/ m \notin U => T \ {m} \subseteq U
    BY <1>1, TopKept
<1>6. Alike(M, v, w) => T = U
    BY <1>1, AlikeRanked
<1> HIDE DEF G, H, T, U
<1>7. \E y : G \ {y} \subseteq H
    BY <1>1, <1>2, <1>4, <1>6
<1>8. Cardinality(G) <= Cardinality(H) + 1
    BY <1>3, <1>7, AllButOne
<1>9. m \in G => G \ {m} \subseteq H
    BY <1>1, <1>2, <1>5
<1>10. G \subseteq H => ~(Cardinality(H) < Cardinality(G))
    BY <1>3, FS_Subset
<1>11. ASSUME Cardinality(H) < Cardinality(G), m \in o PROVE m \in G /\ m \notin H
  <2>1. ASSUME m \notin G PROVE FALSE
    <3>1. m \notin T
        BY <1>2, <1>11, <2>1
    <3>2. CASE m \notin U
        BY <1>1, <1>2, <1>5, <1>10, <1>11, <2>1, <3>2
    <3>3. CASE m \in U
      <4>1. o = p
          BY <1>1, <1>6, <3>1, <3>3
      <4>2. m \in H /\ G \ {z} \subseteq H \ {m}
          BY <1>2, <1>4, <1>11, <2>1, <3>3, <4>1
      <4>3. Cardinality(G) <= Cardinality(H)
          BY <1>3, <4>2, AllButOne
      <4> QED
          BY <1>3, <1>11, <4>3
    <3> QED
        BY <3>2, <3>3
  <2>2. ASSUME m \in H PROVE FALSE
    <3>1. m \in G
        BY <2>1
    <3>2. G \subseteq H
        BY <1>9, <2>2, <3>1
    <3> QED
        BY <1>10, <1>11, <3>2
  <2> QED
      BY <2>1, <2>2
<1>12. ASSUME Cardinality(H) < Cardinality(G), m \notin o PROVE o = p
  <2>1. ASSUME Alike(M, v, w) PROVE FALSE
    <3>1. G \subseteq H
        BY <1>1, <1>2, <1>6, <1>12, <2>1
    <3> QED
        BY <1>10, <1>12, <3>1
  <2> QED
      BY <1>1, <2>1
<1> QED
    BY <1>8, <1>9, <1>11, <1>12 DEF G, H

\* One more has been passed: what was to come is still among what is to come.
LEMMA WalkGrows ==
    ASSUME NEW M, NEW o, NEW v, NEW p, NEW w, NEW m, Moved(M, o, v, p, w, m),
           NEW u \in Nat, NEW i \in Nat, NEW g, NEW h,
           g = Cardinality(Passed(M, o, v, u)), h = Cardinality(Passed(M, p, w, u)), g < h
    PROVE  h <= g + 1 /\ Leaders(o, v, g + i) \subseteq Leaders(p, w, h + i)
<1>1. /\ Moved(M, p, w, o, v, m) /\ Volumed(M, v) /\ Volumed(M, w) /\ SameBut(o, v, p, w, m)
      /\ o \subseteq M /\ p \subseteq M
    BY MovedFacts DEF Moved
<1>2. /\ h <= g + 1
      /\ m \in p => m \in Passed(M, p, w, u)
      /\ m \notin p => o = p
    BY <1>1, PassedMoves
<1>3. g \in Nat /\ h \in Nat /\ Passed(M, p, w, u) \subseteq Leaders(p, w, h + i)
    BY <1>1, PassedFacts
<1>4. ASSUME NEW k \in Leaders(o, v, g + i) PROVE k \in Leaders(p, w, h + i)
  <2>1. k \in o /\ Before(o, v, k) < g + i
      BY DEF Leaders
  <2>2. CASE k = m
      BY <1>2, <1>3, <2>1, <2>2
  <2>3. CASE k # m
    <3>1. /\ k \in p /\ Before(o, v, k) \in Nat /\ Before(p, w, k) \in Nat
          /\ Before(p, w, k) <= Before(o, v, k) + 1
        BY <1>1, <2>1, <2>3, PlaceMoves
    <3>2. Before(p, w, k) < h + i
        BY <1>2, <1>3, <2>1, <3>1
    <3> QED
        BY <3>1, <3>2 DEF Leaders
  <2> QED
      BY <2>2, <2>3
<1> QED
    BY <1>2, <1>4

\* One less has been passed: of what was to come one may have gone.
LEMMA WalkShrinks ==
    ASSUME NEW M, NEW o, NEW v, NEW p, NEW w, NEW m, Moved(M, o, v, p, w, m),
           NEW u \in Nat, NEW i \in Nat, NEW g, NEW h,
           g = Cardinality(Passed(M, o, v, u)), h = Cardinality(Passed(M, p, w, u)), h < g
    PROVE  \E z : Leaders(o, v, g + i) \ {z} \subseteq Leaders(p, w, h + i)
<1> DEFINE G == Passed(M, o, v, u)
           H == Passed(M, p, w, u)
           X == Leaders(o, v, g + i)
           Y == Leaders(p, w, h + i)
<1>1. /\ Volumed(M, v) /\ Volumed(M, w) /\ SameBut(o, v, p, w, m)
      /\ o \subseteq M /\ p \subseteq M /\ Volumed(o, v) /\ Volumed(p, w)
    BY MovedFacts
<1>2. /\ g <= h + 1
      /\ m \in o => m \in G /\ m \notin H
      /\ m \in G => G \ {m} \subseteq H
      /\ m \notin o => o = p
    BY PassedMoves
<1>3. g \in Nat /\ h \in Nat /\ H \subseteq Y /\ Heads(G, o, v)
    BY <1>1, PassedFacts
<1>4. g = h + 1
    BY <1>2, <1>3
<1> HIDE DEF G, H
<1>5. PICK y : \A k \in o : Before(o, v, k) + 1 = g + i => k = y
    BY <1>1, <1>3, OneAtPlace
<1>6. CASE m \notin o
  <2>1. o = p /\ Alike(o, v, w)
      BY <1>1, <1>2, <1>6 DEF SameBut, Alike
  <2>2. ASSUME NEW k \in X, k # y PROVE k \in Y
    <3>1. k \in o /\ Before(o, v, k) < g + i /\ Before(o, v, k) + 1 # g + i
        BY <1>5, <2>2 DEF Leaders
    <3>2. Before(o, v, k) \in Nat /\ Before(p, w, k) = Before(o, v, k)
        BY <1>1, <2>1, <3>1, BeforeFacts, AlikeRanked
    <3>3. Before(p, w, k) < h + i
        BY <1>3, <1>4, <3>1, <3>2
    <3> QED
        BY <2>1, <3>1, <3>3 DEF Leaders
  <2> QED
      BY <2>2
<1>7. CASE m \in o
  <2>1. m \in G /\ m \notin H /\ G \ {m} \subseteq H
      BY <1>2, <1>7
  <2>2. ASSUME NEW k \in X, k # m, k # y \/ m \notin Higher(o, v, k) \/ m \notin Higher(p, w, k)
        PROVE  k \in Y
    <3>1. k \in o /\ Before(o, v, k) < g + i
        BY DEF Leaders
    <3>2. CASE m \in Higher(o, v, k)
      <4>1. /\ k \in p /\ Before(o, v, k) \in Nat /\ Before(p, w, k) \in Nat
            /\ Before(p, w, k) <= Before(o, v, k)
            /\ m \notin Higher(p, w, k) => Before(p, w, k) = Before(o, v, k) - 1
          BY <1>1, <2>2, <3>1, <3>2, PlaceMoves
      <4>2. k # y => Before(o, v, k) + 1 # g + i
          BY <1>5, <3>1
      <4>3. Before(p, w, k) < h + i
          BY <1>3, <1>4, <2>2, <3>1, <3>2, <4>1, <4>2
      <4> QED
          BY <4>1, <4>3 DEF Leaders
    <3>3. CASE m \notin Higher(o, v, k)
      <4>1. Above(v, k, m)
          BY <1>1, <1>7, <2>2, <3>1, <3>3, AboveIsTotal DEF Higher
      <4>2. k \in G
          BY <1>1, <1>3, <2>1, <3>1, <4>1, AboveIsTotal DEF Heads
      <4> QED
          BY <1>3, <2>1, <2>2, <4>2
    <3> QED
        BY <3>2, <3>3
  <2>3. CASE y \in X /\ y # m /\ m \in Higher(o, v, y) /\ m \in Higher(p, w, y)
    <3>1. /\ y \in p /\ Before(o, v, y) \in Nat /\ Before(p, w, y) \in Nat
          /\ Before(p, w, y) <= Before(o, v, y) /\ Before(o, v, y) < g + i
        BY <1>1, <2>3, PlaceMoves DEF Leaders
    <3>2. m \in p /\ Above(w, m, y)
        BY <2>3 DEF Higher
    <3>3. Before(p, w, m) < Before(p, w, y) /\ Before(p, w, m) \in Nat
        BY <1>1, <3>1, <3>2, BeforeFacts
    <3>4. Before(p, w, m) < h + i
        BY <1>3, <1>4, <3>1, <3>3
    <3>5. m \in Y
        BY <3>2, <3>4 DEF Leaders
    <3>6. X \ {y} \subseteq Y
        BY <2>2, <3>5
    <3> QED
        BY <3>6
  <2>4. CASE ~(y \in X /\ y # m /\ m \in Higher(o, v, y) /\ m \in Higher(p, w, y))
    <3>1. X \ {m} \subseteq Y
        BY <2>2, <2>4
    <3> QED
        BY <3>1
  <2> QED
      BY <2>3, <2>4
<1> QED
    BY <1>6, <1>7

\* What a change costs a walk: the markets A have one less of the first g + i that
\* count, or as many and g grows.
LEMMA WalkCosts ==
    ASSUME NEW M, NEW o, NEW v, NEW p, NEW w, NEW m, Moved(M, o, v, p, w, m),
           NEW u \in Nat, NEW i \in Nat, NEW g, NEW h,
           g = Cardinality(Passed(M, o, v, u)), h = Cardinality(Passed(M, p, w, u)),
           NEW A, NEW c \in Nat, NEW a \in Nat,
           a <= Cardinality(A \cap Leaders(o, v, g + i)) + c,
           g + i <= Cardinality(A \cap Leaders(o, v, g + i)) + c
    PROVE  /\ a <= Cardinality(A \cap Leaders(p, w, h + i)) + (c + 1)
           /\ h + i <= Cardinality(A \cap Leaders(p, w, h + i)) + (c + 1)
<1> DEFINE X == A \cap Leaders(o, v, g + i)
           Y == A \cap Leaders(p, w, h + i)
<1>1. /\ Volumed(M, v) /\ Volumed(M, w) /\ SameBut(o, v, p, w, m)
      /\ o \subseteq M /\ p \subseteq M /\ Volumed(o, v) /\ Volumed(p, w)
    BY MovedFacts
<1>2. g \in Nat /\ h \in Nat
    BY <1>1, PassedFacts
<1>3. g + i \in Nat /\ h + i \in Nat
    BY <1>2
<1>4. IsFiniteSet(Leaders(o, v, g + i)) /\ IsFiniteSet(Leaders(p, w, h + i))
    BY <1>1, <1>3, TopFacts
<1>5. IsFiniteSet(X) /\ IsFiniteSet(Y)
    BY <1>4, FS_Intersection
<1>6. Cardinality(X) \in Nat /\ Cardinality(Y) \in Nat
    BY <1>5, FS_CardinalityType
<1>7. CASE g < h
  <2>1. h <= g + 1 /\ Leaders(o, v, g + i) \subseteq Leaders(p, w, h + i)
      BY <1>7, WalkGrows
  <2>2. X \subseteq Y
      BY <2>1
  <2>3. Cardinality(X) <= Cardinality(Y)
      BY <1>5, <2>2, FS_Subset
  <2> HIDE DEF X, Y
  <2>4. a <= Cardinality(X) + c /\ g + i <= Cardinality(X) + c
      BY DEF X
  <2>5. a <= Cardinality(Y) + (c + 1) /\ h + i <= Cardinality(Y) + (c + 1)
      BY <1>2, <1>6, <2>1, <2>3, <2>4
  <2> QED
      BY <2>5 DEF Y
<1>8. CASE h <= g
  <2>1. \E z : Leaders(o, v, g + i) \ {z} \subseteq Leaders(p, w, h + i)
    <3>1. CASE h < g
        BY <3>1, WalkShrinks
    <3>2. CASE h = g
        BY <1>1, <1>3, <3>2, TopSwap
    <3> QED
        BY <1>2, <1>8, <3>1, <3>2
  <2>2. PICK z : X \ {z} \subseteq Y
      BY <2>1
  <2>3. Cardinality(X) <= Cardinality(Y) + 1
      BY <1>5, <2>2, AllButOne
  <2> HIDE DEF X, Y
  <2>4. a <= Cardinality(X) + c /\ g + i <= Cardinality(X) + c
      BY DEF X
  <2>5. a <= Cardinality(Y) + (c + 1) /\ h + i <= Cardinality(Y) + (c + 1)
      BY <1>2, <1>6, <1>8, <2>3, <2>4
  <2> QED
      BY <2>5 DEF Y
<1> QED
    BY <1>2, <1>7, <1>8

\* What a change costs the first n, of which the markets A have some.
LEMMA TopCosts ==
    ASSUME NEW S, NEW v, NEW T, NEW w, NEW m, SameBut(S, v, T, w, m), NEW n \in Nat,
           NEW A, NEW c \in Nat, NEW a \in Nat, a <= Cardinality(A \cap Leaders(S, v, n)) + c
    PROVE  a <= Cardinality(A \cap Leaders(T, w, n)) + (c + 1)
<1> DEFINE X == A \cap Leaders(S, v, n)
           Y == A \cap Leaders(T, w, n)
<1>1. PICK z : Leaders(S, v, n) \ {z} \subseteq Leaders(T, w, n)
    BY TopSwap
<1>2. IsFiniteSet(Leaders(S, v, n)) /\ IsFiniteSet(Leaders(T, w, n))
    BY TopFacts DEF SameBut
<1>3. IsFiniteSet(X) /\ IsFiniteSet(Y) /\ X \ {z} \subseteq Y
    BY <1>1, <1>2, FS_Intersection
<1> HIDE DEF X, Y
<1>4. /\ Cardinality(X) <= Cardinality(Y) + 1
      /\ Cardinality(X) \in Nat /\ Cardinality(Y) \in Nat
    BY <1>3, AllButOne
<1>5. a <= Cardinality(X) + c
    BY DEF X
<1>6. a <= Cardinality(Y) + (c + 1)
    BY <1>4, <1>5
<1> QED
    BY <1>6 DEF Y

-----------------------------------------------------------------------------
(* Pages of the listing: what a page, a sequence and an offset are. *)

\* The cut of a page.
LEMMA CutFacts ==
    ASSUME NEW X, NEW s \in Seq(X), NEW from \in Nat, NEW size \in Nat
    PROVE  /\ Cut(s, from, size) \in Seq(X)
           /\ Len(Cut(s, from, size)) \in Nat
           /\ Len(s) <= from => Len(Cut(s, from, size)) = 0
           /\ from <= Len(s) => from + Len(Cut(s, from, size)) = IF from + size <= Len(s) THEN from + size ELSE Len(s)
           /\ \A i \in 1..Len(Cut(s, from, size)) : Cut(s, from, size)[i] = s[from + i]
<1> DEFINE to == IF from + size <= Len(s) THEN from + size ELSE Len(s)
<1>1. Len(s) \in Nat /\ to \in Nat /\ to <= Len(s) /\ from + size \in Nat
    OBVIOUS
<1>2. Cut(s, from, size) = SubSeq(s, from + 1, to)
    BY <1>1, Lesser DEF Cut
<1> HIDE DEF to
<1>3. SubSeq(s, from + 1, to) \in Seq(X)
    BY <1>1
<1>4. Len(SubSeq(s, from + 1, to)) = IF from + 1 <= to THEN to - from ELSE 0
    BY <1>1
<1>5. \A i \in 1..Len(SubSeq(s, from + 1, to)) : SubSeq(s, from + 1, to)[i] = s[from + i]
    BY <1>1, <1>4
<1>6. Len(s) <= from => ~(from + 1 <= to)
    BY <1>1
<1>7. from <= Len(s) => from <= to
    BY <1>1 DEF to
<1>8. from <= Len(s) => from + Len(SubSeq(s, from + 1, to)) = to
    BY <1>1, <1>4, <1>7
<1> QED
    BY <1>1, <1>2, <1>3, <1>4, <1>5, <1>6, <1>8 DEF to

\* One sequence after another.
LEMMA JoinFacts ==
    ASSUME NEW X, NEW s \in Seq(X), NEW t \in Seq(X)
    PROVE  /\ s \o t \in Seq(X) /\ Len(s) \in Nat /\ Len(t) \in Nat
           /\ Len(s \o t) = Len(s) + Len(t)
           /\ \A i \in 1..Len(s) : (s \o t)[i] = s[i]
           /\ \A i \in 1..Len(t) : (s \o t)[Len(s) + i] = t[i]
           /\ ToSet(s \o t) = ToSet(s) \cup ToSet(t)
<1>1. s \o t \in Seq(X) /\ Len(s) \in Nat /\ Len(t) \in Nat /\ Len(s \o t) = Len(s) + Len(t)
    OBVIOUS
<1>2. \A i \in 1..Len(s) : (s \o t)[i] = s[i]
    BY <1>1
<1>3. \A i \in 1..Len(t) : (s \o t)[Len(s) + i] = t[i]
    BY <1>1
<1>4. DOMAIN s = 1..Len(s) /\ DOMAIN t = 1..Len(t) /\ DOMAIN (s \o t) = 1..(Len(s) + Len(t))
    BY <1>1
<1>5. ToSet(s \o t) \subseteq ToSet(s) \cup ToSet(t)
  <2> SUFFICES ASSUME NEW i \in 1..(Len(s) + Len(t)) PROVE (s \o t)[i] \in ToSet(s) \cup ToSet(t)
      BY <1>4 DEF ToSet
  <2>1. CASE i <= Len(s)
      BY <1>1, <1>2, <1>4, <2>1 DEF ToSet
  <2>2. CASE ~(i <= Len(s))
    <3>1. PICK j \in 1..Len(t) : i = Len(s) + j
      <4>1. i - Len(s) \in 1..Len(t) /\ i = Len(s) + (i - Len(s))
          BY <1>1, <2>2
      <4> QED
          BY <4>1
    <3> QED
        BY <1>3, <1>4, <3>1 DEF ToSet
  <2> QED
      BY <2>1, <2>2
<1>6. ToSet(s) \subseteq ToSet(s \o t)
  <2>1. \A i \in 1..Len(s) : i \in 1..(Len(s) + Len(t))
      BY <1>1
  <2> QED
      BY <1>2, <1>4, <2>1 DEF ToSet
<1>7. ToSet(t) \subseteq ToSet(s \o t)
  <2>1. \A i \in 1..Len(t) : Len(s) + i \in 1..(Len(s) + Len(t))
      BY <1>1
  <2> QED
      BY <1>3, <1>4, <2>1 DEF ToSet
<1> QED
    BY <1>1, <1>2, <1>3, <1>5, <1>6, <1>7

\* The places and members of a sequence.
LEMMA InSequence ==
    ASSUME NEW X, NEW s \in Seq(X)
    PROVE  ToSet(s) \subseteq X /\ DOMAIN s = 1..Len(s) /\ Len(s) \in Nat
    BY DEF ToSet

\* Offsets are multiples of the size of a page.
LEMMA Steps ==
    ASSUME NEW i \in Nat, NEW k \in Nat, NEW p \in Nat \ {0}
    PROVE  /\ i * p \in Nat /\ k * p \in Nat
           /\ i < k => i * p + p <= k * p
           /\ i <= k => i * p <= k * p
           /\ i * p < k * p => i < k
           /\ i * p = k * p => i = k
           /\ i <= i * p
           /\ (i + 1) * p = i * p + p
<1>1. i * p \in Nat /\ k * p \in Nat /\ (i + 1) * p = i * p + p /\ (k + 1) * p = k * p + p
    OBVIOUS
<1>2. ASSUME NEW a \in Nat, NEW b \in Nat, a <= b PROVE a * p <= b * p
    BY <1>2
<1>3. ASSUME NEW a \in Nat, NEW b \in Nat, a < b PROVE a * p + p <= b * p
  <2>1. (a + 1) * p <= b * p /\ (a + 1) * p = a * p + p
      BY <1>2, <1>3
  <2> QED
      BY <2>1
<1>4. i <= i * p
    OBVIOUS
<1> QED
    BY <1>1, <1>2, <1>3, <1>4

-----------------------------------------------------------------------------
(* Pages of the listing: what a walk can reach and has passed. *)

\* The kinds of the variables.
LEMMA Kinds ==
    ASSUME ListingTypeOK
    PROVE  /\ Volumed(Markets, volume) /\ Volumed(open, volume) /\ Volumed(Found, walk.seen)
           /\ open \subseteq Markets /\ steady \subseteq open /\ Found \subseteq Markets
           /\ changes \in Nat /\ featured \in BOOLEAN /\ atEnd \in BOOLEAN
           /\ walk.skip \in Nat /\ walk.limit \in Nat /\ walk.upstream \in Nat
           /\ walk.found \in Seq(Markets) /\ Len(walk.found) \in Nat
           /\ listed \in Seq(Markets) /\ Len(listed) \in Nat
           /\ PageSize \in Nat \ {0} /\ Ceiling \in Nat
<1>1. /\ Markets \subseteq Nat /\ IsFiniteSet(Markets) /\ Volumes \subseteq Nat
      /\ PageSize \in Nat \ {0} /\ Ceiling \in Nat /\ MaxChanges \in Nat
    BY ListingAssumption
<1>2. Volumed(Markets, volume)
    BY <1>1 DEF ListingTypeOK, Volumed
<1>3. Volumed(open, volume)
    BY <1>2, VolumedPart DEF ListingTypeOK
<1>4. Found \subseteq Markets /\ \A m \in Found : walk.seen[m] \in Nat
  <2>1. walk.found \in Seq(Markets) /\ DOMAIN walk.seen = Found
      BY DEF ListingTypeOK, Found
  <2>2. PICK S \in SUBSET Markets : walk.seen \in [S -> Volumes]
      BY DEF ListingTypeOK
  <2> QED
      BY <1>1, <2>1, <2>2, InSequence DEF Found
<1>5. Volumed(Found, walk.seen)
    BY <1>1, <1>4, FS_Subset DEF Volumed
<1>6. changes \in Nat
    BY <1>1 DEF ListingTypeOK
<1> QED
    BY <1>1, <1>2, <1>3, <1>4, <1>5, <1>6 DEF ListingTypeOK

\* What is reached is on a page of the walk.
LEMMA InPages ==
    ASSUME NEW start \in Starts
    PROVE  /\ start \in Nat /\ Page(start) \subseteq Markets /\ Page(start) \subseteq Reach
           /\ \E i \in 0..Ceiling : start = i * PageSize
           /\ start = 0 \/ ~Beyond(start)
<1>1. PICK i \in 0..Ceiling : start = i * PageSize
    BY DEF Starts
<1>2. PageSize \in Nat \ {0} /\ Ceiling \in Nat /\ i \in Nat
    BY ListingAssumption
<1>3. start \in Nat
    BY <1>1, <1>2, Steps
<1>4. Page(start) \subseteq Markets
  <2>1. \A k \in DOMAIN Events : Events[k] \subseteq Markets
      BY ListingAssumption
  <2> QED
      BY <2>1 DEF Page, MarketsPage, FeaturedPage
<1> QED
    BY <1>1, <1>3, <1>4 DEF Starts, Reach

\* Where a walk stands.
LEMMA WalkSteps ==
    ASSUME ListingTypeOK, WalkInOrder, Asked
    PROVE  \E k \in 0..(Ceiling + 1) :
               /\ walk.upstream = k * PageSize
               /\ \A i \in 0..Ceiling : i < k => i * PageSize \in Starts
    BY DEF WalkInOrder

\* A walk by volume passes only what it can reach.
LEMMA InWalkedByVolume ==
    ASSUME ListingTypeOK, WalkInOrder, Asked, ~featured, NEW m \in Walked
    PROVE  m \in Reach
<1>1. PICK k \in 0..(Ceiling + 1) :
          /\ walk.upstream = k * PageSize
          /\ \A i \in 0..Ceiling : i < k => i * PageSize \in Starts
    BY WalkSteps
<1>2. PageSize \in Nat \ {0} /\ Ceiling \in Nat /\ k \in Nat /\ k <= Ceiling + 1 /\ Volumed(Markets, volume)
    BY Kinds
<1>3. PICK r \in Nat : r = Before(Markets, volume, m) /\ m \in Markets /\ r < k * PageSize
    BY <1>1, <1>2, BeforeFacts DEF Walked, Leaders
<1>4. PICK i \in Nat : PageSize * i <= r /\ r < PageSize * i + PageSize
    BY <1>2, Quotient
<1>5. i * PageSize = PageSize * i /\ i * PageSize \in Nat /\ k * PageSize \in Nat
    BY <1>2
<1>6. i * PageSize < k * PageSize
    BY <1>3, <1>4, <1>5
<1>7. i < k
    BY <1>2, <1>6, Steps
<1>8. i \in 0..Ceiling /\ i * PageSize \in Starts
    BY <1>1, <1>2, <1>7
<1>9. r \in (i * PageSize)..(i * PageSize + PageSize - 1)
  <2> DEFINE s == i * PageSize
  <2>1. s \in Nat /\ s <= r /\ r < s + PageSize /\ PageSize \in Nat
      BY <1>2, <1>4, <1>5
  <2> HIDE DEF s
  <2>2. r \in s..(s + PageSize - 1)
      BY <1>3, <2>1
  <2> QED
      BY <2>2 DEF s
<1>10. m \in Page(i * PageSize)
    BY <1>3, <1>9 DEF Page, MarketsPage
<1> QED
    BY <1>8, <1>10 DEF Reach

\* A walk that has come to its end has seen all there is to see.
LEMMA AllWalked ==
    ASSUME ListingTypeOK, WalkInOrder, Asked, NEW m \in Reach,
           \/ Beyond(walk.upstream) /\ walk.upstream > 0
           \/ walk.upstream > (IF featured THEN Len(Events) ELSE Cardinality(Markets))
    PROVE  m \in Walked
<1>1. PICK k \in 0..(Ceiling + 1) :
          /\ walk.upstream = k * PageSize
          /\ \A i \in 0..Ceiling : i < k => i * PageSize \in Starts
    BY WalkSteps
<1>2. PageSize \in Nat \ {0} /\ Ceiling \in Nat /\ k \in Nat /\ Volumed(Markets, volume) /\ walk.upstream \in Nat
    BY Kinds
<1>3. PICK s \in Starts : m \in Page(s)
    BY DEF Reach
<1>4. PICK i \in 0..Ceiling : s = i * PageSize
    BY InPages
<1>5. s \in Nat /\ m \in Markets /\ (s = 0 \/ ~Beyond(s))
    BY <1>3, InPages
<1>6. Beyond(walk.upstream) /\ walk.upstream > 0 => s < walk.upstream
    BY <1>2, <1>5 DEF Beyond
<1>7. s < walk.upstream => s + PageSize <= walk.upstream
    BY <1>1, <1>2, <1>4, Steps
<1>8. CASE ~featured
  <2>1. PICK r \in Nat : r = Before(Markets, volume, m) /\ r < Cardinality(Markets) /\ Cardinality(Markets) \in Nat
      BY <1>2, <1>5, BeforeFacts
  <2>2. r \in s..(s + PageSize - 1)
      BY <1>3, <1>8, <2>1 DEF Page, MarketsPage
  <2>3. r < walk.upstream
      BY <1>2, <1>5, <1>6, <1>7, <1>8, <2>1, <2>2
  <2> QED
      BY <1>5, <1>8, <2>1, <2>3 DEF Walked, Leaders
<1>9. CASE featured
  <2>1. PICK a \in DOMAIN Events \cap ((s + 1)..(s + PageSize)) : m \in Events[a]
      BY <1>3, <1>9 DEF Page, FeaturedPage
  <2>2. a \in 1..Len(Events) /\ Len(Events) \in Nat
      BY <2>1, ListingAssumption, InSequence
  <2>3. s < walk.upstream
      BY <1>2, <1>5, <1>6, <1>9, <2>1, <2>2
  <2> QED
      BY <1>3, <1>9, <2>3 DEF Walked, Page
<1> QED
    BY <1>8, <1>9

\* A finished walk has passed all it can reach, or has enough.
LEMMA WalkedFacts ==
    ASSUME ListingTypeOK, WalkInOrder, Asked
    PROVE  /\ Walked \subseteq Reach /\ Reach \subseteq Markets
           /\ walk.over => Walked = Reach \/ (~featured /\ Len(walk.found) >= Target)
           /\ ~featured => open \cap Walked = Passed(Markets, open, volume, walk.upstream)
<1>1. Walked \subseteq Reach
  <2>1. CASE featured
      BY <2>1, InPages DEF Walked, Reach, Page
  <2>2. CASE ~featured
      BY <2>2, InWalkedByVolume
  <2> QED
      BY <2>1, <2>2
<1>2. Reach \subseteq Markets
    BY InPages DEF Reach
<1>3. walk.over => Walked = Reach \/ (~featured /\ Len(walk.found) >= Target)
    BY <1>1, AllWalked DEF WalkInOrder
<1>4. ~featured => open \cap Walked = Passed(Markets, open, volume, walk.upstream)
    BY DEF Walked, Passed
<1> QED
    BY <1>1, <1>2, <1>3, <1>4

\* The next page is one the walk has not seen.
LEMMA NextPage ==
    ASSUME ListingTypeOK, WalkInOrder, Asked, ~walk.over
    PROVE  /\ walk.upstream \in Starts
           /\ Page(walk.upstream) \cap Walked = {}
           /\ Page(walk.upstream) \subseteq Reach
           /\ Page(walk.upstream) \subseteq Markets
<1> DEFINE u == walk.upstream
<1>1. u \in Starts
    BY DEF WalkInOrder
<1>2. Page(u) \subseteq Reach /\ Page(u) \subseteq Markets /\ u \in Nat
    BY <1>1, InPages
<1>3. PageSize \in Nat \ {0} /\ Ceiling \in Nat /\ Volumed(Markets, volume)
    BY Kinds
<1>4. ASSUME NEW m \in Page(u), m \in Walked PROVE FALSE
  <2>1. CASE ~featured
    <3>1. m \in Markets /\ Before(Markets, volume, m) < u /\ Before(Markets, volume, m) \in u..(u + PageSize - 1)
        BY <1>4, <2>1 DEF Page, MarketsPage, Walked, Leaders
    <3> QED
        BY <1>2, <3>1
  <2>2. CASE featured
    <3>1. PICK a \in DOMAIN Events \cap ((u + 1)..(u + PageSize)) : m \in Events[a]
        BY <1>4, <2>2 DEF Page, FeaturedPage
    <3>2. PICK s \in Starts : s < u /\ m \in FeaturedPage(s)
        BY <1>4, <2>2 DEF Walked
    <3>3. PICK b \in DOMAIN Events \cap ((s + 1)..(s + PageSize)) : m \in Events[b]
        BY <3>2 DEF FeaturedPage
    <3>4. PICK i \in 0..Ceiling : s = i * PageSize
        BY InPages
    <3>5. PICK k \in 0..Ceiling : u = k * PageSize
        BY <1>1, InPages
    <3>6. s \in Nat /\ s + PageSize <= u
        BY <1>3, <3>2, <3>4, <3>5, Steps
    <3>7. a # b
        BY <1>2, <1>3, <3>1, <3>3, <3>6
    <3> QED
        BY <3>1, <3>3, <3>7, ListingAssumption
  <2> QED
      BY <2>1, <2>2
<1> QED
    BY <1>1, <1>2, <1>4

\* What a walk can reach changes with the volumes alone.
LEMMA SameReach ==
    ASSUME featured' = featured, featured \/ volume' = volume
    PROVE  /\ Reach' = Reach /\ Starts' = Starts
           /\ \A start : Page(start)' = Page(start)
           /\ walk'.upstream = walk.upstream => Walked' = Walked
<1>1. \A start : Page(start)' = Page(start)
    BY DEF Page, MarketsPage
<1>2. Starts' = Starts
    BY DEF Starts, Beyond
<1>3. Reach' = Reach
    BY <1>1, <1>2 DEF Reach
<1>4. walk'.upstream = walk.upstream => Walked' = Walked
    BY <1>2 DEF Walked
<1> QED
    BY <1>1, <1>2, <1>3, <1>4

\* A request takes the walk one page further ...
LEMMA FetchWalks ==
    ASSUME ListingTypeOK, WalkInOrder, FetchPage
    PROVE  /\ walk'.upstream = walk.upstream + PageSize
           /\ Walked' = Walked \cup Page(walk.upstream)
           /\ Reach' = Reach
<1> DEFINE u == walk.upstream
<1>1. /\ walk'.upstream = u + PageSize /\ featured' = featured /\ volume' = volume
    BY DEF FetchPage, upstreamVars, client, ListingTypeOK
<1>2. PageSize \in Nat \ {0} /\ Ceiling \in Nat /\ u \in Nat /\ Volumed(Markets, volume)
    BY Kinds
<1>3. Reach' = Reach /\ Starts' = Starts
    BY <1>1, SameReach
<1>4. u \in Starts
    BY NextPage DEF FetchPage
<1>5. PICK k \in 0..Ceiling : u = k * PageSize
    BY <1>4, InPages
<1>6. CASE ~featured
  <2>1. ASSUME NEW m \in Markets
        PROVE  Before(Markets, volume, m) < u + PageSize
                 <=> Before(Markets, volume, m) < u \/ Before(Markets, volume, m) \in u..(u + PageSize - 1)
    <3>1. PICK r \in Nat : r = Before(Markets, volume, m)
        BY <1>2, BeforeFacts
    <3>2. r < u + PageSize <=> r < u \/ r \in u..(u + PageSize - 1)
        BY <1>2
    <3> QED
        BY <3>1, <3>2
  <2>2. Walked' = Leaders(Markets, volume, u + PageSize)
      BY <1>1, <1>6 DEF Walked
  <2> QED
      BY <1>1, <1>3, <1>6, <2>1, <2>2 DEF Walked, Leaders, Page, MarketsPage
<1>7. CASE featured
  <2>1. ASSUME NEW s \in Starts PROVE s < u + PageSize <=> s < u \/ s = u
    <3>1. PICK i \in 0..Ceiling : s = i * PageSize
        BY InPages
    <3>2. s \in Nat
        BY InPages
    <3>3. s < u + PageSize => i < k + 1
        BY <1>2, <1>5, <3>1, Steps
    <3>4. i < k + 1 => i < k \/ i = k
        OBVIOUS
    <3>5. i < k => s < u
        BY <1>2, <1>5, <3>1, Steps
    <3> QED
        BY <1>2, <1>5, <3>1, <3>2, <3>3, <3>4, <3>5
  <2>2. Walked' = UNION {FeaturedPage(start) : start \in {s \in Starts : s < u + PageSize}}
      BY <1>1, <1>3, <1>7 DEF Walked
  <2>3. Walked = UNION {FeaturedPage(start) : start \in {s \in Starts : s < u}}
      BY <1>7 DEF Walked
  <2>4. Page(u) = FeaturedPage(u)
      BY <1>7 DEF Page
  <2>5. {s \in Starts : s < u + PageSize} = {s \in Starts : s < u} \cup {u}
      BY <1>2, <1>4, <2>1
  <2> QED
      BY <1>1, <1>3, <2>2, <2>3, <2>4, <2>5
<1> QED
    BY <1>6, <1>7

\* ... and leaves it in order.
LEMMA FetchInOrder ==
    ASSUME ListingTypeOK, WalkInOrder, FetchPage
    PROVE  WalkInOrder'
<1> DEFINE u == walk.upstream
<1>1. /\ walk'.upstream = u + PageSize /\ featured' = featured /\ volume' = volume
      /\ walk'.skip = walk.skip /\ walk'.limit = walk.limit
      /\ listed' = listed /\ atEnd' = atEnd
      /\ Asked /\ Asked'
    BY DEF FetchPage, upstreamVars, client, ListingTypeOK, Asked
<1>2. PageSize \in Nat \ {0} /\ Ceiling \in Nat /\ u \in Nat
    BY Kinds
<1>3. Starts' = Starts /\ u \in Starts
    BY <1>1, SameReach, NextPage DEF FetchPage
<1>4. PICK k \in 0..Ceiling : u = k * PageSize
    BY <1>3, InPages
<1>5. PICK l \in 0..(Ceiling + 1) : u = l * PageSize /\ \A i \in 0..Ceiling : i < l => i * PageSize \in Starts
    BY <1>1, WalkSteps
<1>6. l = k
    BY <1>2, <1>4, <1>5, Steps
<1>7. k + 1 \in 0..(Ceiling + 1) /\ u + PageSize = (k + 1) * PageSize
    BY <1>2, <1>4, Steps
<1>8. \A i \in 0..Ceiling : i < k + 1 => i * PageSize \in Starts
    BY <1>3, <1>4, <1>5, <1>6
<1>9. walk'.over = (\/ u + PageSize > (IF featured THEN Len(Events) ELSE Cardinality(Markets))
                    \/ Beyond(u + PageSize)
                    \/ (~featured /\ Len(walk'.found) >= Target))
    BY DEF FetchPage, ListingTypeOK
<1>10. u + PageSize > 0
    BY <1>2
<1>11. ASSUME ~walk'.over PROVE u + PageSize \in Starts
  <2>1. ~Beyond(u + PageSize)
      BY <1>9, <1>11
  <2>2. u + PageSize <= Ceiling
      BY <1>2, <2>1 DEF Beyond
  <2>3. k + 1 <= (k + 1) * PageSize
      BY <1>2, Steps
  <2>4. k + 1 \in 0..Ceiling
      BY <1>2, <1>7, <2>2, <2>3
  <2> QED
      BY <1>7, <2>1, <2>4 DEF Starts
<1>13. \A x : Beyond(x)' <=> Beyond(x)
    BY <1>1 DEF Beyond
<1>14. Target' = Target
    BY <1>1 DEF Target
<1>15. walk.skip = Len(listed) /\ ~atEnd
    BY <1>1 DEF WalkInOrder
<1> QED
    BY <1>1, <1>3, <1>7, <1>8, <1>9, <1>10, <1>11, <1>13, <1>14, <1>15 DEF WalkInOrder

-----------------------------------------------------------------------------
(* Pages of the listing: what the client has got. *)

Gathered(l, f, b, j) ==
    {l[i] : i \in DOMAIN l \cap 1..j}
        \cup {f[i] : i \in {k \in DOMAIN f : ~b /\ Len(l) < k /\ k <= j}}

\* What the client has got, of what is listed and found.
LEMMA GotIs ==
    ASSUME NEW j
    PROVE  /\ Got(j) = Gathered(listed, walk.found, featured, j)
           /\ Got(j)' = Gathered(listed', walk'.found, featured', j)
    BY DEF Got, Gathered

\* What is gathered is of the markets, and of those listed where they suffice.
LEMMA GatheredFacts ==
    ASSUME NEW X, NEW l \in Seq(X), NEW f \in Seq(X), NEW b \in BOOLEAN, NEW j \in Nat
    PROVE  /\ Gathered(l, f, b, j) \subseteq X
           /\ j <= Len(l) => Gathered(l, f, b, j) \subseteq ToSet(l)
           /\ b => Gathered(l, f, b, j) \subseteq ToSet(l)
<1>1. /\ ToSet(l) \subseteq X /\ DOMAIN l = 1..Len(l) /\ Len(l) \in Nat
      /\ ToSet(f) \subseteq X /\ DOMAIN f = 1..Len(f) /\ Len(f) \in Nat
    BY InSequence
<1> QED
    BY <1>1 DEF Gathered, ToSet

\* The first of what is listed do not depend on what is found.
LEMMA GatheredListed ==
    ASSUME NEW X, NEW l \in Seq(X), NEW f \in Seq(X), NEW h \in Seq(X), NEW b,
           NEW j \in Nat, j <= Len(l)
    PROVE  Gathered(l, f, b, j) = Gathered(l, h, b, j)
<1>1. Len(l) \in Nat /\ DOMAIN f \subseteq Nat /\ DOMAIN h \subseteq Nat
    OBVIOUS
<1>2. {k \in DOMAIN f : ~b /\ Len(l) < k /\ k <= j} = {}
    BY <1>1
<1>3. {k \in DOMAIN h : ~b /\ Len(l) < k /\ k <= j} = {}
    BY <1>1
<1> QED
    BY <1>2, <1>3 DEF Gathered

\* Nor those that are found on what is found after them.
LEMMA GatheredFound ==
    ASSUME NEW X, NEW l \in Seq(X), NEW f \in Seq(X), NEW t \in Seq(X), NEW b,
           NEW j \in Nat, j <= Len(f)
    PROVE  Gathered(l, f, b, j) = Gathered(l, f \o t, b, j)
<1>1. /\ Len(l) \in Nat /\ Len(f) \in Nat /\ Len(t) \in Nat /\ f \o t \in Seq(X)
      /\ DOMAIN f = 1..Len(f) /\ DOMAIN (f \o t) = 1..(Len(f) + Len(t))
      /\ \A i \in 1..Len(f) : (f \o t)[i] = f[i]
    BY JoinFacts, InSequence
<1>2. {k \in DOMAIN f : ~b /\ Len(l) < k /\ k <= j} = {k \in DOMAIN (f \o t) : ~b /\ Len(l) < k /\ k <= j}
    BY <1>1
<1>3. \A i \in {k \in DOMAIN f : ~b /\ Len(l) < k /\ k <= j} : (f \o t)[i] = f[i]
    BY <1>1
<1> QED
    BY <1>2, <1>3 DEF Gathered

\* No markets, no order.
LEMMA NoneRanked ==
    ASSUME NEW v
    PROVE  Ranked({}, v) = << >>
<1>1. Cardinality({}) = 0
    BY FS_EmptySet
<1>2. 1..Cardinality({}) = {}
    BY <1>1
<1> QED
    BY <1>2 DEF Ranked

-----------------------------------------------------------------------------
(* The steps. *)

\* What is found before the first request.
LEMMA NothingFound ==
    ASSUME NEW X
    PROVE  /\ << >> \in Seq(X) /\ Len(<< >>) = 0 /\ ToSet(<< >>) = {}
           /\ DOMAIN << >> = {} /\ << >> \in UNION {[S -> Volumes] : S \in SUBSET Markets}
<1>1. << >> \in Seq(X) /\ Len(<< >>) = 0 /\ DOMAIN << >> = {}
    OBVIOUS
<1>2. ToSet(<< >>) = {}
    BY <1>1 DEF ToSet
<1>3. << >> \in [{} -> Volumes] /\ {} \in SUBSET Markets
    BY <1>1
<1> QED
    BY <1>1, <1>2, <1>3

\* A client that has asked for nothing.
LEMMA InitLInv ==
    ASSUME ListingInit
    PROVE  LInv
<1>1. /\ volume \in [Markets -> Volumes] /\ open \subseteq Markets /\ changes = 0
      /\ featured \in BOOLEAN /\ listed = << >> /\ atEnd = FALSE /\ steady = open \cap Reach
      /\ walk = Idle
    BY DEF ListingInit
<1>2. /\ walk.skip = 0 /\ walk.limit = 0 /\ walk.upstream = 0 /\ walk.found = << >>
      /\ walk.seen = << >> /\ walk.over = TRUE
    BY <1>1 DEF Idle
<1>3. ~Asked
    BY <1>2 DEF Asked
<1>4. ListingTypeOK
  <2>1. Idle \in [skip : Nat, limit : Nat, upstream : Nat, found : Seq(Markets),
                  seen : UNION {[S -> Volumes] : S \in SUBSET Markets}, over : BOOLEAN]
      BY NothingFound DEF Idle
  <2>2. DOMAIN walk.seen = ToSet(walk.found)
      BY <1>2, NothingFound
  <2>3. changes \in 0..MaxChanges
      BY <1>1, ListingAssumption
  <2> QED
      BY <1>1, <2>1, <2>2, <2>3, NothingFound DEF ListingTypeOK
<1>5. Len(listed) = 0 /\ Len(walk.found) = 0 /\ DOMAIN listed = {}
    BY <1>1, <1>2, NothingFound
<1>6. PrefixesAgree
  <2> SUFFICES ASSUME NEW j \in 0..(Len(listed) + Len(walk.found)),
                      j <= Len(listed) \/ (~featured /\ j <= Len(walk.found))
               PROVE  j <= Cardinality(Got(j) \cap Leaders(Pool, volume, j)) + changes
      BY DEF PrefixesAgree
  <2>1. j = 0
      BY <1>5
  <2>2. Volumed(open, volume)
      BY <1>4, Kinds
  <2>3. Volumed(Pool, volume)
      BY <2>2, VolumedPart DEF Pool
  <2>4. IsFiniteSet(Leaders(Pool, volume, j))
      BY <2>1, <2>3, TopFacts
  <2>5. Cardinality(Got(j) \cap Leaders(Pool, volume, j)) \in Nat
      BY <2>4, FS_Intersection, FS_CardinalityType
  <2> QED
      BY <1>1, <2>1, <2>5
<1> QED
    BY <1>1, <1>3, <1>4, <1>5, <1>6
    DEF LInv, WalkInOrder, WalkAgrees, FeaturedAgree, Undisturbed, NoneHidden

\* A step that ends a call, or none.
LEMMA IdleFacts ==
    ASSUME walk' = Idle
    PROVE  /\ ~Asked' /\ walk'.found = << >>
           /\ WalkInOrder' /\ WalkAgrees' /\ FeaturedAgree'
<1>1. walk'.limit = 0 /\ walk'.found = << >>
    BY DEF Idle
<1>2. ~Asked'
    BY <1>1 DEF Asked
<1> QED
    BY <1>1, <1>2 DEF WalkInOrder, WalkAgrees, FeaturedAgree, Idle

\* The walk of no call has its kinds.
LEMMA IdleTyped ==
    /\ Idle \in [skip : Nat, limit : Nat, upstream : Nat, found : Seq(Markets),
                 seen : UNION {[S -> Volumes] : S \in SUBSET Markets}, over : BOOLEAN]
    /\ DOMAIN Idle.seen = ToSet(Idle.found)
<1>1. Idle.seen = << >> /\ Idle.found = << >>
    BY DEF Idle
<1>2. Idle \in [skip : Nat, limit : Nat, upstream : Nat, found : Seq(Markets),
                seen : UNION {[S -> Volumes] : S \in SUBSET Markets}, over : BOOLEAN]
    BY NothingFound DEF Idle
<1> QED
    BY <1>1, <1>2, NothingFound

\* Where the client is does not depend on a call that has found nothing.
LEMMA PrefixesStay ==
    ASSUME ListingTypeOK, PrefixesAgree, walk'.found = << >>,
           UNCHANGED <<upstreamVars, client>>
    PROVE  PrefixesAgree'
<1>1. /\ volume' = volume /\ open' = open /\ changes' = changes /\ featured' = featured
      /\ listed' = listed
    BY DEF upstreamVars, client
<1>2. /\ Len(listed) \in Nat /\ listed \in Seq(Markets) /\ walk.found \in Seq(Markets)
      /\ Len(walk.found) \in Nat /\ featured \in BOOLEAN
    BY Kinds
<1>3. Len(walk'.found) = 0 /\ walk'.found \in Seq(Markets)
    BY NothingFound
<1>4. Pool' = Pool
    BY <1>1, SameReach DEF Pool
<1> SUFFICES ASSUME NEW j \in 0..(Len(listed) + 0), j <= Len(listed) \/ (~featured /\ j <= 0)
             PROVE  j <= Cardinality(Gathered(listed, walk'.found, featured, j) \cap Leaders(Pool, volume, j)) + changes
  <2>1. \A j : Got(j)' = Gathered(listed', walk'.found, featured', j)
      BY GotIs
  <2> QED
      BY <1>1, <1>3, <1>4, <2>1 DEF PrefixesAgree, Leaders
<1>5. j \in Nat /\ j <= Len(listed) /\ j \in 0..(Len(listed) + Len(walk.found))
    BY <1>2
<1>6. j <= Cardinality(Got(j) \cap Leaders(Pool, volume, j)) + changes
    BY <1>5 DEF PrefixesAgree
<1>7. Got(j) = Gathered(listed, walk'.found, featured, j)
  <2>1. PICK h \in Seq(Markets) : h = walk'.found
      BY <1>3
  <2>2. Gathered(listed, walk.found, featured, j) = Gathered(listed, h, featured, j)
      BY <1>2, <1>5, GatheredListed
  <2> QED
      BY <2>1, <2>2, GotIs
<1> QED
    BY <1>6, <1>7

\* A call fails: the client has what it had.
LEMMA FetchFailsLInv ==
    ASSUME LInv, FetchFails
    PROVE  LInv'
<1>1. /\ volume' = volume /\ open' = open /\ changes' = changes /\ featured' = featured
      /\ listed' = listed /\ atEnd' = atEnd /\ steady' = steady /\ walk' = Idle
    BY DEF FetchFails, upstreamVars, client
<1>2. ~Asked' /\ walk'.found = << >> /\ WalkInOrder' /\ WalkAgrees' /\ FeaturedAgree'
    BY <1>1, IdleFacts
<1>3. ListingTypeOK'
    BY <1>1, IdleTyped DEF LInv, ListingTypeOK
<1>4. PrefixesAgree'
    BY <1>2, PrefixesStay DEF LInv, FetchFails
<1>5. Reach' = Reach
    BY <1>1, SameReach
<1>6. Undisturbed' /\ NoneHidden'
    BY <1>1, <1>2, <1>5 DEF LInv, Undisturbed, NoneHidden
<1> QED
    BY <1>2, <1>3, <1>4, <1>6 DEF LInv

\* The markets the client has got, with the constants named.
LEMMA Prefix ==
    ASSUME ListingTypeOK, PrefixesAgree, NEW j \in Nat, j <= Len(listed),
           NEW h \in Seq(Markets)
    PROVE  j <= Cardinality(Gathered(listed, h, featured, j) \cap Leaders(Pool, volume, j)) + changes
<1>1. /\ Len(listed) \in Nat /\ listed \in Seq(Markets) /\ walk.found \in Seq(Markets)
      /\ Len(walk.found) \in Nat
    BY Kinds
<1>2. j \in 0..(Len(listed) + Len(walk.found))
    BY <1>1
<1>3. j <= Cardinality(Got(j) \cap Leaders(Pool, volume, j)) + changes
    BY <1>2 DEF PrefixesAgree
<1>4. Gathered(listed, walk.found, featured, j) = Gathered(listed, h, featured, j)
    BY <1>1, GatheredListed
<1> QED
    BY <1>3, <1>4, GotIs

\* What a call begins with.
LEMMA AskPageFacts ==
    ASSUME ListingTypeOK, NEW limit \in Limits, AskPage(limit)
    PROVE  /\ volume' = volume /\ open' = open /\ changes' = changes /\ featured' = featured
           /\ listed' = listed /\ atEnd' = atEnd /\ steady' = steady
           /\ walk' = [skip |-> Len(listed), limit |-> limit, upstream |-> 0,
                       found |-> << >>, seen |-> << >>, over |-> FALSE]
           /\ limit \in Nat \ {0} /\ ~atEnd /\ ~Asked /\ Asked'
<1>1. /\ volume' = volume /\ open' = open /\ changes' = changes /\ featured' = featured
      /\ listed' = listed /\ atEnd' = atEnd /\ steady' = steady /\ ~atEnd /\ ~Asked
      /\ Len(listed) <= Ceiling
      /\ walk' = [Idle EXCEPT !.skip = Min({Len(listed), Ceiling}), !.limit = limit, !.over = FALSE]
    BY DEF AskPage, upstreamVars, client
<1>2. Len(listed) \in Nat /\ Ceiling \in Nat /\ limit \in Nat \ {0}
    BY Kinds, ListingAssumption
<1>3. Min({Len(listed), Ceiling}) = Len(listed)
    BY <1>1, <1>2, Lesser
<1>4. walk' = [skip |-> Len(listed), limit |-> limit, upstream |-> 0,
               found |-> << >>, seen |-> << >>, over |-> FALSE]
    BY <1>1, <1>3 DEF Idle
<1>5. walk'.limit = limit
    BY <1>4
<1>6. Asked'
    BY <1>2, <1>5 DEF Asked
<1> QED
    BY <1>1, <1>2, <1>4, <1>6

\* A call begins.
LEMMA AskPageLInv ==
    ASSUME LInv, NEW limit \in Limits, AskPage(limit)
    PROVE  LInv'
<1>1. /\ volume' = volume /\ open' = open /\ changes' = changes /\ featured' = featured
      /\ listed' = listed /\ atEnd' = atEnd /\ steady' = steady
      /\ walk' = [skip |-> Len(listed), limit |-> limit, upstream |-> 0,
                  found |-> << >>, seen |-> << >>, over |-> FALSE]
      /\ limit \in Nat \ {0} /\ ~atEnd /\ Asked'
    BY AskPageFacts DEF LInv
<1>2. /\ Volumed(Markets, volume) /\ Volumed(open, volume) /\ open \subseteq Markets
      /\ changes \in Nat /\ listed \in Seq(Markets) /\ Len(listed) \in Nat
      /\ PageSize \in Nat \ {0} /\ Ceiling \in Nat
    BY Kinds DEF LInv
<1>3. /\ walk'.skip = Len(listed) /\ walk'.limit = limit /\ walk'.upstream = 0
      /\ walk'.found = << >> /\ walk'.seen = << >> /\ walk'.over = FALSE
    BY <1>1
<1>4. << >> \in Seq(Markets) /\ Len(<< >>) = 0 /\ ToSet(<< >>) = {}
    BY NothingFound
<1>5. ListingTypeOK'
  <2>1. /\ walk' \in [skip : Nat, limit : Nat, upstream : Nat, found : Seq(Markets),
                      seen : UNION {[S -> Volumes] : S \in SUBSET Markets}, over : BOOLEAN]
        /\ DOMAIN walk'.seen = ToSet(walk'.found)
      BY <1>1, <1>2, <1>3, NothingFound
  <2> QED
      BY <1>1, <2>1 DEF LInv, ListingTypeOK
<1>6. Starts' = Starts /\ Reach' = Reach
    BY <1>1, SameReach
<1>7. WalkInOrder'
  <2>1. 0 \in 0..Ceiling /\ 0 \in 0..(Ceiling + 1) /\ 0 = 0 * PageSize
      BY <1>2
  <2>2. 0 \in Starts
      BY <2>1 DEF Starts
  <2>3. \A i \in 0..Ceiling : ~(i < 0)
      BY <1>2
  <2>4. \E k \in 0..(Ceiling + 1) :
            /\ walk'.upstream = k * PageSize
            /\ \A i \in 0..Ceiling : i < k => i * PageSize \in Starts
      BY <1>3, <2>1, <2>3
  <2> QED
      BY <1>1, <1>3, <1>6, <2>2, <2>4 DEF WalkInOrder
<1>8. PrefixesAgree'
    BY <1>3, PrefixesStay DEF LInv, AskPage
<1>9. Walked' = {}
  <2>1. CASE featured
    <3>1. {s \in Starts : s < 0} = {}
      <4>1. \A s \in Starts : s \in Nat
          BY InPages
      <4>2. \A s \in Nat : ~(s < 0)
          OBVIOUS
      <4> QED
          BY <4>1, <4>2
    <3>2. Walked' = UNION {FeaturedPage(start) : start \in {s \in Starts : s < 0}}
        BY <1>1, <1>3, <1>6, <2>1 DEF Walked
    <3> QED
        BY <3>1, <3>2
  <2>2. CASE ~featured
    <3>1. Walked' = Leaders(Markets, volume, 0)
        BY <1>1, <1>3, <2>2 DEF Walked
    <3>2. Leaders(Markets, volume, 0) = {}
      <4>1. \A m \in Markets : Before(Markets, volume, m) \in Nat
          BY <1>2, BeforeFacts
      <4> QED
          BY <4>1 DEF Leaders
    <3> QED
        BY <3>1, <3>2
  <2> QED
      BY <2>1, <2>2
<1>10. ASSUME NEW j \in 0..Len(listed)
       PROVE  j <= Cardinality(Gathered(listed, << >>, featured, j) \cap Leaders(Pool, volume, j)) + changes
  <2>1. j \in Nat /\ j <= Len(listed)
      BY <1>2
  <2> QED
      BY <1>4, <2>1, Prefix DEF LInv
<1>11. WalkAgrees'
  <2> SUFFICES ASSUME ~featured, NEW i \in 0..Len(listed)
               PROVE  LET same == Cardinality(Gathered(listed, << >>, featured, 0 + i) \cap Leaders(open, volume, 0 + i))
                      IN 0 + i <= same + changes /\ 0 + i <= same + changes
    <3>1. Cardinality(open' \cap Walked') = 0
        BY <1>9, FS_EmptySet
    <3>2. \A j : Got(j)' = Gathered(listed, << >>, featured, j)
        BY <1>1, <1>3, GotIs
    <3>3. Len(walk'.found) = 0
        BY <1>3, <1>4
    <3> QED
        BY <1>1, <3>1, <3>2, <3>3 DEF WalkAgrees
  <2>1. Pool = open /\ 0 + i = i
      BY DEF Pool
  <2> QED
      BY <1>10, <2>1
<1>12. FeaturedAgree'
  <2> SUFFICES ASSUME featured
               PROVE  /\ Found' \subseteq Walked'
                      /\ \A j \in 0..Len(listed) :
                            j + Cardinality(Stale') <= Cardinality(Got(j)' \cap Leaders(Coming, SeenOrNow, j)') + changes
      BY <1>1 DEF FeaturedAgree
  <2>1. Found' = {}
      BY <1>3, <1>4 DEF Found
  <2>2. Stale' = {}
      BY <1>9, <2>1 DEF Stale
  <2>3. Coming' = Pool
      BY <1>1, <1>6, <1>9, <2>1 DEF Coming, Pool
  <2>4. \A m \in Markets : SeenOrNow'[m] = volume[m]
      BY <1>1, <2>1 DEF SeenOrNow
  <2>5. Volumed(Pool, volume) /\ Pool \subseteq Markets
      BY <1>2, VolumedPart DEF Pool
  <2>6. Alike(Pool, volume, SeenOrNow')
      BY <2>4, <2>5 DEF Alike
  <2>7. \A n \in Nat : Leaders(Pool, volume, n) = Leaders(Pool, SeenOrNow', n)
      BY <2>5, <2>6, AlikeRanked
  <2>8. ASSUME NEW j \in 0..Len(listed)
        PROVE  j + Cardinality(Stale') <= Cardinality(Got(j)' \cap Leaders(Coming, SeenOrNow, j)') + changes
    <3>1. j \in Nat
        OBVIOUS
    <3>2. Leaders(Coming, SeenOrNow, j)' = Leaders(Pool, volume, j)
        BY <2>3, <2>7, <3>1
    <3>3. Cardinality(Stale') = 0
        BY <2>2, FS_EmptySet
    <3>4. Got(j)' = Gathered(listed, << >>, featured, j)
        BY <1>1, <1>3, GotIs
    <3>5. j + Cardinality(Stale') = j
        BY <3>1, <3>3
    <3> QED
        BY <1>10, <3>2, <3>4, <3>5
  <2> QED
      BY <1>9, <2>1, <2>8
<1>13. Undisturbed'
  <2>1. InOrder' = << >>
    <3>1. CASE featured
        BY <1>1, <1>3, <1>4, <3>1, NoneRanked DEF InOrder
    <3>2. CASE ~featured
        BY <1>1, <1>3, <3>2 DEF InOrder
    <3> QED
        BY <3>1, <3>2
  <2>2. Ranked(open' \cap Walked', volume') = << >>
      BY <1>9, NoneRanked
  <2> QED
      BY <1>1, <1>6, <2>1, <2>2 DEF LInv, Undisturbed
<1>14. NoneHidden'
    BY <1>1, <1>6 DEF LInv, NoneHidden
<1> QED
    BY <1>5, <1>7, <1>8, <1>11, <1>12, <1>13, <1>14 DEF LInv

-----------------------------------------------------------------------------
(* Pages of the listing: a change upstream. *)

\* A change moves one market.
LEMMA ChangeFacts ==
    ASSUME ListingTypeOK, Change
    PROVE  /\ ListingTypeOK'
           /\ featured' = featured /\ listed' = listed /\ atEnd' = atEnd /\ walk' = walk
           /\ changes' = changes + 1 /\ steady' = steady \cap open' \cap Reach'
           /\ \E m \in Markets : Moved(Markets, open, volume, open', volume', m)
<1>1. /\ featured' = featured /\ listed' = listed /\ atEnd' = atEnd /\ walk' = walk
      /\ changes' = changes + 1 /\ steady' = steady \cap open' \cap Reach'
      /\ changes < MaxChanges
    BY DEF Change, client
<1>2. /\ Volumed(Markets, volume) /\ open \subseteq Markets /\ changes \in Nat
      /\ volume \in [Markets -> Volumes] /\ Volumes \subseteq Nat /\ MaxChanges \in Nat
    BY Kinds, ListingAssumption DEF ListingTypeOK
<1>3. PICK m \in Markets :
          \/ \E v \in Volumes \ {volume[m]} : volume' = [volume EXCEPT ![m] = v] /\ open' = open
          \/ m \in open /\ open' = open \ {m} /\ volume' = volume
          \/ m \notin open /\ open' = open \cup {m} /\ volume' = volume
    BY DEF Change
<1>4. /\ open' \subseteq Markets /\ open \ {m} = open' \ {m}
      /\ volume' \in [Markets -> Volumes]
      /\ \A k \in Markets : k # m => volume'[k] = volume[k]
      /\ open = open' \/ volume' = volume
    BY <1>2, <1>3
<1>5. Volumed(Markets, volume')
    BY <1>2, <1>4 DEF Volumed
<1>6. Moved(Markets, open, volume, open', volume', m)
    BY <1>2, <1>4, <1>5 DEF Moved, SameBut, Alike
<1>7. ListingTypeOK'
  <2>1. changes + 1 \in 0..MaxChanges
      BY <1>1, <1>2
  <2> QED
      BY <1>1, <1>4, <2>1 DEF ListingTypeOK
<1> QED
    BY <1>1, <1>6, <1>7

\* What a change costs the client that pages by volume.
LEMMA ChangeByVolume ==
    ASSUME LInv, Change, ~featured
    PROVE  PrefixesAgree' /\ WalkAgrees'
<1>1. /\ featured' = featured /\ listed' = listed /\ walk' = walk /\ changes' = changes + 1
    BY ChangeFacts DEF LInv
<1>2. PICK m \in Markets : Moved(Markets, open, volume, open', volume', m)
    BY ChangeFacts DEF LInv
<1>3. SameBut(open, volume, open', volume', m)
    BY <1>2, MovedFacts
<1>4. /\ changes \in Nat /\ Len(listed) \in Nat /\ Len(walk.found) \in Nat
      /\ walk.upstream \in Nat /\ open \subseteq Markets /\ Volumed(Markets, volume)
    BY Kinds DEF LInv
<1>5. Pool = open /\ Pool' = open'
    BY <1>1 DEF Pool
<1>6. \A j : Got(j)' = Got(j)
    BY <1>1 DEF Got
<1>7. PrefixesAgree'
  <2> SUFFICES ASSUME NEW j \in 0..(Len(listed) + Len(walk.found)),
                      j <= Len(listed) \/ (~featured /\ j <= Len(walk.found))
               PROVE  j <= Cardinality(Got(j) \cap Leaders(open', volume', j)) + (changes + 1)
      BY <1>1, <1>5, <1>6 DEF PrefixesAgree
  <2>1. j <= Cardinality(Got(j) \cap Leaders(open, volume, j)) + changes
      BY <1>5 DEF LInv, PrefixesAgree
  <2>2. j \in Nat
      BY <1>4
  <2> QED
      BY <1>3, <1>4, <2>1, <2>2, TopCosts
<1>8. WalkAgrees'
  <2> DEFINE f == Len(walk.found)
             g == Cardinality(Passed(Markets, open, volume, walk.upstream))
             h == Cardinality(Passed(Markets, open', volume', walk.upstream))
  <2>1. g = Cardinality(open \cap Walked) /\ h = Cardinality(open' \cap Walked')
    <3>1. open \cap Walked = Passed(Markets, open, volume, walk.upstream)
        BY DEF Walked, Passed
    <3>2. open' \cap Walked' = Passed(Markets, open', volume', walk.upstream)
        BY <1>1 DEF Walked, Passed
    <3> QED
        BY <3>1, <3>2
  <2> SUFFICES ASSUME Asked, NEW i \in 0..Len(listed), i = 0 \/ f + i <= Len(listed)
               PROVE  /\ f + i <= Cardinality(Got(f + i) \cap Leaders(open', volume', h + i)) + (changes + 1)
                      /\ h + i <= Cardinality(Got(f + i) \cap Leaders(open', volume', h + i)) + (changes + 1)
      BY <1>1, <1>6, <2>1 DEF WalkAgrees, Asked
  <2>2. /\ f + i <= Cardinality(Got(f + i) \cap Leaders(open, volume, g + i)) + changes
        /\ g + i <= Cardinality(Got(f + i) \cap Leaders(open, volume, g + i)) + changes
      BY <2>1 DEF LInv, WalkAgrees
  <2>3. i \in Nat /\ f + i \in Nat
      BY <1>4
  <2> HIDE DEF f
  <2>4. PICK a \in Nat : a = f + i
      BY <2>3
  <2>5. PICK A : A = Got(a)
      OBVIOUS
  <2>6. PICK x, y : x = g /\ y = h
      OBVIOUS
  <2>7. /\ a <= Cardinality(A \cap Leaders(open, volume, x + i)) + changes
        /\ x + i <= Cardinality(A \cap Leaders(open, volume, x + i)) + changes
      BY <2>2, <2>4, <2>5, <2>6
  <2>8. /\ a <= Cardinality(A \cap Leaders(open', volume', y + i)) + (changes + 1)
        /\ y + i <= Cardinality(A \cap Leaders(open', volume', y + i)) + (changes + 1)
      BY <1>2, <1>4, <2>3, <2>6, <2>7, WalkCosts
  <2> QED
      BY <2>4, <2>5, <2>6, <2>8
<1> QED
    BY <1>7, <1>8

\* What the types say of the featured markets.
LEMMA ComingFacts ==
    ASSUME ListingTypeOK, WalkInOrder, Asked
    PROVE  /\ Coming \subseteq Markets /\ Volumed(Coming, SeenOrNow)
           /\ \A k \in Markets : SeenOrNow[k] = IF k \in Found THEN walk.seen[k] ELSE volume[k]
           /\ Stale \subseteq Markets \cup Found /\ IsFiniteSet(Stale) /\ Cardinality(Stale) \in Nat
<1>1. /\ Volumed(Markets, volume) /\ open \subseteq Markets /\ Found \subseteq Markets
      /\ Volumed(Found, walk.seen)
    BY Kinds
<1>2. Walked \subseteq Markets
    BY WalkedFacts
<1>3. \A k \in Markets : SeenOrNow[k] = IF k \in Found THEN walk.seen[k] ELSE volume[k]
    BY DEF SeenOrNow
<1>4. Coming \subseteq Markets
    BY <1>1 DEF Coming
<1>5. \A k \in Markets : SeenOrNow[k] \in Nat
    BY <1>1, <1>3 DEF Volumed
<1>6. IsFiniteSet(Markets) /\ Markets \subseteq Nat
    BY <1>1 DEF Volumed
<1>7. Volumed(Coming, SeenOrNow)
    BY <1>4, <1>5, <1>6, FS_Subset DEF Volumed
<1>8. Stale \subseteq Markets
    BY <1>1, <1>2 DEF Stale
<1>9. IsFiniteSet(Stale) /\ Cardinality(Stale) \in Nat
    BY <1>6, <1>8, FS_Subset, FS_CardinalityType
<1> QED
    BY <1>3, <1>4, <1>7, <1>8, <1>9

\* What a change costs the client that pages through the featured markets.
LEMMA ChangeFeatured ==
    ASSUME LInv, Change, featured
    PROVE  PrefixesAgree' /\ FeaturedAgree'
<1>1. /\ featured' = featured /\ listed' = listed /\ walk' = walk /\ changes' = changes + 1
      /\ ListingTypeOK'
    BY ChangeFacts DEF LInv
<1>2. PICK m \in Markets : Moved(Markets, open, volume, open', volume', m)
    BY ChangeFacts DEF LInv
<1>3. /\ Volumed(Markets, volume) /\ Volumed(Markets, volume') /\ open \subseteq Markets
      /\ open' \subseteq Markets /\ open \ {m} = open' \ {m}
      /\ \A k \in Markets : k # m => volume[k] = volume'[k]
    BY <1>2 DEF Moved, SameBut, Alike
<1>4. changes \in Nat /\ Len(listed) \in Nat /\ Found \subseteq Markets
    BY Kinds DEF LInv
<1>5. Reach' = Reach /\ Walked' = Walked /\ Starts' = Starts
    BY <1>1, SameReach
<1>6. \A j : Got(j)' = Got(j)
    BY <1>1 DEF Got
<1>7. Found' = Found /\ Asked' = Asked
    BY <1>1 DEF Found, Asked
<1>8. PrefixesAgree'
  <2>1. SameBut(Pool, volume, Pool', volume', m)
    <3>1. Pool = open \cap Reach /\ Pool' = open' \cap Reach
        BY <1>1, <1>5 DEF Pool
    <3>2. Volumed(Pool, volume) /\ Volumed(Pool', volume')
        BY <1>3, <3>1, VolumedPart
    <3> QED
        BY <1>3, <3>1, <3>2 DEF SameBut, Alike
  <2> SUFFICES ASSUME NEW j \in 0..(Len(listed) + Len(walk.found)),
                      j <= Len(listed) \/ (~featured /\ j <= Len(walk.found))
               PROVE  j <= Cardinality(Got(j) \cap Leaders(Pool', volume', j)) + (changes + 1)
      BY <1>1, <1>6 DEF PrefixesAgree
  <2>2. j <= Cardinality(Got(j) \cap Leaders(Pool, volume, j)) + changes
      BY DEF LInv, PrefixesAgree
  <2>3. j \in Nat
      BY <1>4
  <2>4. PICK P, Q : P = Pool /\ Q = Pool'
      OBVIOUS
  <2>5. SameBut(P, volume, Q, volume', m) /\ j <= Cardinality(Got(j) \cap Leaders(P, volume, j)) + changes
      BY <2>1, <2>2, <2>4
  <2>6. j <= Cardinality(Got(j) \cap Leaders(Q, volume', j)) + (changes + 1)
      BY <1>4, <2>3, <2>5, TopCosts
  <2> QED
      BY <2>4, <2>6
<1>9. FeaturedAgree'
  <2> SUFFICES ASSUME Asked
               PROVE  /\ Found \subseteq Walked
                      /\ \A j \in 0..Len(listed) :
                            j + Cardinality(Stale')
                              <= Cardinality(Got(j) \cap Leaders(Coming', SeenOrNow', j)) + (changes + 1)
      BY <1>1, <1>5, <1>6, <1>7 DEF FeaturedAgree
  <2>1. /\ Found \subseteq Walked
        /\ \A j \in 0..Len(listed) :
              j + Cardinality(Stale) <= Cardinality(Got(j) \cap Leaders(Coming, SeenOrNow, j)) + changes
      BY DEF LInv, FeaturedAgree
  <2>2. /\ Coming \subseteq Markets /\ Volumed(Coming, SeenOrNow)
        /\ \A k \in Markets : SeenOrNow[k] = IF k \in Found THEN walk.seen[k] ELSE volume[k]
        /\ IsFiniteSet(Stale) /\ Cardinality(Stale) \in Nat
      BY ComingFacts DEF LInv
  <2>3. Coming' = Found \cup ((open' \cap Reach) \ Walked)
      BY <1>5, <1>7 DEF Coming
  <2>4. Coming' \subseteq Markets
      BY <1>3, <1>4, <2>3
  <2>5. \A k \in Markets : SeenOrNow'[k] = IF k \in Found THEN walk.seen[k] ELSE volume'[k]
      BY <1>1, <1>7 DEF SeenOrNow
  <2>6. Stale' = {k \in Walked : k \in Found <=> k \notin open'} \cup {k \in Found : walk.seen[k] # volume'[k]}
      BY <1>1, <1>5, <1>7 DEF Stale
  <2>7. Stale = {k \in Walked : k \in Found <=> k \notin open} \cup {k \in Found : walk.seen[k] # volume[k]}
      BY DEF Stale
  <2>8. CASE m \in Walked
    <3>1. Coming' = Coming
        BY <1>3, <2>3, <2>8 DEF Coming
    <3>2. Alike(Coming, SeenOrNow, SeenOrNow')
      <4>1. ASSUME NEW k \in Coming PROVE SeenOrNow[k] = SeenOrNow'[k]
        <5>1. k \in Found \/ k # m
            BY <2>8 DEF Coming
        <5> QED
            BY <1>3, <2>2, <2>5, <5>1
      <4> QED
          BY <4>1 DEF Alike
    <3>3. \A n \in Nat : Leaders(Coming, SeenOrNow, n) = Leaders(Coming, SeenOrNow', n)
        BY <2>2, <3>2, AlikeRanked
    <3>4. Stale' \subseteq Stale \cup {m}
      <4>1. ASSUME NEW k \in Stale', k # m PROVE k \in Stale
        <5>1. k \in Markets
            BY <1>4, <2>6, WalkedFacts DEF LInv
        <5>2. k \in open <=> k \in open'
            BY <1>3, <4>1
        <5> QED
            BY <1>3, <2>6, <2>7, <4>1, <5>1, <5>2
      <4> QED
          BY <4>1
    <3>5. /\ IsFiniteSet(Stale \cup {m})
          /\ Cardinality(Stale \cup {m}) = IF m \in Stale THEN Cardinality(Stale) ELSE Cardinality(Stale) + 1
        BY <2>2, FS_AddElement
    <3>6. IsFiniteSet(Stale') /\ Cardinality(Stale') <= Cardinality(Stale \cup {m}) /\ Cardinality(Stale') \in Nat
        BY <3>4, <3>5, FS_Subset, FS_CardinalityType
    <3>7. Cardinality(Stale') <= Cardinality(Stale) + 1
        BY <2>2, <3>5, <3>6
    <3>8. ASSUME NEW j \in 0..Len(listed)
          PROVE  j + Cardinality(Stale')
                   <= Cardinality(Got(j) \cap Leaders(Coming', SeenOrNow', j)) + (changes + 1)
      <4>1. j \in Nat
          BY <1>4
      <4>2. PICK t : t = Cardinality(Got(j) \cap Leaders(Coming, SeenOrNow, j))
          OBVIOUS
      <4>3. t = Cardinality(Got(j) \cap Leaders(Coming', SeenOrNow', j))
          BY <3>1, <3>3, <4>1, <4>2
      <4>4. t \in Nat
          BY <2>2, <4>1, <4>2, TopFacts, FS_Intersection, FS_CardinalityType
      <4>5. j + Cardinality(Stale) <= t + changes
          BY <2>1, <4>2
      <4>6. j + Cardinality(Stale') <= t + (changes + 1)
          BY <1>4, <2>2, <3>6, <3>7, <4>1, <4>4, <4>5
      <4> QED
          BY <4>3, <4>6
    <3> QED
        BY <2>1, <3>8
  <2>9. CASE m \notin Walked
    <3>1. m \notin Found
        BY <2>1, <2>9
    <3>2. Stale' = Stale
      <4>1. \A k \in Walked : k # m /\ k \in Markets /\ (k \in open <=> k \in open') /\ volume[k] = volume'[k]
          BY <1>3, <2>9, WalkedFacts DEF LInv
      <4> QED
          BY <2>1, <2>6, <2>7, <4>1
    <3>3. \A k \in Markets : k # m => SeenOrNow[k] = SeenOrNow'[k]
        BY <1>3, <2>2, <2>5
    <3>4. Coming \ {m} = Coming' \ {m}
        BY <1>3, <2>3 DEF Coming
    <3>5. Volumed(Coming', SeenOrNow')
      <4>1. \A k \in Coming' : SeenOrNow'[k] \in Nat
        <5>1. ASSUME NEW k \in Coming' PROVE SeenOrNow'[k] \in Nat
          <6>1. CASE k = m
              BY <1>3, <2>5, <3>1, <6>1 DEF Volumed
          <6>2. CASE k # m
              BY <2>2, <2>4, <3>3, <3>4, <6>2 DEF Volumed
          <6> QED
              BY <6>1, <6>2
        <5> QED
            BY <5>1
      <4> QED
          BY <1>3, <2>4, <4>1, FS_Subset DEF Volumed
    <3>6. SameBut(Coming, SeenOrNow, Coming', SeenOrNow', m)
        BY <2>2, <3>3, <3>4, <3>5 DEF SameBut, Alike
    <3>7. ASSUME NEW j \in 0..Len(listed)
          PROVE  j + Cardinality(Stale')
                   <= Cardinality(Got(j) \cap Leaders(Coming', SeenOrNow', j)) + (changes + 1)
      <4>1. PICK C, v, D, w : C = Coming /\ v = SeenOrNow /\ D = Coming' /\ w = SeenOrNow'
          OBVIOUS
      <4>2. PICK a \in Nat : a = j + Cardinality(Stale)
          BY <1>4, <2>2
      <4>3. SameBut(C, v, D, w, m) /\ a <= Cardinality(Got(j) \cap Leaders(C, v, j)) + changes
          BY <2>1, <3>6, <4>1, <4>2
      <4>4. j \in Nat
          BY <1>4
      <4>5. a <= Cardinality(Got(j) \cap Leaders(D, w, j)) + (changes + 1)
          BY <1>4, <4>3, <4>4, TopCosts
      <4> QED
          BY <3>2, <4>1, <4>2, <4>5
    <3> QED
        BY <2>1, <3>7
  <2> QED
      BY <2>8, <2>9
<1> QED
    BY <1>8, <1>9

\* A change keeps the invariant: it costs one market at most.
LEMMA ChangeLInv ==
    ASSUME LInv, Change
    PROVE  LInv'
<1>1. /\ featured' = featured /\ listed' = listed /\ atEnd' = atEnd /\ walk' = walk
      /\ changes' = changes + 1 /\ ListingTypeOK' /\ steady' = steady \cap open' \cap Reach'
    BY ChangeFacts DEF LInv
<1>2. changes \in Nat /\ steady \subseteq open /\ Volumed(open, volume)
    BY Kinds DEF LInv
<1>3. Asked' = Asked /\ Starts' = Starts /\ Target' = Target
    BY <1>1 DEF Asked, Starts, Beyond, Target
<1>4. WalkInOrder'
  <2>1. \A x : Beyond(x)' <=> Beyond(x)
      BY <1>1 DEF Beyond
  <2> QED
      BY <1>1, <1>3, <2>1 DEF LInv, WalkInOrder, Idle
<1>5. PrefixesAgree' /\ WalkAgrees' /\ FeaturedAgree'
  <2>1. CASE featured
      BY <1>1, <2>1, ChangeFeatured DEF WalkAgrees
  <2>2. CASE ~featured
      BY <1>1, <2>2, ChangeByVolume DEF FeaturedAgree
  <2> QED
      BY <2>1, <2>2
<1>6. Undisturbed'
    BY <1>1, <1>2 DEF Undisturbed
<1>7. NoneHidden'
  <2>1. steady' \subseteq steady
      BY <1>1
  <2>2. IsFiniteSet(steady \ ToSet(listed))
      BY <1>2, FS_Subset DEF Volumed
  <2>3. /\ Cardinality(steady' \ ToSet(listed)) <= Cardinality(steady \ ToSet(listed))
        /\ Cardinality(steady' \ ToSet(listed)) \in Nat
        /\ Cardinality(steady \ ToSet(listed)) \in Nat
      BY <2>1, <2>2, FS_Subset, FS_CardinalityType
  <2>4. atEnd => Cardinality(steady' \ ToSet(listed)) <= changes + 1
      BY <1>2, <2>3 DEF LInv, NoneHidden
  <2> QED
      BY <1>1, <2>4 DEF NoneHidden
<1> QED
    BY <1>1, <1>4, <1>5, <1>6, <1>7 DEF LInv

-----------------------------------------------------------------------------
(* Pages of the listing: one more upstream page. *)

\* Between two of the first.
LEMMA TopBetween ==
    ASSUME NEW S, NEW v, Volumed(S, v), NEW a \in Nat, NEW b \in Nat, b <= a
    PROVE  /\ Leaders(S, v, b) \subseteq Leaders(S, v, a)
           /\ IsFiniteSet(Leaders(S, v, a) \ Leaders(S, v, b))
           /\ Cardinality(Leaders(S, v, a) \ Leaders(S, v, b)) \in Nat
           /\ Cardinality(Leaders(S, v, a) \ Leaders(S, v, b)) <= a - b
           /\ a <= Cardinality(S) => Cardinality(Leaders(S, v, a) \ Leaders(S, v, b)) = a - b
<1> DEFINE A == Leaders(S, v, a)
           B == Leaders(S, v, b)
           D == A \ B
<1>1. B \subseteq A
    BY TopGrows
<1>2. /\ IsFiniteSet(A) /\ IsFiniteSet(B) /\ Cardinality(S) \in Nat
      /\ Cardinality(A) = IF a <= Cardinality(S) THEN a ELSE Cardinality(S)
      /\ Cardinality(B) = IF b <= Cardinality(S) THEN b ELSE Cardinality(S)
    BY TopFacts
<1> HIDE DEF A, B
<1>3. IsFiniteSet(D) /\ B \cap D = {} /\ B \cup D = A
    BY <1>1, <1>2, FS_Subset
<1> HIDE DEF D
<1>4. /\ Cardinality(D) \in Nat /\ Cardinality(A) = Cardinality(B) + Cardinality(D)
    BY <1>2, <1>3, UnionOfDisjoint
<1> DEFINE s == Cardinality(S)
           x == Cardinality(A)
           y == Cardinality(B)
           d == Cardinality(D)
<1>5. /\ s \in Nat /\ d \in Nat /\ x = y + d
      /\ x = (IF a <= s THEN a ELSE s) /\ y = (IF b <= s THEN b ELSE s)
    BY <1>2, <1>4
<1> HIDE DEF s, x, y, d
<1>6. d <= a - b /\ (a <= s => d = a - b)
    BY <1>5
<1> QED
    BY <1>1, <1>3, <1>4, <1>6 DEF A, B, D, s, d

\* Of a few more or less there are so many more or less.
LEMMA TopLess ==
    ASSUME NEW S, NEW v, Volumed(S, v), NEW a \in Nat, NEW b \in Nat, b <= a, NEW B
    PROVE  /\ Cardinality(B \cap Leaders(S, v, a)) \in Nat /\ Cardinality(B \cap Leaders(S, v, b)) \in Nat
           /\ Cardinality(B \cap Leaders(S, v, b)) <= Cardinality(B \cap Leaders(S, v, a))
           /\ Cardinality(B \cap Leaders(S, v, a)) <= Cardinality(B \cap Leaders(S, v, b)) + (a - b)
<1> DEFINE X == B \cap Leaders(S, v, a)
           Y == B \cap Leaders(S, v, b)
           D == Leaders(S, v, a) \ Leaders(S, v, b)
<1>1. /\ Y \subseteq X /\ IsFiniteSet(D) /\ Cardinality(D) \in Nat /\ Cardinality(D) <= a - b
    BY TopBetween
<1>2. IsFiniteSet(X) /\ IsFiniteSet(Y)
    BY TopFacts, FS_Intersection
<1>3. X \subseteq Y \cup D /\ Y \cap D = {}
    OBVIOUS
<1> HIDE DEF X, Y, D
<1>4. /\ IsFiniteSet(Y \cup D) /\ Cardinality(Y) \in Nat
      /\ Cardinality(Y \cup D) = Cardinality(Y) + Cardinality(D)
    BY <1>1, <1>2, <1>3, UnionOfDisjoint
<1>5. Cardinality(X) \in Nat /\ Cardinality(X) <= Cardinality(Y \cup D) /\ Cardinality(Y) <= Cardinality(X)
    BY <1>1, <1>2, <1>3, <1>4, FS_Subset, FS_CardinalityType
<1>6. Cardinality(X) <= Cardinality(Y) + (a - b)
    BY <1>1, <1>4, <1>5
<1> QED
    BY <1>4, <1>5, <1>6 DEF X, Y

\* What lies between two heads is a head of the rest.
LEMMA HeadsBetween ==
    ASSUME NEW G, NEW H, NEW S, NEW v, Heads(G, S, v), Heads(H, S, v), G \subseteq H
    PROVE  Heads(H \ G, S \ G, v) /\ Heads(G, H, v)
<1>1. Volumed(S \ G, v) /\ Volumed(H, v)
    BY HeadParts
<1> QED
    BY <1>1 DEF Heads

\* The markets of the next page take the next places.
LEMMA NextPlaces ==
    ASSUME NEW G, NEW H, NEW S, NEW v, Heads(G, S, v), Heads(H, S, v), G \subseteq H,
           NEW from \in Nat, NEW m \in S,
           Before(S, v, m) >= Cardinality(G) + from, Before(S, v, m) < Cardinality(H)
    PROVE  \E i \in 1..Cardinality(H \ G) :
               /\ Ranked(H \ G, v)[i] = m
               /\ from < i /\ Before(S, v, m) + 1 = Cardinality(G) + i
<1> DEFINE P == H \ G
           T == S \ G
<1>1. /\ Heads(P, T, v) /\ Volumed(S, v) /\ Volumed(G, v) /\ Volumed(H, v) /\ G \subseteq S /\ H \subseteq S
      /\ Cardinality(G) \in Nat /\ Cardinality(H) \in Nat
    BY HeadsBetween, HeadParts
<1>2. Before(S, v, m) \in Nat
    BY <1>1, BeforeFacts
<1>3. m \notin G
  <2>1. m \in G => Before(S, v, m) = Before(G, v, m) /\ Before(G, v, m) < Cardinality(G) /\ Before(G, v, m) \in Nat
      BY <1>1, HeadPlace, BeforeFacts
  <2> QED
      BY <1>1, <1>2, <2>1
<1>4. m \in H
  <2>1. m \in S \ H => Before(S, v, m) = Cardinality(H) + Before(S \ H, v, m)
      BY TailPlace
  <2>2. m \in S \ H => Before(S \ H, v, m) \in Nat
      BY HeadParts, BeforeFacts
  <2> QED
      BY <1>1, <1>2, <2>1, <2>2
<1>5. m \in P /\ m \in T
    BY <1>3, <1>4
<1>6. Volumed(P, v) /\ Volumed(T, v)
    BY <1>1, HeadParts
<1>7. Before(S, v, m) = Cardinality(G) + Before(P, v, m)
  <2>1. Before(S, v, m) = Cardinality(G) + Before(T, v, m)
      BY <1>5, TailPlace
  <2>2. Before(T, v, m) = Before(P, v, m)
      BY <1>1, <1>5, HeadPlace
  <2> QED
      BY <2>1, <2>2
<1> HIDE DEF P, T
<1>8. /\ Before(P, v, m) \in Nat
      /\ Before(P, v, m) + 1 \in 1..Cardinality(P)
      /\ Ranked(P, v)[Before(P, v, m) + 1] = m
    BY <1>5, <1>6, BeforeFacts, RankedFacts
<1>9. PICK i \in 1..Cardinality(P) : i = Before(P, v, m) + 1
    BY <1>8
<1>10. Ranked(P, v)[i] = m
    BY <1>8, <1>9
<1>11. from < i /\ Before(S, v, m) + 1 = Cardinality(G) + i
    BY <1>1, <1>2, <1>7, <1>8, <1>9
<1> QED
    BY <1>10, <1>11 DEF P

\* A page more: who has agreed so far agrees so much further.
LEMMA WalkExtends ==
    ASSUME NEW G, NEW H, NEW S, NEW v, Heads(G, S, v), Heads(H, S, v), G \subseteq H,
           NEW from \in Nat, NEW x \in Nat, from <= x, x <= Cardinality(H \ G),
           NEW A, NEW B, A \subseteq B,
           \A i \in 1..Cardinality(H \ G) : from < i /\ i <= x => Ranked(H \ G, v)[i] \in B,
           NEW a \in Nat, NEW c \in Nat,
           a <= Cardinality(A \cap Leaders(S, v, Cardinality(G) + from)) + c
    PROVE  a + (x - from) <= Cardinality(B \cap Leaders(S, v, Cardinality(G) + x)) + c
<1>1. PICK g, p, h : g = Cardinality(G) /\ p = Cardinality(H \ G) /\ h = Cardinality(H)
    OBVIOUS
<1>2. /\ Volumed(S, v) /\ g \in Nat /\ h \in Nat /\ p \in Nat /\ h = g + p /\ h <= Cardinality(S)
      /\ Cardinality(S) \in Nat
  <2>1. /\ Volumed(S, v) /\ Cardinality(G) \in Nat /\ Cardinality(H) \in Nat
        /\ Cardinality(S \ H) \in Nat /\ Cardinality(S) = Cardinality(H) + Cardinality(S \ H)
      BY HeadParts
  <2>2. Cardinality(H \ G) \in Nat /\ Cardinality(H) = Cardinality(G) + Cardinality(H \ G)
      BY HeadsBetween, HeadParts
  <2> QED
      BY <1>1, <2>1, <2>2
<1> DEFINE T == Leaders(S, v, g + from)
           U == Leaders(S, v, g + x)
           D == U \ T
<1>3. g + from \in Nat /\ g + x \in Nat /\ g + from <= g + x /\ g + x <= Cardinality(S)
    BY <1>1, <1>2
<1>4. T \subseteq U /\ IsFiniteSet(D) /\ Cardinality(D) = x - from /\ IsFiniteSet(U) /\ IsFiniteSet(T)
  <2>1. Cardinality(D) = (g + x) - (g + from)
    <3>1. PICK y \in Nat, z \in Nat : y = g + x /\ z = g + from
        BY <1>3
    <3>2. y <= Cardinality(S) /\ z <= y
        BY <1>3, <3>1
    <3>3. Cardinality(Leaders(S, v, y) \ Leaders(S, v, z)) = y - z
        BY <1>2, <3>2, TopBetween
    <3> QED
        BY <3>1, <3>3
  <2>2. T \subseteq U /\ IsFiniteSet(D) /\ IsFiniteSet(U) /\ IsFiniteSet(T)
      BY <1>2, <1>3, TopBetween, TopFacts
  <2> QED
      BY <1>2, <2>1, <2>2
<1>5. ASSUME NEW m \in D PROVE m \in B
  <2>1. /\ m \in S /\ Before(S, v, m) < g + x /\ ~(Before(S, v, m) < g + from)
      BY DEF Leaders
  <2>2. Before(S, v, m) \in Nat
      BY <1>2, <2>1, BeforeFacts
  <2>3. Before(S, v, m) >= Cardinality(G) + from /\ Before(S, v, m) < Cardinality(H)
      BY <1>1, <1>2, <1>3, <2>1, <2>2
  <2>4. PICK i \in 1..Cardinality(H \ G) :
            /\ Ranked(H \ G, v)[i] = m
            /\ from < i /\ Before(S, v, m) + 1 = Cardinality(G) + i
      BY <2>1, <2>3, NextPlaces
  <2>5. i <= x
      BY <1>1, <1>2, <2>1, <2>2, <2>4
  <2> QED
      BY <2>4, <2>5
<1>6. IsFiniteSet(A \cap T) /\ (A \cap T) \cap D = {} /\ (A \cap T) \cup D \subseteq B \cap U /\ IsFiniteSet(B \cap U)
    BY <1>4, <1>5, FS_Intersection
<1>7. /\ Cardinality((A \cap T) \cup D) = Cardinality(A \cap T) + Cardinality(D)
      /\ Cardinality(A \cap T) \in Nat
    BY <1>4, <1>6, UnionOfDisjoint
<1>8. Cardinality((A \cap T) \cup D) <= Cardinality(B \cap U) /\ Cardinality(B \cap U) \in Nat
    BY <1>6, FS_Subset, FS_CardinalityType
<1>9. a <= Cardinality(A \cap T) + c
    BY <1>1
<1> HIDE DEF T, U, D
<1>10. a + (x - from) <= Cardinality(B \cap U) + c
    BY <1>4, <1>7, <1>8, <1>9
<1> QED
    BY <1>1, <1>10 DEF U

\* What is gathered once more is found.
LEMMA GatheredNext ==
    ASSUME NEW X, NEW l \in Seq(X), NEW f \in Seq(X), NEW t \in Seq(X), NEW b, ~b,
           NEW q \in Nat, NEW j \in Nat, q <= j, Len(f) <= q, Len(l) <= q
    PROVE  /\ Gathered(l, f, b, q) \subseteq Gathered(l, f \o t, b, j)
           /\ \A i \in 1..Len(t) : q < Len(f) + i /\ Len(f) + i <= j => t[i] \in Gathered(l, f \o t, b, j)
<1>1. /\ Len(l) \in Nat /\ Len(f) \in Nat /\ Len(t) \in Nat /\ f \o t \in Seq(X)
      /\ DOMAIN l = 1..Len(l) /\ DOMAIN f = 1..Len(f) /\ DOMAIN (f \o t) = 1..(Len(f) + Len(t))
      /\ \A i \in 1..Len(f) : (f \o t)[i] = f[i]
      /\ \A i \in 1..Len(t) : (f \o t)[Len(f) + i] = t[i]
    BY JoinFacts, InSequence
<1>2. Gathered(l, f, b, q) \subseteq Gathered(l, f \o t, b, j)
  <2>1. {l[i] : i \in DOMAIN l \cap 1..q} \subseteq {l[i] : i \in DOMAIN l \cap 1..j}
      BY <1>1
  <2>2. ASSUME NEW i \in {k \in DOMAIN f : ~b /\ Len(l) < k /\ k <= q}
        PROVE  f[i] \in {(f \o t)[e] : e \in {k \in DOMAIN (f \o t) : ~b /\ Len(l) < k /\ k <= j}}
    <3>1. i \in 1..Len(f) /\ i \in 1..(Len(f) + Len(t)) /\ Len(l) < i /\ i <= j
        BY <1>1
    <3>2. (f \o t)[i] = f[i]
        BY <1>1, <3>1
    <3>3. i \in {k \in DOMAIN (f \o t) : ~b /\ Len(l) < k /\ k <= j}
        BY <1>1, <3>1
    <3> QED
        BY <3>2, <3>3
  <2> QED
      BY <2>1, <2>2 DEF Gathered
<1>3. ASSUME NEW i \in 1..Len(t), q < Len(f) + i, Len(f) + i <= j
      PROVE  t[i] \in Gathered(l, f \o t, b, j)
  <2>1. PICK e : e = Len(f) + i
      OBVIOUS
  <2>2. e \in DOMAIN (f \o t) /\ Len(l) < e /\ e <= j
      BY <1>1, <1>3, <2>1
  <2>3. (f \o t)[e] = t[i]
      BY <1>1, <2>1
  <2>4. e \in {k \in DOMAIN (f \o t) : ~b /\ Len(l) < k /\ k <= j}
      BY <2>2
  <2>5. (f \o t)[e] \in Gathered(l, f \o t, b, j)
      BY <2>4 DEF Gathered
  <2> QED
      BY <2>3, <2>5
<1> QED
    BY <1>2, <1>3

\* The eligible markets of the next page.
NextFound == Page(walk.upstream) \cap open

\* What a request finds.
LEMMA NextFoundFacts ==
    ASSUME ListingTypeOK, WalkInOrder, FetchPage
    PROVE  /\ NextFound \subseteq Markets /\ NextFound \subseteq open /\ NextFound \subseteq Reach
           /\ NextFound \cap Walked = {}
           /\ Volumed(NextFound, volume) /\ Cardinality(NextFound) \in Nat
           /\ Ranked(NextFound, volume) \in Seq(Markets)
           /\ Len(Ranked(NextFound, volume)) = Cardinality(NextFound)
           /\ ToSet(Ranked(NextFound, volume)) = NextFound
<1>1. Volumed(Markets, volume) /\ open \subseteq Markets
    BY Kinds
<1>2. Page(walk.upstream) \cap Walked = {} /\ Page(walk.upstream) \subseteq Reach
    BY NextPage DEF FetchPage
<1>3. NextFound \subseteq Markets /\ NextFound \subseteq open /\ NextFound \subseteq Reach /\ NextFound \cap Walked = {}
    BY <1>1, <1>2 DEF NextFound
<1>4. Volumed(NextFound, volume) /\ Cardinality(NextFound) \in Nat
    BY <1>1, <1>3, VolumedPart
<1>5. /\ Ranked(NextFound, volume) \in Seq(NextFound)
      /\ Len(Ranked(NextFound, volume)) = Cardinality(NextFound)
      /\ ToSet(Ranked(NextFound, volume)) = NextFound
    BY <1>4, RankedFacts
<1>6. Ranked(NextFound, volume) \in Seq(Markets)
    BY <1>3, <1>5
<1> QED
    BY <1>3, <1>4, <1>5, <1>6

\* What a request changes.
LEMMA FetchFacts ==
    ASSUME ListingTypeOK, WalkInOrder, FetchPage
    PROVE  /\ volume' = volume /\ open' = open /\ changes' = changes /\ featured' = featured
           /\ listed' = listed /\ atEnd' = atEnd /\ steady' = steady
           /\ Asked /\ Asked' /\ ~walk.over
           /\ walk'.found = walk.found \o Ranked(NextFound, volume)
           /\ Found' = Found \cup NextFound
           /\ \A m \in Found' : walk'.seen[m] = IF m \in NextFound THEN volume[m] ELSE walk.seen[m]
           /\ open \cap Walked' = (open \cap Walked) \cup NextFound
           /\ walk'.skip = walk.skip /\ walk'.limit = walk.limit
           /\ ListingTypeOK'
<1> DEFINE t == Ranked(NextFound, volume)
           found == walk.found \o t
           seen == [m \in ToSet(found) |-> IF m \in NextFound THEN volume[m] ELSE walk.seen[m]]
<1>1. /\ volume' = volume /\ open' = open /\ changes' = changes /\ featured' = featured
      /\ listed' = listed /\ atEnd' = atEnd /\ steady' = steady /\ Asked /\ ~walk.over
    BY DEF FetchPage, upstreamVars, client
<1>2. walk \in [skip : Nat, limit : Nat, upstream : Nat, found : Seq(Markets),
                seen : UNION {[S -> Volumes] : S \in SUBSET Markets}, over : BOOLEAN]
    BY DEF ListingTypeOK
<1>3. \E over \in BOOLEAN :
          walk' = [walk EXCEPT !.upstream = walk.upstream + PageSize, !.found = found,
                               !.seen = seen, !.over = over]
    BY DEF FetchPage, NextFound
<1>4. found \in Seq(Markets) /\ ToSet(found) = Found \cup NextFound
  <2>1. t \in Seq(Markets) /\ ToSet(t) = NextFound
      BY NextFoundFacts
  <2>2. walk.found \in Seq(Markets)
      BY <1>2
  <2> HIDE DEF t
  <2> QED
      BY <2>1, <2>2, JoinFacts DEF Found
<1>5. seen \in UNION {[S -> Volumes] : S \in SUBSET Markets}
  <2>1. \A m \in Found : walk.seen[m] \in Volumes
    <3>1. PICK S \in SUBSET Markets : walk.seen \in [S -> Volumes]
        BY <1>2
    <3>2. DOMAIN walk.seen = Found
        BY DEF ListingTypeOK, Found
    <3> QED
        BY <3>1, <3>2
  <2>2. \A m \in NextFound : volume[m] \in Volumes
      BY NextFoundFacts DEF ListingTypeOK
  <2> HIDE DEF found
  <2>3. \A m \in ToSet(found) : (IF m \in NextFound THEN volume[m] ELSE walk.seen[m]) \in Volumes
      BY <1>4, <2>1, <2>2
  <2>4. ToSet(found) \in SUBSET Markets
      BY <1>4, InSequence
  <2>5. seen \in [ToSet(found) -> Volumes]
      BY <2>3
  <2> QED
      BY <2>4, <2>5
<1>6. walk.upstream + PageSize \in Nat
    BY <1>2, ListingAssumption
<1> HIDE DEF found, seen
<1>7. /\ walk' \in [skip : Nat, limit : Nat, upstream : Nat, found : Seq(Markets),
                    seen : UNION {[S -> Volumes] : S \in SUBSET Markets}, over : BOOLEAN]
      /\ walk'.found = found /\ walk'.seen = seen
      /\ walk'.skip = walk.skip /\ walk'.limit = walk.limit
    BY <1>2, <1>3, <1>4, <1>5, <1>6
<1>8. DOMAIN walk'.seen = ToSet(walk'.found)
    BY <1>7 DEF seen
<1>9. ListingTypeOK'
    BY <1>1, <1>7, <1>8 DEF ListingTypeOK
<1>10. Found' = Found \cup NextFound
    BY <1>4, <1>7 DEF Found
<1>11. \A m \in Found' : walk'.seen[m] = IF m \in NextFound THEN volume[m] ELSE walk.seen[m]
    BY <1>4, <1>7, <1>10 DEF seen
<1>12. open \cap Walked' = (open \cap Walked) \cup NextFound
    BY FetchWalks DEF NextFound
<1>13. Asked'
    BY <1>1, <1>7 DEF Asked
<1> QED
    BY <1>1, <1>7, <1>9, <1>10, <1>11, <1>12, <1>13 DEF found

\* A page more for a client that pages by volume.
LEMMA FetchAgrees ==
    ASSUME LInv, FetchPage, ~featured, NEW x \in Nat, x <= Cardinality(NextFound),
           Len(listed) <= Len(walk.found) + x
    PROVE  LET g == Cardinality(open \cap Walked)
               f == Len(walk.found)
               more == walk.found \o Ranked(NextFound, volume)
               same == Cardinality(Gathered(listed, more, featured, f + x) \cap Leaders(open, volume, g + x))
           IN  g \in Nat /\ same \in Nat /\ f + x <= same + changes /\ g + x <= same + changes
<1> DEFINE G == open \cap Walked
           H == open \cap Walked'
           g == Cardinality(G)
           f == Len(walk.found)
           n == Len(listed)
           t == Ranked(NextFound, volume)
           from == IF f <= n THEN n - f ELSE 0
           q == f + from
           A == Gathered(listed, walk.found, featured, q)
           B == Gathered(listed, walk.found \o t, featured, f + x)
<1>1. /\ Volumed(Markets, volume) /\ open \subseteq Markets /\ walk.upstream \in Nat
      /\ f \in Nat /\ n \in Nat /\ listed \in Seq(Markets) /\ walk.found \in Seq(Markets)
      /\ changes \in Nat /\ PageSize \in Nat
    BY Kinds DEF LInv
<1>2. /\ Asked /\ walk'.found = walk.found \o t /\ H = G \cup NextFound
      /\ listed' = listed /\ featured' = featured /\ volume' = volume /\ changes' = changes
    BY FetchFacts DEF LInv
<1>3. Heads(G, open, volume) /\ g \in Nat /\ Volumed(open, volume)
  <2>1. PICK K : K = Passed(Markets, open, volume, walk.upstream)
      OBVIOUS
  <2>2. G = K
      BY <2>1 DEF Walked, Passed
  <2>3. Heads(K, open, volume) /\ Cardinality(K) \in Nat /\ Volumed(open, volume)
      BY <1>1, <2>1, PassedFacts
  <2> QED
      BY <2>2, <2>3
<1>4. Heads(H, open, volume)
  <2>1. walk'.upstream = walk.upstream + PageSize
      BY FetchWalks DEF LInv
  <2>2. walk'.upstream \in Nat
      BY <1>1, <2>1
  <2>3. PICK u \in Nat : u = walk'.upstream
      BY <2>2
  <2>4. H = Passed(Markets, open, volume, u)
      BY <1>2, <2>3 DEF Walked, Passed
  <2>5. Heads(Passed(Markets, open, volume, u), open, volume)
      BY <1>1, PassedFacts
  <2> QED
      BY <2>4, <2>5
<1>5. H \ G = NextFound /\ G \subseteq H
    BY <1>2, NextFoundFacts DEF LInv
<1>6. t \in Seq(Markets) /\ Len(t) = Cardinality(NextFound) /\ Cardinality(NextFound) \in Nat
    BY NextFoundFacts DEF LInv
<1>7. /\ from \in Nat /\ from <= n /\ from <= x /\ (from = 0 \/ f + from <= n)
      /\ q \in Nat /\ f <= q /\ n <= q /\ q <= f + x /\ f + x \in Nat
  <2> HIDE DEF f, n
  <2>1. from = IF f <= n THEN n - f ELSE 0
      OBVIOUS
  <2>2. n <= f + x
      BY DEF f, n
  <2>3. q = f + from
      OBVIOUS
  <2> HIDE DEF from, q
  <2>4. from \in Nat /\ from <= n /\ from <= x /\ (from = 0 \/ f + from <= n) /\ f + from <= f + x /\ n <= f + from
      BY <1>1, <2>1, <2>2
  <2> QED
      BY <1>1, <2>3, <2>4
<1>8. /\ q <= Cardinality(A \cap Leaders(open, volume, g + from)) + changes
      /\ g + from <= Cardinality(A \cap Leaders(open, volume, g + from)) + changes
  <2>1. from \in 0..n
      BY <1>1, <1>7
  <2>2. PICK i \in 0..n : i = from
      BY <2>1
  <2>3. /\ f + i <= Cardinality(Got(f + i) \cap Leaders(open, volume, g + i)) + changes
        /\ g + i <= Cardinality(Got(f + i) \cap Leaders(open, volume, g + i)) + changes
      BY <1>2, <1>7, <2>2 DEF LInv, WalkAgrees
  <2> QED
      BY <2>2, <2>3, GotIs
<1>9. /\ A \subseteq B
      /\ \A i \in 1..Len(t) : q < f + i /\ f + i <= f + x => t[i] \in B
  <2>1. PICK Q \in Nat, J \in Nat : Q = q /\ J = f + x
      BY <1>7
  <2>2. Q <= J /\ Len(walk.found) <= Q /\ Len(listed) <= Q
      BY <1>7, <2>1
  <2>3. /\ Gathered(listed, walk.found, featured, Q) \subseteq Gathered(listed, walk.found \o t, featured, J)
        /\ \A i \in 1..Len(t) : Q < Len(walk.found) + i /\ Len(walk.found) + i <= J
                                  => t[i] \in Gathered(listed, walk.found \o t, featured, J)
      BY <1>1, <1>6, <2>2, GatheredNext
  <2> QED
      BY <2>1, <2>3
<1>10. \A i \in 1..Cardinality(H \ G) : from < i /\ i <= x => Ranked(H \ G, volume)[i] \in B
  <2>1. ASSUME NEW i \in 1..Len(t), from < i, i <= x PROVE t[i] \in B
    <3>1. q = f + from
        OBVIOUS
    <3> HIDE DEF q, f, from
    <3>2. q < f + i /\ f + i <= f + x
        BY <1>1, <1>7, <2>1, <3>1
    <3> QED
        BY <1>9, <3>2
  <2> QED
      BY <1>5, <1>6, <2>1
<1> HIDE DEF G, H, g, f, n, t, from, q, A, B
<1>11. x <= Cardinality(H \ G)
    BY <1>5
<1>12. PICK r \in Nat, a \in Nat, b \in Nat : r = from /\ a = q /\ b = g + from
    BY <1>3, <1>7
<1>13. /\ a <= Cardinality(A \cap Leaders(open, volume, Cardinality(G) + r)) + changes
       /\ b <= Cardinality(A \cap Leaders(open, volume, Cardinality(G) + r)) + changes
       /\ r <= x
       /\ \A i \in 1..Cardinality(H \ G) : r < i /\ i <= x => Ranked(H \ G, volume)[i] \in B
    BY <1>7, <1>8, <1>10, <1>12 DEF g
<1>14. A \subseteq B
    BY <1>9
<1>15. a + (x - r) <= Cardinality(B \cap Leaders(open, volume, Cardinality(G) + x)) + changes
    BY <1>1, <1>3, <1>4, <1>5, <1>11, <1>13, <1>14, WalkExtends
<1>16. b + (x - r) <= Cardinality(B \cap Leaders(open, volume, Cardinality(G) + x)) + changes
    BY <1>1, <1>3, <1>4, <1>5, <1>11, <1>13, <1>14, WalkExtends
<1>17. a + (x - r) = f + x /\ b + (x - r) = g + x
  <2>1. q = f + from
      BY DEF q
  <2> QED
      BY <1>1, <1>3, <1>7, <1>12, <2>1
<1>18. Cardinality(B \cap Leaders(open, volume, g + x)) \in Nat
  <2>1. g + x \in Nat
      BY <1>3
  <2> QED
      BY <1>3, <2>1, TopFacts, FS_Intersection, FS_CardinalityType
<1> QED
    BY <1>3, <1>15, <1>16, <1>17, <1>18 DEF g, G, f, B, t

\* A request of a walk by volume.
LEMMA FetchByVolume ==
    ASSUME LInv, FetchPage, ~featured
    PROVE  PrefixesAgree' /\ WalkAgrees'
<1> DEFINE n == Len(listed)
           f == Len(walk.found)
           p == Cardinality(NextFound)
           t == Ranked(NextFound, volume)
           more == walk.found \o t
           g == Cardinality(open \cap Walked)
           Will(j) == Gathered(listed, more, featured, j)
<1>1. /\ Volumed(open, volume) /\ n \in Nat /\ f \in Nat /\ listed \in Seq(Markets)
      /\ walk.found \in Seq(Markets) /\ changes \in Nat
    BY Kinds DEF LInv
<1>2. /\ walk'.found = more /\ open \cap Walked' = (open \cap Walked) \cup NextFound
      /\ Asked /\ Asked' /\ volume' = volume /\ open' = open /\ changes' = changes /\ featured' = featured /\ listed' = listed
    BY FetchFacts DEF LInv
<1>3. /\ p \in Nat /\ t \in Seq(Markets) /\ Len(t) = p
      /\ (open \cap Walked) \cap NextFound = {} /\ Volumed(NextFound, volume)
    BY NextFoundFacts DEF LInv
<1>4. more \in Seq(Markets) /\ Len(more) = f + p
  <2>1. PICK w \in Seq(Markets), h \in Seq(Markets) : w = walk.found /\ h = t
      BY <1>1, <1>3
  <2>2. w \o h \in Seq(Markets) /\ Len(w \o h) = Len(w) + Len(h)
      BY JoinFacts
  <2> QED
      BY <1>3, <2>1, <2>2
<1>5. g \in Nat /\ Cardinality(open' \cap Walked') = g + p
  <2>1. IsFiniteSet(open \cap Walked) /\ IsFiniteSet(NextFound)
      BY <1>1, <1>3, FS_Intersection DEF Volumed
  <2> QED
      BY <1>2, <1>3, <2>1, UnionOfDisjoint
<1>6. \A j : Got(j)' = Gathered(listed', walk'.found, featured', j)
    BY GotIs
<1>7. ASSUME NEW x \in Nat, x <= p, n <= f + x
      PROVE  /\ f + x <= Cardinality(Will(f + x) \cap Leaders(open, volume, f + x)) + changes
             /\ f + x <= Cardinality(Will(f + x) \cap Leaders(open, volume, g + x)) + changes
             /\ g + x <= Cardinality(Will(f + x) \cap Leaders(open, volume, g + x)) + changes
  <2>1. PICK same : same = Cardinality(Will(f + x) \cap Leaders(open, volume, g + x))
      OBVIOUS
  <2>2. same \in Nat /\ f + x <= same + changes /\ g + x <= same + changes
      BY <1>7, <2>1, FetchAgrees
  <2>3. PICK B : B = Will(f + x)
      OBVIOUS
  <2> HIDE DEF Will, f, g, p, n
  <2>4. PICK a \in Nat, b \in Nat : a = f + x /\ b = g + x
      BY <1>1, <1>5
  <2>5. PICK k : k = Cardinality(B \cap Leaders(open, volume, a))
      OBVIOUS
  <2>6. same = Cardinality(B \cap Leaders(open, volume, b))
      BY <2>1, <2>3, <2>4
  <2>7. CASE b <= a
    <3>1. k \in Nat /\ same <= k
        BY <1>1, <2>5, <2>6, <2>7, TopLess
    <3>2. a <= k + changes
        BY <1>1, <2>2, <2>4, <3>1
    <3> QED
        BY <2>1, <2>2, <2>3, <2>4, <2>5, <3>2
  <2>8. CASE a <= b
    <3>1. k \in Nat /\ same <= k + (b - a)
        BY <1>1, <2>5, <2>6, <2>8, TopLess
    <3>2. a <= k + changes
        BY <1>1, <2>2, <2>4, <2>8, <3>1
    <3> QED
        BY <2>1, <2>2, <2>3, <2>4, <2>5, <3>2
  <2> QED
      BY <2>7, <2>8
<1>8. PrefixesAgree'
  <2> SUFFICES ASSUME NEW j \in 0..(n + Len(more)), j <= n \/ j <= Len(more)
               PROVE  j <= Cardinality(Will(j) \cap Leaders(open, volume, j)) + changes
    <3>1. Pool' = open
        BY <1>2 DEF Pool
    <3>2. PrefixesAgree' = (\A j \in 0..(n + Len(more)) : j <= n \/ (~featured /\ j <= Len(more))
                               => j <= Cardinality(Will(j) \cap Leaders(open, volume, j)) + changes)
        BY <1>2, <1>6, <3>1 DEF PrefixesAgree
    <3> QED
        BY <3>2
  <2>1. j \in Nat
      BY <1>1, <1>4
  <2>2. Pool = open
      BY DEF Pool
  <2>3. CASE j <= n
      BY <1>4, <2>1, <2>2, <2>3, Prefix DEF LInv
  <2>4. CASE j <= f
    <3>1. j \in 0..(Len(listed) + Len(walk.found))
        BY <1>1, <2>1, <2>4
    <3>2. j <= Cardinality(Got(j) \cap Leaders(open, volume, j)) + changes
        BY <2>2, <2>4, <3>1 DEF LInv, PrefixesAgree
    <3>3. Gathered(listed, walk.found, featured, j) = Will(j)
      <4>1. PICK w \in Seq(Markets), h \in Seq(Markets) : w = walk.found /\ h = t
          BY <1>1, <1>3
      <4>3. PICK b : b = featured
          OBVIOUS
      <4>2. Gathered(listed, w, b, j) = Gathered(listed, w \o h, b, j)
          BY <1>1, <2>1, <2>4, <4>1, GatheredFound
      <4> QED
          BY <4>1, <4>2, <4>3
    <3> QED
        BY <3>2, <3>3, GotIs
  <2>5. CASE n < j /\ f < j
    <3>1. PICK x \in Nat : j = f + x /\ x <= p /\ n <= f + x
      <4>1. j <= f + p
          BY <1>1, <1>4, <2>5
      <4> HIDE DEF f, p, n
      <4>2. j - f \in Nat /\ j = f + (j - f) /\ j - f <= p /\ n <= f + (j - f)
          BY <1>1, <1>3, <2>1, <2>5, <4>1
      <4> QED
          BY <4>2
    <3>2. f + x <= Cardinality(Will(f + x) \cap Leaders(open, volume, f + x)) + changes
        BY <1>7, <3>1
    <3> QED
        BY <3>1, <3>2
  <2> QED
      BY <1>1, <2>1, <2>3, <2>4, <2>5
<1>9. WalkAgrees'
  <2> SUFFICES ASSUME NEW i \in 0..n, i = 0 \/ (f + p) + i <= n
               PROVE  /\ (f + p) + i <= Cardinality(Will((f + p) + i) \cap Leaders(open, volume, (g + p) + i)) + changes
                      /\ (g + p) + i <= Cardinality(Will((f + p) + i) \cap Leaders(open, volume, (g + p) + i)) + changes
    <3>1. WalkAgrees' = (\A i \in 0..n : i = 0 \/ (f + p) + i <= n =>
               /\ (f + p) + i <= Cardinality(Will((f + p) + i) \cap Leaders(open, volume, (g + p) + i)) + changes
               /\ (g + p) + i <= Cardinality(Will((f + p) + i) \cap Leaders(open, volume, (g + p) + i)) + changes)
        BY <1>2, <1>4, <1>5, <1>6 DEF WalkAgrees
    <3> QED
        BY <3>1
  <2>1. CASE (f + p) + i <= n
    <3>1. PICK k \in 0..n : k = p + i
        BY <1>1, <1>3, <2>1
    <3>2. f + k = (f + p) + i /\ g + k = (g + p) + i /\ f + k <= n
        BY <1>1, <1>3, <1>5, <2>1, <3>1
    <3>3. /\ f + k <= Cardinality(Got(f + k) \cap Leaders(open, volume, g + k)) + changes
          /\ g + k <= Cardinality(Got(f + k) \cap Leaders(open, volume, g + k)) + changes
        BY <1>2, <3>2 DEF LInv, WalkAgrees
    <3>4. f + k \in Nat
        BY <1>1, <3>1
    <3>5. Gathered(listed, walk.found, featured, f + k) = Will(f + k)
      <4>1. PICK j \in Nat : j = f + k
          BY <3>4
      <4>2. PICK h \in Seq(Markets) : h = more
          BY <1>4
      <4>3. j <= Len(listed)
          BY <3>2, <4>1
      <4>4. Gathered(listed, walk.found, featured, j) = Gathered(listed, h, featured, j)
          BY <1>1, <4>1, <4>3, GatheredListed
      <4> QED
          BY <4>1, <4>2, <4>4
    <3>6. Got(f + k) = Gathered(listed, walk.found, featured, f + k)
        BY GotIs
    <3> HIDE DEF f, g, p, n, Will
    <3> QED
        BY <3>2, <3>3, <3>5, <3>6
  <2>2. CASE i = 0 /\ n < f + p
    <3>1. /\ f + p <= Cardinality(Will(f + p) \cap Leaders(open, volume, g + p)) + changes
          /\ g + p <= Cardinality(Will(f + p) \cap Leaders(open, volume, g + p)) + changes
      <4>1. PICK x \in Nat : x = p
          BY <1>3
      <4>2. x <= p /\ n <= f + x
          BY <1>1, <2>2, <4>1
      <4>3. /\ f + x <= Cardinality(Will(f + x) \cap Leaders(open, volume, g + x)) + changes
            /\ g + x <= Cardinality(Will(f + x) \cap Leaders(open, volume, g + x)) + changes
          BY <1>7, <4>2
      <4> QED
          BY <4>1, <4>3
    <3>2. (f + p) + i = f + p /\ (g + p) + i = g + p
        BY <1>1, <1>3, <1>5, <2>2
    <3> HIDE DEF f, g, p, n, Will
    <3> QED
        BY <3>1, <3>2
  <2> QED
      BY <1>1, <1>3, <2>1, <2>2
<1> QED
    BY <1>8, <1>9

\* Without a change what a walk has found is as it was found.
LEMMA NothingStale ==
    ASSUME LInv, Asked, featured, changes = 0
    PROVE  /\ Stale = {} /\ Found = open \cap Walked
           /\ \A m \in Found : walk.seen[m] = volume[m]
<1>1. /\ Volumed(Coming, SeenOrNow) /\ IsFiniteSet(Stale) /\ Cardinality(Stale) \in Nat
    BY ComingFacts DEF LInv
<1>2. Found \subseteq Walked
    BY DEF LInv, FeaturedAgree
<1>3. Leaders(Coming, SeenOrNow, 0) = {}
  <2>1. \A m \in Coming : Before(Coming, SeenOrNow, m) \in Nat
      BY <1>1, BeforeFacts
  <2> QED
      BY <2>1 DEF Leaders
<1>4. 0 \in 0..Len(listed)
    BY Kinds DEF LInv
<1>5. 0 + Cardinality(Stale) <= Cardinality(Got(0) \cap Leaders(Coming, SeenOrNow, 0)) + changes
    BY <1>4 DEF LInv, FeaturedAgree
<1>6. Cardinality(Got(0) \cap Leaders(Coming, SeenOrNow, 0)) = 0
    BY <1>3, FS_EmptySet
<1>7. Cardinality(Stale) = 0
    BY <1>1, <1>5, <1>6
<1>8. Stale = {}
    BY <1>1, <1>7, FS_EmptySet
<1> QED
    BY <1>2, <1>8 DEF Stale

\* A request of a walk through the featured events.
LEMMA FetchFeatured ==
    ASSUME LInv, FetchPage, featured
    PROVE  PrefixesAgree' /\ FeaturedAgree'
<1>1. /\ volume' = volume /\ open' = open /\ changes' = changes /\ featured' = featured
      /\ listed' = listed /\ Asked
      /\ Found' = Found \cup NextFound
      /\ \A m \in Found' : walk'.seen[m] = IF m \in NextFound THEN volume[m] ELSE walk.seen[m]
      /\ ListingTypeOK'
    BY FetchFacts DEF LInv
<1>2. walk'.found \in Seq(Markets)
    BY <1>1 DEF ListingTypeOK
<1>3. /\ listed \in Seq(Markets) /\ walk.found \in Seq(Markets) /\ Len(listed) \in Nat
      /\ Found \subseteq Markets /\ open \subseteq Markets
    BY Kinds DEF LInv
<1>4. Walked' = Walked \cup Page(walk.upstream) /\ Reach' = Reach
    BY FetchWalks DEF LInv
<1>5. Page(walk.upstream) \cap Walked = {} /\ Page(walk.upstream) \subseteq Reach
    BY NextPage DEF LInv, FetchPage
<1>6. NextFound \subseteq open /\ NextFound \subseteq Markets /\ NextFound = Page(walk.upstream) \cap open
    BY NextFoundFacts DEF LInv, NextFound
<1>7. Found \subseteq Walked
    BY <1>1 DEF LInv, FeaturedAgree
<1>8. PrefixesAgree'
  <2> SUFFICES ASSUME NEW j \in 0..(Len(listed) + Len(walk'.found)), j <= Len(listed)
               PROVE  j <= Cardinality(Gathered(listed, walk'.found, featured, j) \cap Leaders(Pool, volume, j)) + changes
    <3>1. Pool' = Pool
        BY <1>1, <1>4 DEF Pool
    <3>2. \A j : Got(j)' = Gathered(listed', walk'.found, featured', j)
        BY GotIs
    <3> QED
        BY <1>1, <3>1, <3>2 DEF PrefixesAgree
  <2>1. j \in Nat
      BY <1>2, <1>3
  <2> QED
      BY <1>2, <2>1, Prefix DEF LInv
<1>9. Coming' = Coming
    BY <1>1, <1>4, <1>5, <1>6, <1>7 DEF Coming
<1>10. /\ Coming \subseteq Markets /\ Volumed(Coming, SeenOrNow)
       /\ \A k \in Markets : SeenOrNow[k] = IF k \in Found THEN walk.seen[k] ELSE volume[k]
    BY <1>1, ComingFacts DEF LInv
<1>11. \A k \in Markets : SeenOrNow'[k] = SeenOrNow[k]
  <2>1. \A k \in Markets : SeenOrNow'[k] = IF k \in Found' THEN walk'.seen[k] ELSE volume[k]
      BY <1>1 DEF SeenOrNow
  <2>2. NextFound \cap Found = {}
      BY <1>5, <1>6, <1>7
  <2> QED
      BY <1>1, <1>10, <2>1, <2>2
<1>12. Stale' = Stale
  <2>1. Stale' = {m \in Walked' : m \in Found' <=> m \notin open} \cup {m \in Found' : walk'.seen[m] # volume[m]}
      BY <1>1 DEF Stale
  <2>2. {m \in Found' : walk'.seen[m] # volume[m]} = {m \in Found : walk.seen[m] # volume[m]}
      BY <1>1, <1>5, <1>6, <1>7
  <2>3. {m \in Walked' : m \in Found' <=> m \notin open} = {m \in Walked : m \in Found <=> m \notin open}
      BY <1>1, <1>4, <1>5, <1>6, <1>7
  <2> QED
      BY <2>1, <2>2, <2>3 DEF Stale
<1>13. FeaturedAgree'
  <2> SUFFICES ASSUME NEW j \in 0..Len(listed)
               PROVE  j + Cardinality(Stale) <= Cardinality(Gathered(listed, walk'.found, featured, j) \cap Leaders(Coming, SeenOrNow', j)) + changes
    <3>1. \A j : Got(j)' = Gathered(listed', walk'.found, featured', j)
        BY GotIs
    <3>2. Found' \subseteq Walked'
        BY <1>1, <1>4, <1>6, <1>7
    <3> QED
        BY <1>1, <1>9, <1>12, <3>1, <3>2 DEF FeaturedAgree
  <2>1. j + Cardinality(Stale) <= Cardinality(Got(j) \cap Leaders(Coming, SeenOrNow, j)) + changes
      BY <1>1 DEF LInv, FeaturedAgree
  <2>2. PICK h \in Seq(Markets) : h = walk'.found
      BY <1>2
  <2>8. PICK b : b = featured
      OBVIOUS
  <2>3. j \in Nat /\ j <= Len(listed)
      BY <1>3
  <2>4. Gathered(listed, walk.found, b, j) = Gathered(listed, h, b, j)
      BY <1>3, <2>3, GatheredListed
  <2>5. Got(j) = Gathered(listed, walk'.found, featured, j)
      BY <2>2, <2>4, <2>8, GotIs
  <2>6. Alike(Coming, SeenOrNow, SeenOrNow')
      BY <1>10, <1>11 DEF Alike
  <2>7. Leaders(Coming, SeenOrNow, j) = Leaders(Coming, SeenOrNow', j)
      BY <1>10, <2>3, <2>6, AlikeRanked
  <2> QED
      BY <2>1, <2>5, <2>7
<1> QED
    BY <1>8, <1>13

\* A request keeps the invariant.
LEMMA FetchPageLInv ==
    ASSUME LInv, FetchPage
    PROVE  LInv'
<1>1. /\ volume' = volume /\ open' = open /\ changes' = changes /\ featured' = featured
      /\ listed' = listed /\ atEnd' = atEnd /\ steady' = steady /\ Asked /\ Asked'
      /\ walk'.found = walk.found \o Ranked(NextFound, volume)
      /\ Found' = Found \cup NextFound
      /\ \A m \in Found' : walk'.seen[m] = IF m \in NextFound THEN volume[m] ELSE walk.seen[m]
      /\ open \cap Walked' = (open \cap Walked) \cup NextFound
      /\ ListingTypeOK'
    BY FetchFacts DEF LInv
<1>2. Reach' = Reach
    BY FetchWalks DEF LInv
<1>3. WalkInOrder'
    BY FetchInOrder DEF LInv
<1>4. PrefixesAgree' /\ WalkAgrees' /\ FeaturedAgree'
  <2>1. CASE featured
      BY <1>1, <2>1, FetchFeatured DEF WalkAgrees
  <2>2. CASE ~featured
      BY <1>1, <2>2, FetchByVolume DEF FeaturedAgree
  <2> QED
      BY <2>1, <2>2
<1>5. NoneHidden'
    BY <1>1, <1>2 DEF LInv, NoneHidden
<1>6. NextFound \cap Walked = {} /\ Volumed(open, volume) /\ open \subseteq Markets /\ Volumed(Markets, volume)
    BY NextFoundFacts, Kinds DEF LInv
<1>7. ASSUME changes = 0 PROVE InOrder' = Ranked(open \cap Walked', volume)
  <2>1. CASE featured
    <3>1. Found = open \cap Walked /\ \A m \in Found : walk.seen[m] = volume[m]
        BY <1>1, <1>7, <2>1, NothingStale
    <3>2. Found' = open \cap Walked'
        BY <1>1, <3>1
    <3>3. Alike(open \cap Walked', volume, walk'.seen)
        BY <1>1, <3>1, <3>2 DEF Alike
    <3>4. Volumed(open \cap Walked', volume)
        BY <1>6, VolumedPart
    <3>5. Ranked(open \cap Walked', volume) = Ranked(open \cap Walked', walk'.seen)
        BY <3>3, <3>4, AlikeRanked
    <3>6. InOrder' = Ranked(Found', walk'.seen)
        BY <1>1, <2>1 DEF InOrder, Found
    <3> QED
        BY <3>2, <3>5, <3>6
  <2>2. CASE ~featured
    <3>1. walk.found = Ranked(open \cap Walked, volume)
        BY <1>1, <1>7, <2>2 DEF LInv, Undisturbed, InOrder
    <3>2. InOrder' = walk.found \o Ranked(NextFound, volume)
        BY <1>1, <2>2 DEF InOrder
    <3>3. PICK G, H : G = open \cap Walked /\ H = open \cap Walked'
        OBVIOUS
    <3>4. H \ G = NextFound /\ G \subseteq H
        BY <1>1, <1>6, <3>3
    <3>5. Heads(G, H, volume)
      <4>1. G = Leaders(Markets, volume, walk.upstream) \cap H
        <5>1. G = Leaders(Markets, volume, walk.upstream) \cap open
            BY <2>2, <3>3 DEF Walked
        <5> QED
            BY <3>3, <3>4, <5>1
      <4>2. walk.upstream \in Nat /\ H \subseteq Markets
          BY <1>6, <3>3, Kinds DEF LInv
      <4> QED
          BY <1>6, <4>1, <4>2, TopHeads
    <3>6. Ranked(H, volume) = Ranked(G, volume) \o Ranked(H \ G, volume)
        BY <3>5, HeadRanked
    <3> QED
        BY <3>1, <3>2, <3>3, <3>4, <3>6
  <2> QED
      BY <2>1, <2>2
<1>8. Undisturbed'
    BY <1>1, <1>2, <1>7 DEF LInv, Undisturbed
<1> QED
    BY <1>1, <1>3, <1>4, <1>5, <1>8 DEF LInv

-----------------------------------------------------------------------------
(* Pages of the listing: an answer. *)

\* What is in one set is in another, or among what only the one has.
LEMMA Overlap ==
    ASSUME NEW Y, NEW Z, IsFiniteSet(Y), IsFiniteSet(Z), NEW X
    PROVE  /\ Cardinality(X \cap Y) \in Nat /\ Cardinality(X \cap Z) \in Nat
           /\ Cardinality(Y \ Z) \in Nat /\ Cardinality(Y \ X) \in Nat /\ Cardinality(Y) \in Nat
           /\ IsFiniteSet(Y \ X)
           /\ Cardinality(X \cap Y) <= Cardinality(X \cap Z) + Cardinality(Y \ Z)
           /\ Cardinality(X \cap Y) + Cardinality(Y \ X) = Cardinality(Y)
<1> DEFINE A == X \cap Y
           B == X \cap Z
           D == (Y \ Z) \ B
<1>1. /\ IsFiniteSet(A) /\ IsFiniteSet(B) /\ IsFiniteSet(Y \ Z) /\ IsFiniteSet(Y \ X)
    BY FS_Intersection, FS_Difference
<1>2. B \cap (Y \ Z) = {} /\ A \subseteq B \cup (Y \ Z) /\ A \cap (Y \ X) = {} /\ A \cup (Y \ X) = Y
    OBVIOUS
<1> HIDE DEF A, B, D
<1>3. /\ IsFiniteSet(B \cup (Y \ Z)) /\ Cardinality(B) \in Nat /\ Cardinality(Y \ Z) \in Nat
      /\ Cardinality(B \cup (Y \ Z)) = Cardinality(B) + Cardinality(Y \ Z)
    BY <1>1, <1>2, UnionOfDisjoint
<1>4. /\ Cardinality(A) \in Nat /\ Cardinality(Y \ X) \in Nat
      /\ Cardinality(Y) = Cardinality(A) + Cardinality(Y \ X)
    BY <1>1, <1>2, UnionOfDisjoint
<1>5. Cardinality(A) <= Cardinality(B \cup (Y \ Z))
    BY <1>2, <1>3, FS_Subset
<1>6. Cardinality(A) <= Cardinality(B) + Cardinality(Y \ Z)
    BY <1>3, <1>5
<1>7. Cardinality(Y) \in Nat
    BY FS_CardinalityType
<1> QED
    BY <1>1, <1>3, <1>4, <1>6, <1>7 DEF A, B

\* The places after n are those of the markets ranked after n.
LEMMA RanksAdded ==
    ASSUME NEW F, NEW v, Volumed(F, v), NEW n \in Nat, NEW j \in Nat, n <= j, j <= Cardinality(F),
           NEW A, NEW B, A \subseteq B,
           \A i \in 1..Cardinality(F) : n < i /\ i <= j => Ranked(F, v)[i] \in B,
           NEW a \in Nat, NEW c \in Nat, a <= Cardinality(A \cap Leaders(F, v, n)) + c
    PROVE  a + (j - n) <= Cardinality(B \cap Leaders(F, v, j)) + c
<1>1. PICK G : G = {}
    OBVIOUS
<1>2. Heads(G, F, v) /\ Heads(F, F, v) /\ G \subseteq F /\ F \ G = F
    BY <1>1 DEF Heads
<1>3. Cardinality(G) = 0
    BY <1>1, FS_EmptySet
<1>4. Cardinality(G) + n = n /\ Cardinality(G) + j = j
    BY <1>3
<1>5. /\ a <= Cardinality(A \cap Leaders(F, v, Cardinality(G) + n)) + c
      /\ j <= Cardinality(F \ G)
      /\ \A i \in 1..Cardinality(F \ G) : n < i /\ i <= j => Ranked(F \ G, v)[i] \in B
    BY <1>2, <1>4
<1>6. a + (j - n) <= Cardinality(B \cap Leaders(F, v, Cardinality(G) + j)) + c
    BY <1>2, <1>5, WalkExtends
<1> QED
    BY <1>4, <1>6

\* What is listed, and then what comes in order.
Added(l, r, k) ==
    /\ \A i \in 1..Len(k) : i <= Len(l) => k[i] = l[i]
    /\ \A i \in 1..Len(k) : i > Len(l) => k[i] = r[i]

\* A page is added to what the client has.
LEMMA PageAdded ==
    ASSUME NEW X, NEW l \in Seq(X), NEW r \in Seq(X), NEW limit \in Nat, NEW k,
           k = l \o Cut(r, Len(l), limit)
    PROVE  /\ k \in Seq(X) /\ Len(k) \in Nat /\ Len(k) >= Len(l)
           /\ Len(k) <= Len(r) \/ Len(k) = Len(l)
           /\ Len(Cut(r, Len(l), limit)) < limit => Len(r) < Len(l) + limit /\ Len(r) <= Len(k)
           /\ Added(l, r, k)
<1> DEFINE n == Len(l)
           t == Cut(r, n, limit)
           a == Len(t)
<1>1. n \in Nat /\ Len(r) \in Nat
    OBVIOUS
<1>2. /\ t \in Seq(X) /\ a \in Nat
      /\ Len(r) <= n => a = 0
      /\ n <= Len(r) => n + a = IF n + limit <= Len(r) THEN n + limit ELSE Len(r)
      /\ \A i \in 1..a : t[i] = r[n + i]
  <2>1. PICK m \in Nat : m = n
      BY <1>1
  <2>2. Cut(r, m, limit) \in Seq(X) /\ Len(Cut(r, m, limit)) \in Nat
      BY CutFacts
  <2>3. Len(r) <= m => Len(Cut(r, m, limit)) = 0
      BY CutFacts
  <2>4. m <= Len(r) =>
            m + Len(Cut(r, m, limit)) = IF m + limit <= Len(r) THEN m + limit ELSE Len(r)
      BY CutFacts
  <2>5. \A i \in 1..Len(Cut(r, m, limit)) : Cut(r, m, limit)[i] = r[m + i]
      BY CutFacts
  <2> QED
      BY <2>1, <2>2, <2>3, <2>4, <2>5
<1> HIDE DEF t
<1>3. /\ k \in Seq(X) /\ Len(k) = n + a
      /\ \A i \in 1..n : k[i] = l[i]
      /\ \A i \in 1..a : k[n + i] = t[i]
  <2>1. k = l \o t
      BY DEF t
  <2> QED
      BY <1>2, <2>1, JoinFacts
<1> HIDE DEF n, a
<1>4. ASSUME NEW i \in 1..Len(k) PROVE k[i] = IF i <= n THEN l[i] ELSE r[i]
  <2>1. CASE i <= n
      BY <1>1, <1>3, <2>1
  <2>2. CASE ~(i <= n)
    <3>1. PICK x \in 1..a : i = n + x
      <4>1. i - n \in 1..a /\ i = n + (i - n)
          BY <1>1, <1>2, <1>3, <2>2
      <4> QED
          BY <4>1
    <3> QED
        BY <1>2, <1>3, <2>2, <3>1
  <2> QED
      BY <2>1, <2>2
<1>5. Len(k) \in Nat /\ Len(k) >= n /\ (Len(k) <= Len(r) \/ Len(k) = n)
    BY <1>1, <1>2, <1>3
<1>6. a < limit => Len(r) < n + limit /\ Len(r) <= Len(k)
    BY <1>1, <1>2, <1>3
<1> QED
    BY <1>3, <1>4, <1>5, <1>6 DEF n, a, t, Added

FirstOf(k, j) == {k[i] : i \in DOMAIN k \cap 1..j}

\* The first of a longer list, of what was listed and what came.
LEMMA AddedIs ==
    ASSUME NEW X, NEW l \in Seq(X), NEW r \in Seq(X), NEW k \in Seq(X), Added(l, r, k),
           Len(k) >= Len(l), Len(k) <= Len(r) \/ Len(k) = Len(l),
           NEW j \in Nat, j <= Len(k)
    PROVE  /\ FirstOf(k, j) = Gathered(l, r, FALSE, j)
           /\ Gathered(l, r, FALSE, j) \subseteq ToSet(k)
<1>1. PICK x \in Nat, y \in Nat, z \in Nat : x = Len(l) /\ y = Len(r) /\ z = Len(k)
    OBVIOUS
<1>2. /\ DOMAIN k = 1..z /\ DOMAIN l = 1..x /\ DOMAIN r = 1..y
      /\ z >= x /\ (z <= y \/ z = x)
    BY <1>1
<1>3. /\ \A i \in 1..z : i <= x => k[i] = l[i]
      /\ \A i \in 1..z : i > x => k[i] = r[i]
    BY <1>1 DEF Added
<1>4. Gathered(l, r, FALSE, j)
          = {l[i] : i \in (1..x) \cap 1..j} \cup {r[i] : i \in {e \in 1..y : x < e /\ e <= j}}
    BY <1>1, <1>2 DEF Gathered
<1>5. {k[i] : i \in (1..z) \cap 1..j} \subseteq Gathered(l, r, FALSE, j)
  <2> SUFFICES ASSUME NEW i \in (1..z) \cap 1..j PROVE k[i] \in Gathered(l, r, FALSE, j)
      OBVIOUS
  <2>1. CASE i <= x
    <3>1. i \in (1..x) \cap 1..j /\ k[i] = l[i]
        BY <1>3, <2>1
    <3> QED
        BY <1>4, <3>1
  <2>2. CASE i > x
    <3>1. i \in {e \in 1..y : x < e /\ e <= j}
        BY <1>2, <2>2
    <3>2. k[i] = r[i]
        BY <1>3, <2>2
    <3> QED
        BY <1>4, <3>1, <3>2
  <2>3. i \in Nat
      OBVIOUS
  <2>4. i <= x \/ i > x
      BY <2>3
  <2> QED
      BY <2>1, <2>2, <2>4
<1>6. Gathered(l, r, FALSE, j) \subseteq {k[i] : i \in (1..z) \cap 1..j}
  <2>1. ASSUME NEW i \in (1..x) \cap 1..j PROVE l[i] \in {k[e] : e \in (1..z) \cap 1..j}
    <3>1. i \in (1..z) \cap 1..j /\ i <= x
        BY <1>2
    <3> QED
        BY <1>3, <3>1
  <2>2. ASSUME NEW i \in {e \in 1..y : x < e /\ e <= j} PROVE r[i] \in {k[e] : e \in (1..z) \cap 1..j}
    <3>1. i \in (1..z) \cap 1..j /\ i > x
        BY <1>1
    <3> QED
        BY <1>3, <3>1
  <2> QED
      BY <1>4, <2>1, <2>2
<1>7. {k[i] : i \in (1..z) \cap 1..j} \subseteq ToSet(k)
    BY <1>2 DEF ToSet
<1>8. FirstOf(k, j) = {k[i] : i \in (1..z) \cap 1..j}
    BY <1>2 DEF FirstOf
<1> QED
    BY <1>1, <1>5, <1>6, <1>7, <1>8

\* What an answer changes.
LEMMA AnswerFacts ==
    ASSUME LInv, AnswerPage
    PROVE  /\ volume' = volume /\ open' = open /\ changes' = changes /\ featured' = featured
           /\ steady' = steady /\ walk' = Idle /\ Asked /\ walk.over
           /\ InOrder \in Seq(Markets) /\ Len(InOrder) \in Nat
           /\ listed' \in Seq(Markets) /\ Len(listed') \in Nat
           /\ Len(listed') >= Len(listed)
           /\ Len(listed') <= Len(InOrder) \/ Len(listed') = Len(listed)
           /\ Added(listed, InOrder, listed')
           /\ atEnd' => Len(InOrder) < Target /\ Len(InOrder) <= Len(listed')
           /\ ListingTypeOK'
<1>1. /\ volume' = volume /\ open' = open /\ changes' = changes /\ featured' = featured
      /\ steady' = steady /\ walk' = Idle /\ Asked /\ walk.over
      /\ listed' = listed \o Answered /\ atEnd' = (Len(Answered) < walk.limit)
    BY DEF AnswerPage, upstreamVars
<1>2. /\ listed \in Seq(Markets) /\ Len(listed) \in Nat /\ walk.limit \in Nat
      /\ walk.found \in Seq(Markets) /\ Found \subseteq Markets /\ Volumed(Found, walk.seen)
    BY Kinds DEF LInv
<1>3. walk.skip = Len(listed)
    BY <1>1 DEF LInv, WalkInOrder
<1>4. InOrder \in Seq(Markets)
  <2>1. Ranked(Found, walk.seen) \in Seq(Found)
      BY <1>2, RankedFacts
  <2>2. Ranked(Found, walk.seen) \in Seq(Markets)
      BY <1>2, <2>1
  <2> QED
      BY <1>2, <2>2 DEF InOrder, Found
<1>5. PICK l \in Seq(Markets), r \in Seq(Markets), limit \in Nat :
          l = listed /\ r = InOrder /\ limit = walk.limit
    BY <1>2, <1>4
<1>11. PICK k : k = listed'
    OBVIOUS
<1>6. k = l \o Cut(r, Len(l), limit)
    BY <1>1, <1>3, <1>5, <1>11 DEF Answered
<1>7. /\ k \in Seq(Markets) /\ Len(k) \in Nat /\ Len(k) >= Len(l)
      /\ Len(k) <= Len(r) \/ Len(k) = Len(l)
      /\ Len(Cut(r, Len(l), limit)) < limit => Len(r) < Len(l) + limit /\ Len(r) <= Len(k)
      /\ Added(l, r, k)
  <2>1. k \in Seq(Markets)
      BY <1>6, PageAdded
  <2>5. Len(k) >= Len(l)
      BY <1>6, PageAdded
  <2>2. Len(k) <= Len(r) \/ Len(k) = Len(l)
      BY <1>6, PageAdded
  <2>3. Len(Cut(r, Len(l), limit)) < limit => Len(r) < Len(l) + limit /\ Len(r) <= Len(k)
      BY <1>6, PageAdded
  <2>4. Added(l, r, k)
      BY <1>6, PageAdded
  <2> QED
      BY <2>1, <2>2, <2>3, <2>4, <2>5
<1>8. atEnd' => Len(InOrder) < Target /\ Len(InOrder) <= Len(listed')
    BY <1>1, <1>3, <1>5, <1>11, <1>7 DEF Answered, Target
<1>9. ListingTypeOK'
  <2>1. atEnd' \in BOOLEAN /\ listed' \in Seq(Markets)
      BY <1>1, <1>5, <1>11, <1>7
  <2> QED
      BY <1>1, <2>1, IdleTyped DEF LInv, ListingTypeOK
<1>10. Len(InOrder) \in Nat
    BY <1>4
<1> QED
    BY <1>1, <1>4, <1>5, <1>11, <1>7, <1>8, <1>9, <1>10

\* What the client has after an answer.
LEMMA AnsweredFacts ==
    ASSUME LInv, AnswerPage, NEW j \in Nat, j <= Len(listed')
    PROVE  /\ Got(j)' = Gathered(listed, InOrder, FALSE, j)
           /\ Gathered(listed, InOrder, FALSE, j) \subseteq ToSet(listed')
<1>1. PICK l \in Seq(Markets), r \in Seq(Markets), k \in Seq(Markets) :
          /\ l = listed /\ r = InOrder /\ k = listed' /\ Added(l, r, k)
          /\ Len(k) >= Len(l) /\ (Len(k) <= Len(r) \/ Len(k) = Len(l))
    BY AnswerFacts, Kinds DEF LInv
<1>2. j <= Len(k)
    BY <1>1
<1>3. /\ FirstOf(k, j) = Gathered(l, r, FALSE, j)
      /\ Gathered(l, r, FALSE, j) \subseteq ToSet(k)
  <2>1. Added(l, r, k) /\ Len(k) >= Len(l) /\ (Len(k) <= Len(r) \/ Len(k) = Len(l))
      BY <1>1
  <2>2. Gathered(l, r, FALSE, j) \subseteq ToSet(k)
      BY <1>2, <2>1, AddedIs
  <2>3. FirstOf(k, j) = Gathered(l, r, FALSE, j)
      BY <1>2, <2>1, AddedIs
  <2> QED
      BY <2>2, <2>3
<1>4. Got(j)' = FirstOf(k, j)
  <2>1. walk'.found = << >> /\ DOMAIN << >> = {}
      BY AnswerFacts, IdleFacts, NothingFound
  <2>2. Got(j)' = Gathered(listed', << >>, featured', j)
      BY <2>1, GotIs
  <2> QED
      BY <1>1, <2>1, <2>2 DEF Gathered, FirstOf
<1> QED
    BY <1>1, <1>3, <1>4

\* The call of a client that pages by volume.
LEMMA AnswerByVolume ==
    ASSUME LInv, AnswerPage, ~featured
    PROVE  PrefixesAgree' /\ (atEnd' => Cardinality(steady \ ToSet(listed')) <= changes)
<1>1. /\ volume' = volume /\ open' = open /\ changes' = changes /\ featured' = featured
      /\ walk' = Idle /\ Asked /\ walk.over
      /\ InOrder = walk.found
      /\ Len(listed') \in Nat
      /\ Len(listed') <= Len(walk.found) \/ Len(listed') = Len(listed)
      /\ atEnd' => Len(walk.found) < Target /\ Len(walk.found) <= Len(listed')
    BY AnswerFacts DEF InOrder
<1>2. /\ Volumed(Markets, volume) /\ Volumed(open, volume) /\ open \subseteq Markets
      /\ walk.upstream \in Nat /\ changes \in Nat
      /\ Len(walk.found) \in Nat /\ Len(listed) \in Nat
    BY Kinds DEF LInv
<1>3. \A j : Got(j) = Gathered(listed, walk.found, FALSE, j)
  <2>1. featured = FALSE
      BY Kinds DEF LInv
  <2> QED
      BY <2>1, GotIs
<1>4. PrefixesAgree'
  <2>1. walk'.found = << >> /\ Len(<< >>) = 0
      BY <1>1, IdleFacts, NothingFound
  <2>2. Pool' = open /\ Pool = open
      BY <1>1 DEF Pool
  <2> SUFFICES ASSUME NEW j \in 0..Len(listed')
               PROVE  j <= Cardinality(Got(j)' \cap Leaders(open, volume, j)) + changes
    <3>1. \A j : Got(j)' = Gathered(listed', << >>, featured', j)
        BY <2>1, GotIs
    <3>2. 0..(Len(listed') + 0) = 0..Len(listed')
        BY <1>1
    <3> QED
        BY <1>1, <2>1, <2>2, <3>1, <3>2 DEF PrefixesAgree
  <2>3. j \in Nat /\ j <= Len(listed')
      BY <1>1
  <2>4. Got(j)' = Got(j)
      BY <1>1, <1>3, <2>3, AnsweredFacts
  <2>5. j \in 0..(Len(listed) + Len(walk.found)) /\ (j <= Len(listed) \/ j <= Len(walk.found))
      BY <1>1, <1>2, <2>3
  <2>6. j <= Cardinality(Got(j) \cap Leaders(open, volume, j)) + changes
      BY <2>2, <2>5 DEF LInv, PrefixesAgree
  <2> QED
      BY <2>4, <2>6
<1>5. ASSUME atEnd' PROVE Cardinality(steady \ ToSet(listed')) <= changes
  <2> DEFINE f == Len(walk.found)
  <2>1. PICK G : G = open \cap Walked
      OBVIOUS
  <2>2. Walked = Reach
    <3>1. Len(walk.found) < Target /\ Target \in Nat
        BY <1>1, <1>5, Kinds DEF LInv, Target
    <3>2. ~(Len(walk.found) >= Target)
        BY <1>2, <3>1
    <3> QED
        BY <1>1, <3>2, WalkedFacts DEF LInv
  <2>3. steady \subseteq G
      BY <2>1, <2>2 DEF LInv, NoneHidden
  <2>4. /\ IsFiniteSet(G) /\ Cardinality(G) \in Nat
        /\ Leaders(open, volume, Cardinality(G)) = G
    <3>1. G = Passed(Markets, open, volume, walk.upstream)
        BY <2>1 DEF Walked, Passed
    <3> QED
        BY <1>2, <3>1, PassedFacts
  <2>5. Cardinality(G) <= Cardinality(Got(f) \cap G) + changes
    <3>1. 0 \in 0..Len(listed)
        BY <1>2
    <3>2. Cardinality(G) + 0 <= Cardinality(Got(f + 0) \cap Leaders(open, volume, Cardinality(G) + 0)) + changes
        BY <1>1, <2>1, <3>1 DEF LInv, WalkAgrees
    <3>3. Cardinality(G) + 0 = Cardinality(G) /\ f + 0 = f
        BY <1>2, <2>4
    <3> HIDE DEF f
    <3> QED
        BY <2>4, <3>2, <3>3
  <2>6. Got(f) \subseteq ToSet(listed')
    <3>1. PICK j \in Nat : j = f
        BY <1>2
    <3>2. j <= Len(listed')
        BY <1>1, <1>5, <3>1
    <3>3. Gathered(listed, InOrder, FALSE, j) \subseteq ToSet(listed')
        BY <3>2, AnsweredFacts
    <3> QED
        BY <1>1, <1>3, <3>1, <3>3
  <2>7. PICK X : X = Got(f)
      OBVIOUS
  <2>8. /\ Cardinality(X \cap G) \in Nat /\ Cardinality(G \ X) \in Nat /\ IsFiniteSet(G \ X)
        /\ Cardinality(X \cap G) + Cardinality(G \ X) = Cardinality(G)
      BY <2>4, Overlap
  <2>9. Cardinality(G \ X) <= changes
      BY <1>2, <2>4, <2>5, <2>7, <2>8
  <2>10. steady \ ToSet(listed') \subseteq G \ X
      BY <2>3, <2>6, <2>7
  <2>11. /\ Cardinality(steady \ ToSet(listed')) <= Cardinality(G \ X)
         /\ Cardinality(steady \ ToSet(listed')) \in Nat
      BY <2>8, <2>10, FS_Subset, FS_CardinalityType
  <2> QED
      BY <1>2, <2>8, <2>9, <2>11
<1> QED
    BY <1>4, <1>5

\* The featured markets a finished walk has found, and those it should have.
LEMMA FoundFacts ==
    ASSUME LInv, Asked, featured, walk.over
    PROVE  /\ Walked = Reach /\ Found \subseteq Reach
           /\ SameOutside(Found, walk.seen, open \cap Reach, volume, Stale)
           /\ \A j \in 0..Len(listed) :
                 j + Cardinality(Stale) <= Cardinality(Got(j) \cap Leaders(Found, walk.seen, j)) + changes
           /\ steady \subseteq Found \cup Stale
<1>1. Walked = Reach
    BY WalkedFacts DEF LInv
<1>2. /\ Volumed(open, volume) /\ Volumed(Found, walk.seen) /\ Found \subseteq Markets
      /\ open \subseteq Markets /\ Len(listed) \in Nat
    BY Kinds DEF LInv
<1>3. /\ Found \subseteq Walked
      /\ \A j \in 0..Len(listed) :
            j + Cardinality(Stale) <= Cardinality(Got(j) \cap Leaders(Coming, SeenOrNow, j)) + changes
    BY DEF LInv, FeaturedAgree
<1>4. Coming = Found
    BY <1>1 DEF Coming
<1>5. /\ Volumed(Coming, SeenOrNow) /\ IsFiniteSet(Stale)
      /\ \A k \in Markets : SeenOrNow[k] = IF k \in Found THEN walk.seen[k] ELSE volume[k]
    BY ComingFacts DEF LInv
<1>6. Alike(Found, walk.seen, SeenOrNow)
    BY <1>2, <1>5 DEF Alike
<1>7. \A j \in Nat : Leaders(Found, walk.seen, j) = Leaders(Coming, SeenOrNow, j)
    BY <1>2, <1>4, <1>6, AlikeRanked
<1>8. \A j \in 0..Len(listed) :
         j + Cardinality(Stale) <= Cardinality(Got(j) \cap Leaders(Found, walk.seen, j)) + changes
    BY <1>2, <1>3, <1>7
<1>9. Volumed(open \cap Reach, volume)
    BY <1>2, VolumedPart
<1>10. /\ Found \ Stale = (open \cap Reach) \ Stale
       /\ \A m \in Found \ Stale : walk.seen[m] = volume[m]
    BY <1>1, <1>3 DEF Stale
<1>11. SameOutside(Found, walk.seen, open \cap Reach, volume, Stale)
    BY <1>2, <1>5, <1>9, <1>10 DEF SameOutside, Alike
<1>12. steady \subseteq Found \cup Stale
    BY <1>10 DEF LInv, NoneHidden
<1> QED
    BY <1>1, <1>3, <1>8, <1>11, <1>12

\* The featured markets are one page further in their order.
LEMMA FeaturedAdded ==
    ASSUME LInv, AnswerPage, featured, NEW j \in Nat, j <= Len(listed'), Len(listed) < j
    PROVE  j <= Cardinality(Got(j)' \cap Leaders(open \cap Reach, volume, j)) + changes
<1>1. /\ Asked /\ walk.over /\ featured' = featured
      /\ Len(listed') \in Nat
      /\ Len(listed') <= Len(InOrder) \/ Len(listed') = Len(listed)
      /\ InOrder = Ranked(Found, walk.seen) /\ InOrder \in Seq(Markets)
    BY AnswerFacts DEF InOrder, Found
<1>2. /\ SameOutside(Found, walk.seen, open \cap Reach, volume, Stale)
      /\ \A i \in 0..Len(listed) :
            i + Cardinality(Stale) <= Cardinality(Got(i) \cap Leaders(Found, walk.seen, i)) + changes
    BY <1>1, FoundFacts
<1>3. /\ listed \in Seq(Markets) /\ walk.found \in Seq(Markets) /\ changes \in Nat
      /\ Volumed(Found, walk.seen)
    BY Kinds DEF LInv
<1>4. PICK n \in Nat, s \in Nat : n = Len(listed) /\ s = Cardinality(Stale)
  <2>1. Len(listed) \in Nat /\ Cardinality(Stale) \in Nat
      BY <1>2, <1>3, FS_CardinalityType DEF SameOutside
  <2> QED
      BY <2>1
<1>5. PICK A, B : A = Got(n) /\ B = Gathered(listed, InOrder, FALSE, j)
    OBVIOUS
<1>6. PICK r : r = Ranked(Found, walk.seen)
    OBVIOUS
<1>7. /\ r \in Seq(Markets) /\ Len(r) = Cardinality(Found) /\ Cardinality(Found) \in Nat
      /\ DOMAIN r = 1..Cardinality(Found)
    BY <1>1, <1>3, <1>6, RankedFacts
<1>8. j <= Cardinality(Found)
    BY <1>1, <1>6, <1>7
<1>9. A \subseteq B
  <2>1. A = Gathered(listed, walk.found, featured, n)
      BY <1>5, GotIs
  <2>2. A = FirstOf(listed, n)
    <3>1. {k \in DOMAIN walk.found : ~featured /\ Len(listed) < k /\ k <= n} = {}
        OBVIOUS
    <3> QED
        BY <2>1, <3>1 DEF Gathered, FirstOf
  <2>3. FirstOf(listed, n) \subseteq FirstOf(listed, j)
    <3>1. \A i \in 1..n : i \in 1..j
        BY <1>4
    <3> QED
        BY <3>1 DEF FirstOf
  <2> QED
      BY <1>5, <2>2, <2>3 DEF Gathered, FirstOf
<1>10. ASSUME NEW i \in 1..Cardinality(Found), n < i, i <= j PROVE r[i] \in B
  <2>1. i \in {k \in DOMAIN r : ~FALSE /\ Len(listed) < k /\ k <= j}
      BY <1>4, <1>7, <1>10
  <2> QED
      BY <1>1, <1>5, <1>6, <2>1 DEF Gathered
<1>11. n + s <= Cardinality(A \cap Leaders(Found, walk.seen, n)) + changes
    BY <1>2, <1>4, <1>5
<1>12. (n + s) + (j - n) <= Cardinality(B \cap Leaders(Found, walk.seen, j)) + changes
  <2>1. PICK a \in Nat : a = n + s
      BY <1>4
  <2>2. a <= Cardinality(A \cap Leaders(Found, walk.seen, n)) + changes /\ n <= j
      BY <1>4, <1>11, <2>1
  <2>3. \A i \in 1..Cardinality(Found) : n < i /\ i <= j => Ranked(Found, walk.seen)[i] \in B
      BY <1>6, <1>10
  <2>4. a + (j - n) <= Cardinality(B \cap Leaders(Found, walk.seen, j)) + changes
      BY <1>3, <1>8, <1>9, <2>2, <2>3, RanksAdded
  <2> QED
      BY <2>1, <2>4
<1>13. PICK Y, Z : Y = Leaders(Found, walk.seen, j) /\ Z = Leaders(open \cap Reach, volume, j)
    OBVIOUS
<1>14. IsFiniteSet(Y) /\ IsFiniteSet(Z) /\ Cardinality(Y \ Z) <= s
  <2>1. Cardinality(Leaders(Found, walk.seen, j) \ Leaders(open \cap Reach, volume, j)) <= Cardinality(Stale)
      BY <1>2, TopMoved
  <2>2. Volumed(open \cap Reach, volume)
      BY <1>2 DEF SameOutside
  <2> QED
      BY <1>3, <1>4, <1>13, <2>1, <2>2, TopFacts
<1>15. /\ Cardinality(B \cap Y) \in Nat /\ Cardinality(B \cap Z) \in Nat /\ Cardinality(Y \ Z) \in Nat
       /\ Cardinality(B \cap Y) <= Cardinality(B \cap Z) + Cardinality(Y \ Z)
    BY <1>14, Overlap
<1>16. j <= Cardinality(B \cap Z) + changes
    BY <1>3, <1>4, <1>12, <1>13, <1>14, <1>15
<1> QED
    BY <1>5, <1>13, <1>16, AnsweredFacts

\* The call of a client that pages through the featured events.
LEMMA AnswerFeatured ==
    ASSUME LInv, AnswerPage, featured
    PROVE  PrefixesAgree' /\ (atEnd' => Cardinality(steady \ ToSet(listed')) <= changes)
<1>1. /\ volume' = volume /\ open' = open /\ changes' = changes /\ featured' = featured
      /\ walk' = Idle /\ Asked /\ walk.over
      /\ InOrder = Ranked(Found, walk.seen) /\ InOrder \in Seq(Markets)
      /\ Len(listed') \in Nat /\ Len(listed') >= Len(listed)
      /\ atEnd' => Len(InOrder) <= Len(listed')
    BY AnswerFacts DEF InOrder, Found
<1>2. /\ listed \in Seq(Markets) /\ Len(listed) \in Nat /\ walk.found \in Seq(Markets) /\ changes \in Nat
      /\ Volumed(Found, walk.seen) /\ Volumed(open, volume)
    BY Kinds DEF LInv
<1>3. PrefixesAgree'
  <2>1. walk'.found = << >> /\ Len(<< >>) = 0 /\ << >> \in Seq(Markets)
      BY <1>1, IdleFacts, NothingFound
  <2>2. Pool' = open \cap Reach /\ Pool = open \cap Reach
    <3>1. Reach' = Reach
        BY <1>1, SameReach
    <3> QED
        BY <1>1, <3>1 DEF Pool
  <2> SUFFICES ASSUME NEW j \in 0..Len(listed')
               PROVE  j <= Cardinality(Got(j)' \cap Leaders(open \cap Reach, volume, j)) + changes
    <3>1. \A j : Got(j)' = Gathered(listed', << >>, featured', j)
        BY <2>1, GotIs
    <3>2. 0..(Len(listed') + 0) = 0..Len(listed')
        BY <1>1
    <3> QED
        BY <1>1, <2>1, <2>2, <3>1, <3>2 DEF PrefixesAgree
  <2>3. j \in Nat /\ j <= Len(listed')
      BY <1>1
  <2>4. CASE Len(listed) < j
      BY <2>3, <2>4, FeaturedAdded
  <2>5. CASE j <= Len(listed)
    <3>1. PICK r \in Seq(Markets) : r = InOrder
        BY <1>1
    <3>2. j <= Cardinality(Gathered(listed, << >>, featured, j) \cap Leaders(Pool, volume, j)) + changes
        BY <2>1, <2>3, <2>5, Prefix DEF LInv
    <3>3. Got(j)' = Gathered(listed, << >>, featured, j)
      <4>1. Got(j)' = Gathered(listed, r, FALSE, j)
          BY <2>3, <3>1, AnsweredFacts
      <4>2. Gathered(listed, r, FALSE, j) = Gathered(listed, << >>, FALSE, j)
        <5>1. PICK h \in Seq(Markets) : h = << >>
            BY <2>1
        <5>2. PICK b : b = FALSE
            OBVIOUS
        <5>3. Gathered(listed, r, b, j) = Gathered(listed, h, b, j)
            BY <1>2, <2>3, <2>5, GatheredListed
        <5> QED
            BY <5>1, <5>2, <5>3
      <4>3. Gathered(listed, << >>, FALSE, j) = Gathered(listed, << >>, featured, j)
          BY <2>1, NothingFound DEF Gathered
      <4> QED
          BY <4>1, <4>2, <4>3
    <3> QED
        BY <2>2, <3>2, <3>3
  <2> QED
      BY <1>2, <2>3, <2>4, <2>5
<1>4. ASSUME atEnd' PROVE Cardinality(steady \ ToSet(listed')) <= changes
  <2>1. PICK n \in Nat : n = Len(listed)
      BY <1>2
  <2>2. PICK A, T : A = Got(n) /\ T = Leaders(Found, walk.seen, n)
      OBVIOUS
  <2>3. /\ n + Cardinality(Stale) <= Cardinality(A \cap T) + changes
        /\ steady \subseteq Found \cup Stale /\ IsFiniteSet(Stale) /\ Cardinality(Stale) \in Nat
    <3>1. n \in 0..Len(listed)
        BY <2>1
    <3>2. /\ n + Cardinality(Stale) <= Cardinality(Got(n) \cap Leaders(Found, walk.seen, n)) + changes
          /\ steady \subseteq Found \cup Stale
        BY <1>1, <3>1, FoundFacts
    <3>3. IsFiniteSet(Stale) /\ Cardinality(Stale) \in Nat
        BY <1>1, ComingFacts DEF LInv
    <3> QED
        BY <2>2, <3>2, <3>3
  <2>4. IsFiniteSet(T) /\ Cardinality(T) <= n
    <3>1. /\ IsFiniteSet(T) /\ Cardinality(Found) \in Nat
          /\ Cardinality(T) = IF n <= Cardinality(Found) THEN n ELSE Cardinality(Found)
        BY <1>2, <2>2, TopFacts
    <3> QED
        BY <3>1
  <2>5. /\ Cardinality(A \cap T) \in Nat /\ Cardinality(T \ A) \in Nat /\ IsFiniteSet(T \ A) /\ Cardinality(T) \in Nat
        /\ Cardinality(A \cap T) + Cardinality(T \ A) = Cardinality(T)
      BY <2>4, Overlap
  <2>6. ASSUME NEW m \in Found, m \notin T \/ m \in A PROVE m \in ToSet(listed')
    <3>1. PICK j \in Nat : j = Len(InOrder)
        BY <1>1
    <3>2. /\ Cardinality(Found) \in Nat /\ Len(InOrder) = Cardinality(Found)
          /\ DOMAIN InOrder = 1..Cardinality(Found)
        BY <1>1, <1>2, RankedFacts
    <3>3. PICK i \in 1..Cardinality(Found) : i = Before(Found, walk.seen, m) + 1 /\ InOrder[i] = m
      <4>1. /\ Before(Found, walk.seen, m) + 1 \in 1..Cardinality(Found)
            /\ Ranked(Found, walk.seen)[Before(Found, walk.seen, m) + 1] = m
          BY <1>2, RankedFacts
      <4>2. PICK i \in 1..Cardinality(Found) : i = Before(Found, walk.seen, m) + 1
          BY <4>1
      <4>3. InOrder[i] = m
          BY <1>1, <4>1, <4>2
      <4> QED
          BY <4>2, <4>3
    <3>4. Before(Found, walk.seen, m) \in Nat
        BY <1>2, BeforeFacts
    <3>5. CASE m \in A
      <4>1. A = Gathered(listed, walk.found, featured, n)
          BY <2>2, GotIs
      <4>2. PICK f \in Seq(Markets) : f = walk.found
          BY <1>2
      <4>7. PICK b : b = featured
          OBVIOUS
      <4>3. Gathered(listed, f, b, n) = Gathered(listed, << >>, b, n)
        <5>1. PICK h \in Seq(Markets) : h = << >>
            BY NothingFound
        <5>2. Gathered(listed, f, b, n) = Gathered(listed, h, b, n)
            BY <1>2, <2>1, GatheredListed
        <5> QED
            BY <5>1, <5>2
      <4>4. Gathered(listed, << >>, b, n) \subseteq Gathered(listed, InOrder, FALSE, n)
          BY NothingFound DEF Gathered
      <4>5. n <= Len(listed')
          BY <1>1, <1>2, <2>1
      <4>6. Gathered(listed, InOrder, FALSE, n) \subseteq ToSet(listed')
          BY <4>5, AnsweredFacts
      <4> QED
          BY <3>5, <4>1, <4>2, <4>3, <4>4, <4>6, <4>7
    <3>6. CASE m \notin T
      <4>1. ~(Before(Found, walk.seen, m) < n)
          BY <2>2, <3>6 DEF Leaders
      <4>2. n < i /\ i <= j
          BY <3>1, <3>2, <3>3, <3>4, <4>1
      <4>3. i \in {k \in DOMAIN InOrder : ~FALSE /\ Len(listed) < k /\ k <= j}
          BY <2>1, <3>2, <4>2
      <4>4. m \in Gathered(listed, InOrder, FALSE, j)
          BY <3>3, <4>3 DEF Gathered
      <4>5. j <= Len(listed')
          BY <1>1, <1>4, <3>1
      <4>6. Gathered(listed, InOrder, FALSE, j) \subseteq ToSet(listed')
          BY <4>5, AnsweredFacts
      <4> QED
          BY <4>4, <4>6
    <3> QED
        BY <2>6, <3>5, <3>6
  <2>7. steady \ ToSet(listed') \subseteq (T \ A) \cup (Stale \ (T \ A))
      BY <2>3, <2>6
  <2>8. /\ IsFiniteSet((T \ A) \cup (Stale \ (T \ A)))
        /\ Cardinality(Stale \ (T \ A)) \in Nat
        /\ Cardinality((T \ A) \cup (Stale \ (T \ A))) = Cardinality(T \ A) + Cardinality(Stale \ (T \ A))
    <3>1. IsFiniteSet(Stale \ (T \ A)) /\ (T \ A) \cap (Stale \ (T \ A)) = {}
        BY <2>3, FS_Difference
    <3> QED
        BY <2>5, <3>1, UnionOfDisjoint
  <2>9. Cardinality(Stale \ (T \ A)) <= Cardinality(Stale)
      BY <2>3, FS_Subset
  <2>10. /\ Cardinality(steady \ ToSet(listed')) <= Cardinality((T \ A) \cup (Stale \ (T \ A)))
         /\ Cardinality(steady \ ToSet(listed')) \in Nat
      BY <2>7, <2>8, FS_Subset, FS_CardinalityType
  <2> QED
      BY <1>2, <2>3, <2>4, <2>5, <2>8, <2>9, <2>10
<1> QED
    BY <1>3, <1>4

\* What a finished walk has found, if nothing changed, is how the whole listing begins,
\* and all of it unless there is enough for the page.
LEMMA WalkedFirst ==
    ASSUME LInv, Asked, walk.over, changes = 0,
           NEW r, r = Ranked(open \cap Walked, volume), NEW w, w = Ranked(open \cap Reach, volume)
    PROVE  /\ r \in Seq(Markets) /\ w \in Seq(Markets)
           /\ Len(r) <= Len(w) /\ \A i \in 1..Len(r) : w[i] = r[i]
           /\ Len(InOrder) < Target => Len(r) = Len(w)
<1>1. PICK G, S : G = open \cap Walked /\ S = open \cap Reach
    OBVIOUS
<1>2. /\ Volumed(Markets, volume) /\ Volumed(open, volume) /\ open \subseteq Markets
      /\ featured \in BOOLEAN /\ walk.upstream \in Nat /\ walk.skip \in Nat /\ walk.limit \in Nat
      /\ Len(walk.found) \in Nat
    BY Kinds DEF LInv
<1>3. /\ Walked \subseteq Reach /\ Reach \subseteq Markets
      /\ Walked = Reach \/ (~featured /\ Len(walk.found) >= Target)
      /\ ~featured => G = Passed(Markets, open, volume, walk.upstream)
    BY <1>1, WalkedFacts DEF LInv
<1>4. Volumed(G, volume) /\ Volumed(S, volume) /\ G \subseteq S
    BY <1>1, <1>2, <1>3, VolumedPart
<1>5. Heads(G, S, volume)
  <2>1. CASE Walked = Reach
      BY <1>1, <1>4, <2>1 DEF Heads
  <2>2. CASE ~featured
    <3>1. Leaders(Markets, volume, walk.upstream) \cap S = G
        BY <1>1, <1>3, <2>2 DEF Passed
    <3>2. S \subseteq Markets
        BY <1>1, <1>2
    <3>3. Heads(Leaders(Markets, volume, walk.upstream) \cap S, S, volume)
        BY <1>2, <3>2, TopHeads
    <3> QED
        BY <3>1, <3>3
  <2> QED
      BY <1>3, <2>1, <2>2
<1>6. w = r \o Ranked(S \ G, volume)
  <2>1. Ranked(S, volume) = Ranked(G, volume) \o Ranked(S \ G, volume)
      BY <1>5, HeadRanked
  <2> QED
      BY <1>1, <2>1
<1>7. /\ r \in Seq(G) /\ w \in Seq(S) /\ Ranked(S \ G, volume) \in Seq(S \ G)
  <2>1. Volumed(S \ G, volume)
      BY <1>5, HeadParts
  <2> QED
      BY <1>1, <1>4, <2>1, RankedFacts
<1>8. r \in Seq(Markets) /\ w \in Seq(Markets) /\ Ranked(S \ G, volume) \in Seq(Markets)
    BY <1>1, <1>2, <1>7
<1>9. PICK t \in Seq(Markets) : t = Ranked(S \ G, volume)
    BY <1>8
<1>10. Len(r) <= Len(w) /\ \A i \in 1..Len(r) : w[i] = r[i]
  <2>1. /\ Len(r) \in Nat /\ Len(t) \in Nat /\ Len(r \o t) = Len(r) + Len(t)
        /\ \A i \in 1..Len(r) : (r \o t)[i] = r[i]
      BY <1>8, JoinFacts
  <2>2. PICK c : c = r \o t
      OBVIOUS
  <2>3. Len(r) <= Len(c) /\ \A i \in 1..Len(r) : c[i] = r[i]
      BY <2>1, <2>2
  <2> QED
      BY <1>6, <1>9, <2>2, <2>3
<1>11. ASSUME Len(InOrder) < Target PROVE Len(r) = Len(w)
  <2>1. CASE featured
      BY <1>1, <1>3, <2>1
  <2>2. CASE ~featured
    <3>1. InOrder = walk.found
        BY <2>2 DEF InOrder
    <3>2. Target \in Nat
        BY <1>2 DEF Target
    <3>3. ~(Len(walk.found) >= Target)
        BY <1>2, <1>11, <3>1, <3>2
    <3> QED
        BY <1>1, <1>3, <3>3
  <2> QED
      BY <1>2, <2>1, <2>2
<1> QED
    BY <1>8, <1>10, <1>11

\* If nothing changed, the client has the beginning of the listing, all of it at the end.
LEMMA AnswerUndisturbed ==
    ASSUME LInv, AnswerPage, changes = 0
    PROVE  LET wanted == Ranked(open \cap Reach, volume)
           IN  /\ \A i \in DOMAIN listed' : i <= Len(wanted) /\ listed'[i] = wanted[i]
               /\ atEnd' => Len(listed') = Len(wanted)
<1>1. PICK w, r : w = Ranked(open \cap Reach, volume) /\ r = Ranked(open \cap Walked, volume)
    OBVIOUS
<1>2. /\ Asked /\ walk.over
      /\ listed' \in Seq(Markets) /\ Len(listed') \in Nat
      /\ Len(listed') >= Len(listed)
      /\ Len(listed') <= Len(InOrder) \/ Len(listed') = Len(listed)
      /\ Added(listed, InOrder, listed')
      /\ atEnd' => Len(InOrder) < Target /\ Len(InOrder) <= Len(listed')
    BY AnswerFacts
<1>3. /\ \A i \in DOMAIN listed : i <= Len(w) /\ listed[i] = w[i]
      /\ InOrder = r
    BY <1>1, <1>2 DEF LInv, Undisturbed
<1>4. /\ r \in Seq(Markets) /\ w \in Seq(Markets)
      /\ Len(r) <= Len(w) /\ \A i \in 1..Len(r) : w[i] = r[i]
      /\ Len(InOrder) < Target => Len(r) = Len(w)
    BY <1>1, <1>2, WalkedFirst
<1>5. listed \in Seq(Markets) /\ Len(listed) \in Nat /\ DOMAIN listed = 1..Len(listed)
  <2>1. listed \in Seq(Markets)
      BY Kinds DEF LInv
  <2> QED
      BY <2>1
<1>6. PICK k \in Seq(Markets) : k = listed'
    BY <1>2
<1>7. PICK x \in Nat, y \in Nat, z \in Nat, n \in Nat : x = Len(listed) /\ y = Len(r) /\ z = Len(k) /\ n = Len(w)
  <2>1. Len(listed) \in Nat /\ Len(r) \in Nat /\ Len(k) \in Nat /\ Len(w) \in Nat
      BY <1>4, <1>5
  <2> QED
      BY <2>1
<1>8. /\ \A i \in 1..z : i <= x => k[i] = listed[i]
      /\ \A i \in 1..z : i > x => k[i] = r[i]
      /\ z >= x /\ (z <= y \/ z = x) /\ y <= n /\ DOMAIN k = 1..z
    BY <1>2, <1>3, <1>4, <1>6, <1>7 DEF Added
<1>9. ASSUME NEW i \in 1..z PROVE i <= n /\ k[i] = w[i]
  <2>1. i \in Nat /\ i >= 1 /\ i <= z
      OBVIOUS
  <2>2. CASE i <= x
    <3>1. i \in DOMAIN listed /\ k[i] = listed[i]
      <4>1. DOMAIN listed = 1..x
          BY <1>5, <1>7
      <4>2. i \in 1..x
          BY <2>1, <2>2
      <4> QED
          BY <1>8, <2>2, <4>1, <4>2
    <3> QED
        BY <1>3, <1>7, <3>1
  <2>3. CASE i > x
    <3>1. i \in 1..y /\ i <= n
        BY <1>8, <2>1, <2>3
    <3>2. w[i] = r[i]
        BY <1>4, <1>7, <3>1
    <3> QED
        BY <1>8, <2>3, <3>1, <3>2
  <2> QED
      BY <2>1, <2>2, <2>3
<1>10. ASSUME atEnd' PROVE z = n
  <2>1. y <= z /\ y = n
      BY <1>2, <1>3, <1>4, <1>6, <1>7, <1>10
  <2>2. z <= n
    <3>1. CASE z = 0
        BY <3>1
    <3>2. CASE z # 0
      <4>1. z \in 1..z
          BY <3>2
      <4> QED
          BY <1>9, <4>1
    <3> QED
        BY <3>1, <3>2
  <2> QED
      BY <2>1, <2>2
<1> QED
    BY <1>1, <1>6, <1>7, <1>8, <1>9, <1>10

\* An answer keeps the invariant.
LEMMA AnswerPageLInv ==
    ASSUME LInv, AnswerPage
    PROVE  LInv'
<1>1. /\ volume' = volume /\ open' = open /\ changes' = changes /\ featured' = featured
      /\ steady' = steady /\ walk' = Idle /\ ListingTypeOK'
    BY AnswerFacts
<1>2. ~Asked' /\ WalkInOrder' /\ WalkAgrees' /\ FeaturedAgree'
    BY <1>1, IdleFacts
<1>3. Reach' = Reach
    BY <1>1, SameReach
<1>4. PrefixesAgree' /\ (atEnd' => Cardinality(steady \ ToSet(listed')) <= changes)
    BY AnswerByVolume, AnswerFeatured
<1>5. NoneHidden'
    BY <1>1, <1>3, <1>4 DEF LInv, NoneHidden
<1>6. Undisturbed'
  <2> SUFFICES ASSUME changes = 0
               PROVE  /\ \A i \in DOMAIN listed' :
                            /\ i <= Len(Ranked(open \cap Reach, volume))
                            /\ listed'[i] = Ranked(open \cap Reach, volume)[i]
                      /\ atEnd' => Len(listed') = Len(Ranked(open \cap Reach, volume))
      BY <1>1, <1>2, <1>3 DEF Undisturbed
  <2> QED
      BY AnswerUndisturbed
<1> QED
    BY <1>1, <1>2, <1>4, <1>5, <1>6 DEF LInv

\* Whatever the client and upstream do, it goes on to hold.
LEMMA StepLInv ==
    ASSUME LInv, [ListingNext]_listing
    PROVE  LInv'
<1>1. CASE \E limit \in Limits : AskPage(limit)
    BY <1>1, AskPageLInv
<1>2. CASE FetchPage
    BY <1>2, FetchPageLInv
<1>3. CASE FetchFails
    BY <1>3, FetchFailsLInv
<1>4. CASE AnswerPage
    BY <1>4, AnswerPageLInv
<1>5. CASE Change
    BY <1>5, ChangeLInv
<1>6. CASE UNCHANGED listing
  <2>1. /\ volume' = volume /\ open' = open /\ changes' = changes /\ featured' = featured
        /\ steady' = steady /\ walk' = walk /\ listed' = listed /\ atEnd' = atEnd
      BY <1>6 DEF listing, upstreamVars, client
  <2>2. /\ Asked' = Asked /\ Found' = Found /\ Reach' = Reach /\ Walked' = Walked
        /\ Target' = Target /\ Pool' = Pool /\ InOrder' = InOrder /\ Coming' = Coming
        /\ SeenOrNow' = SeenOrNow /\ Stale' = Stale /\ Starts' = Starts
        /\ \A start : Beyond(start)' = Beyond(start)
        /\ \A j : Got(j)' = Got(j)
        /\ \A S, v, n : Leaders(S, v, n)' = Leaders(S, v, n)
    <3>1. Reach' = Reach /\ Starts' = Starts /\ Walked' = Walked
        BY <2>1, SameReach
    <3>2. Asked' = Asked /\ Found' = Found /\ Target' = Target /\ \A start : Beyond(start)' = Beyond(start)
        BY <2>1 DEF Asked, Found, Target, Beyond
    <3>3. Pool' = Pool /\ InOrder' = InOrder /\ Coming' = Coming /\ SeenOrNow' = SeenOrNow /\ Stale' = Stale
        BY <2>1, <3>1, <3>2 DEF Pool, InOrder, Coming, SeenOrNow, Stale
    <3>4. \A j : Got(j)' = Got(j)
        BY <2>1, GotIs
    <3> QED
        BY <3>1, <3>2, <3>3, <3>4
  <2>3. ListingTypeOK'
      BY <2>1 DEF LInv, ListingTypeOK
  <2>4. WalkInOrder'
      BY <2>1, <2>2 DEF LInv, WalkInOrder, Idle
  <2>5. PrefixesAgree' /\ WalkAgrees' /\ FeaturedAgree'
    <3>1. PrefixesAgree'
        BY <2>1, <2>2 DEF LInv, PrefixesAgree
    <3>2. WalkAgrees'
        BY <2>1, <2>2 DEF LInv, WalkAgrees
    <3>3. FeaturedAgree'
        BY <2>1, <2>2 DEF LInv, FeaturedAgree
    <3> QED
        BY <3>1, <3>2, <3>3
  <2>6. Undisturbed' /\ NoneHidden'
      BY <2>1, <2>2 DEF LInv, Undisturbed, NoneHidden
  <2> QED
      BY <2>3, <2>4, <2>5, <2>6 DEF LInv
<1> QED
    BY <1>1, <1>2, <1>3, <1>4, <1>5, <1>6 DEF ListingNext

-----------------------------------------------------------------------------
(* Pages of the listing: what follows for the client. *)

\* What the invariant says of the client.
LEMMA LInvPagesAdjoin ==
    ASSUME LInv
    PROVE  PagesAdjoin
<1>1. /\ listed \in Seq(Markets) /\ Len(listed) \in Nat /\ changes \in Nat
      /\ featured \in BOOLEAN /\ IsFiniteSet(Markets) /\ ToSet(listed) \subseteq Markets
  <2>1. listed \in Seq(Markets)
      BY Kinds DEF LInv
  <2>2. ToSet(listed) \subseteq Markets
      BY <2>1, InSequence
  <2> QED
      BY <2>1, <2>2, ListingAssumption, Kinds DEF LInv
<1>2. PICK h \in Seq(Markets), n \in Nat, b \in BOOLEAN : h = << >> /\ n = Len(listed) /\ b = featured
    BY <1>1, NothingFound
<1>3. n <= Cardinality(Gathered(listed, h, b, n) \cap Leaders(Pool, volume, n)) + changes
  <2>1. n <= Len(listed)
      BY <1>1, <1>2
  <2>2. n <= Cardinality(Gathered(listed, h, featured, n) \cap Leaders(Pool, volume, n)) + changes
      BY <2>1, Prefix DEF LInv
  <2> QED
      BY <1>2, <2>2
<1>4. Gathered(listed, h, b, n) \subseteq ToSet(listed)
  <2>1. n <= Len(listed)
      BY <1>1, <1>2
  <2> QED
      BY <1>1, <2>1, GatheredFacts
<1>5. PICK S, T : S = Gathered(listed, h, b, n) \cap Leaders(Pool, volume, n) /\ T = ToSet(listed)
    OBVIOUS
<1>6. Cardinality(S) \in Nat /\ Cardinality(T) \in Nat /\ Cardinality(S) <= Cardinality(T)
  <2>1. IsFiniteSet(T)
      BY <1>1, <1>5, FS_Subset
  <2>2. S \subseteq T
      BY <1>4, <1>5
  <2> QED
      BY <2>1, <2>2, FS_Subset, FS_CardinalityType
<1>7. n <= Cardinality(T) + changes
    BY <1>1, <1>3, <1>5, <1>6
<1>8. changes = 0 =>
         /\ \A i \in DOMAIN listed : /\ i <= Len(Ranked(open \cap Reach, volume))
                                     /\ listed[i] = Ranked(open \cap Reach, volume)[i]
         /\ atEnd => Len(listed) = Len(Ranked(open \cap Reach, volume))
    BY DEF LInv, Undisturbed
<1>9. atEnd => Cardinality(steady \ ToSet(listed)) <= changes
    BY DEF LInv, NoneHidden
<1> QED
    BY <1>2, <1>5, <1>7, <1>8, <1>9 DEF PagesAdjoin

\* list_markets and list_featured_markets on their own: for any markets, events, volumes and
\* page sizes, any number of changes upstream and calls that fail, the pages of a client
\* adjoin, and each change shows it one market twice and hides one at most.
THEOREM ListingPagesAdjoin == ListingSpec => []PagesAdjoin
<1>1. ListingSpec => []LInv
    BY InitLInv, StepLInv, PTL DEF ListingSpec
<1> QED
    BY <1>1, LInvPagesAdjoin, PTL

\* The same of the listing among the research tools, the call a scan begins with included.
THEOREM SpecPagesAdjoin == Spec => []PagesAdjoin
<1>1. Init => ListingInit
    BY DEF Init
<1>2. ASSUME [Next]_vars PROVE [ListingNext]_listing
  <2>1. CASE List
      BY <2>1 DEF List, ListingNext
  <2>2. CASE UNCHANGED listing
      BY <2>2
  <2>3. Next => List \/ UNCHANGED listing
      BY DEF Next, StartScan, StartEvent, AskBook, AnswerBook, Report, AnswerHistory
  <2>4. UNCHANGED vars => UNCHANGED listing
      BY DEF vars
  <2> QED
      BY <1>2, <2>1, <2>2, <2>3, <2>4
<1>3. Spec => ListingSpec
    BY <1>1, <1>2, PTL DEF Spec, ListingSpec
<1> QED
    BY <1>3, ListingPagesAdjoin, PTL

=============================================================================
