--------------------------- MODULE SequenceLemmas ---------------------------
(***************************************************************************)
(* Facts that the proofs about several components need: induction over the *)
(* naturals in the form of a set of numbers, which, unlike the library's   *)
(* rule, takes no operator as a parameter; the sequences of Ordering; and  *)
(* the functions behind the folds of the community modules.                *)
(***************************************************************************)
EXTENDS Ordering, SequencesExt, FiniteSetTheorems, WellFoundedInduction, TLAPS

\* A set of naturals that is not empty has a least element.
LEMMA Smallest ==
    ASSUME NEW S \in SUBSET Nat, S # {}
    PROVE  \E m \in S : \A k \in S : m <= k
<1> DEFINE R == {p \in Nat \X Nat : p[1] < p[2]}
<1>1. IsWellFoundedOn(R, Nat)
    BY NatLessThanWellFounded DEF OpToRel
<1>2. \A x, y \in Nat : <<x, y>> \in R <=> x < y
    OBVIOUS
<1> HIDE DEF R
<1>3. PICK m \in S : \A k \in S : ~(<<k, m>> \in R)
    BY <1>1, WFMin
<1>4. \A k \in S : ~(k < m)
    BY <1>2, <1>3
<1> QED
    BY <1>4

\* A set with 0 and the successor of each of its naturals has all naturals.
LEMMA Induction ==
    ASSUME NEW T, 0 \in T, \A n \in Nat : n \in T => n + 1 \in T
    PROVE  Nat \subseteq T
<1>1. SUFFICES ASSUME Nat \ T # {} PROVE FALSE
    OBVIOUS
<1>2. PICK m \in Nat \ T : \A k \in Nat \ T : m <= k
    BY <1>1, Smallest
<1>3. m # 0 /\ m - 1 \in Nat /\ m - 1 \notin Nat \ T
    BY <1>2
<1> QED
    BY <1>2, <1>3

-----------------------------------------------------------------------------
(* Ordering. *)

\* The indices ordered by their keys: each place is taken by one index.
LEMMA RankPlaces ==
    ASSUME NEW S \in SUBSET Nat, IsFiniteSet(S), NEW key \in [S -> Int]
    PROVE  LET At(n) == CHOOSE i \in S : Rank(S, key, i) = n
           IN  /\ Cardinality(S) \in Nat
               /\ \A n \in 1..Cardinality(S) : At(n) \in S
               /\ \A i \in S : \E n \in 1..Cardinality(S) : At(n) = i
               /\ \A n, m \in 1..Cardinality(S) :
                      n < m => At(n) # At(m) /\ key[At(n)] <= key[At(m)]
<1> DEFINE Upto(i) == {j \in S : key[j] < key[i] \/ (key[j] = key[i] /\ j <= i)}
           rank == [i \in S |-> Rank(S, key, i)]
           At(n) == CHOOSE i \in S : Rank(S, key, i) = n
<1>1. \A i \in S : /\ IsFiniteSet(Upto(i)) /\ i \in Upto(i) /\ Upto(i) \subseteq S
                   /\ Rank(S, key, i) = Cardinality(Upto(i))
    BY FS_Subset DEF Rank
<1>2. \A i \in S : Rank(S, key, i) \in 1..Cardinality(S)
  <2> SUFFICES ASSUME NEW i \in S PROVE Cardinality(Upto(i)) \in 1..Cardinality(S)
      BY <1>1
  <2>1. IsFiniteSet(Upto(i)) /\ Upto(i) \subseteq S /\ Upto(i) # {}
      BY <1>1
  <2> HIDE DEF Upto
  <2>2. Cardinality(Upto(i)) \in Nat /\ Cardinality(S) \in Nat /\ Cardinality(Upto(i)) # 0
      BY <2>1, FS_CardinalityType, FS_EmptySet
  <2>3. Cardinality(Upto(i)) <= Cardinality(S)
      BY <2>1, FS_Subset
  <2> QED
      BY <2>2, <2>3
<1>3. \A i, j \in S : (key[i] < key[j] \/ (key[i] = key[j] /\ i < j)) => Rank(S, key, i) < Rank(S, key, j)
  <2> SUFFICES ASSUME NEW i \in S, NEW j \in S, key[i] < key[j] \/ (key[i] = key[j] /\ i < j)
               PROVE  Rank(S, key, i) < Rank(S, key, j)
      OBVIOUS
  <2>1. Upto(i) \subseteq Upto(j)
    <3> SUFFICES ASSUME NEW k \in Upto(i) PROVE k \in Upto(j)
        OBVIOUS
    <3>1. key[i] \in Int /\ key[j] \in Int /\ key[k] \in Int /\ i \in Nat /\ j \in Nat /\ k \in Nat
        OBVIOUS
    <3> QED
        BY <3>1
  <2>2. j \notin Upto(i)
    <3>1. key[i] \in Int /\ key[j] \in Int /\ i \in Nat /\ j \in Nat
        OBVIOUS
    <3> QED
        BY <3>1
  <2> HIDE DEF Upto
  <2> QED
      BY <1>1, <2>1, <2>2, FS_Subset, FS_CardinalityType
<1>4. rank \in Injection(S, 1..Cardinality(S))
  <2>1. \A i, j \in S : i # j => rank[i] # rank[j]
    <3> SUFFICES ASSUME NEW i \in S, NEW j \in S, i # j
                 PROVE  Rank(S, key, i) # Rank(S, key, j)
        OBVIOUS
    <3>1. key[i] \in Int /\ key[j] \in Int /\ i \in Nat /\ j \in Nat
        OBVIOUS
    <3>2. \/ key[i] < key[j] \/ (key[i] = key[j] /\ i < j)
          \/ key[j] < key[i] \/ (key[j] = key[i] /\ j < i)
        BY <3>1
    <3> QED
        BY <1>2, <1>3, <3>2
  <2> QED
      BY <1>2, <2>1 DEF Injection, IsInjective
<1>5. Cardinality(S) \in Nat
    BY FS_CardinalityType
<1>6. rank \in Surjection(S, 1..Cardinality(S))
  <2>1. IsFiniteSet(1..Cardinality(S)) /\ Cardinality(1..Cardinality(S)) = Cardinality(S)
      BY <1>5, FS_Interval
  <2> QED
      BY <1>4, <2>1, FS_Injection
<1>7. \A n \in 1..Cardinality(S) : At(n) \in S /\ Rank(S, key, At(n)) = n
  <2>1. \A n \in 1..Cardinality(S) : \E i \in S : rank[i] = n
      BY <1>6 DEF Surjection
  <2> QED
      BY <2>1
<1>8. \A i \in S : At(Rank(S, key, i)) = i
  <2> SUFFICES ASSUME NEW i \in S PROVE At(Rank(S, key, i)) = i
      OBVIOUS
  <2>1. \A j \in S : Rank(S, key, j) = Rank(S, key, i) => j = i
      BY <1>4 DEF Injection, IsInjective
  <2> QED
      BY <2>1
<1>9. \A n, m \in 1..Cardinality(S) : n < m => At(n) # At(m) /\ key[At(n)] <= key[At(m)]
  <2> SUFFICES ASSUME NEW n \in 1..Cardinality(S), NEW m \in 1..Cardinality(S), n < m
               PROVE  At(n) # At(m) /\ key[At(n)] <= key[At(m)]
      OBVIOUS
  <2> DEFINE i == At(n)
             j == At(m)
  <2>1. i \in S /\ j \in S /\ Rank(S, key, i) = n /\ Rank(S, key, j) = m
      BY <1>7
  <2> HIDE DEF i, j, Upto, At, rank
  <2>2. ~(key[j] < key[i])
      BY <1>3, <2>1, <1>5
  <2>3. key[i] \in Int /\ key[j] \in Int
      BY <2>1
  <2>4. i # j /\ key[i] <= key[j]
      BY <2>1, <2>2, <2>3
  <2> QED
      BY <2>4 DEF i, j
<1> QED
    BY <1>2, <1>5, <1>7, <1>8, <1>9

\* The indices in the order that an arranged sequence takes its elements in.
Places(at, s, S, key) ==
    /\ at \in [1..Cardinality(S) -> S]
    /\ \A n \in 1..Cardinality(S) : Arranged(s, S, key)[n] = s[at[n]]
    /\ \A n, m \in 1..Cardinality(S) : n < m => at[n] # at[m] /\ key[at[n]] <= key[at[m]]
    /\ \A i \in S : \E n \in 1..Cardinality(S) : at[n] = i

\* A sequence arranged by keys: its elements are those at the indices, each
\* index once, in the order of their keys.
LEMMA ArrangedFacts ==
    ASSUME NEW X, NEW s \in Seq(X), NEW S \in SUBSET (DOMAIN s), NEW key \in [S -> Int]
    PROVE  /\ Arranged(s, S, key) \in Seq(X)
           /\ Len(Arranged(s, S, key)) = Cardinality(S)
           /\ Cardinality(S) \in Nat
           /\ ToSet(Arranged(s, S, key)) = {s[i] : i \in S}
           /\ \E at : Places(at, s, S, key)
<1> DEFINE At(n) == CHOOSE i \in S : Rank(S, key, i) = n
           at == [n \in 1..Cardinality(S) |-> At(n)]
<1>1. S \in SUBSET Nat /\ IsFiniteSet(S)
  <2>1. DOMAIN s = 1..Len(s) /\ Len(s) \in Nat
      OBVIOUS
  <2>2. IsFiniteSet(1..Len(s))
      BY <2>1, FS_Interval
  <2> QED
      BY <2>1, <2>2, FS_Subset
<1>2. /\ Cardinality(S) \in Nat
      /\ \A n \in 1..Cardinality(S) : At(n) \in S
      /\ \A i \in S : \E n \in 1..Cardinality(S) : At(n) = i
      /\ \A n, m \in 1..Cardinality(S) : n < m => At(n) # At(m) /\ key[At(n)] <= key[At(m)]
    BY <1>1, RankPlaces
<1>3. Arranged(s, S, key) = [n \in 1..Cardinality(S) |-> s[At(n)]]
    BY DEF Arranged
<1> HIDE DEF At
<1>4. Arranged(s, S, key) \in Seq(X) /\ Len(Arranged(s, S, key)) = Cardinality(S)
    BY <1>2, <1>3
<1>5. ToSet(Arranged(s, S, key)) = {s[i] : i \in S}
  <2>1. DOMAIN Arranged(s, S, key) = 1..Cardinality(S)
      BY <1>3
  <2>2. \A n \in 1..Cardinality(S) : Arranged(s, S, key)[n] = s[At(n)] /\ At(n) \in S
      BY <1>2, <1>3
  <2>3. \A i \in S : \E n \in 1..Cardinality(S) : At(n) = i
      BY <1>2
  <2> QED
      BY <2>1, <2>2, <2>3 DEF ToSet
<1>6. Places(at, s, S, key)
    BY <1>2, <1>3 DEF Places
<1> QED
    BY <1>2, <1>4, <1>5, <1>6

\* A finite set as a sequence.
LEMMA SetToSeqFacts ==
    ASSUME NEW S, IsFiniteSet(S)
    PROVE  /\ SetToSeq(S) \in Seq(S)
           /\ ToSet(SetToSeq(S)) = S
           /\ \A i, j \in DOMAIN SetToSeq(S) : SetToSeq(S)[i] = SetToSeq(S)[j] => i = j
<1>1. Cardinality(S) \in Nat /\ ExistsBijection(1..Cardinality(S), S)
    BY FS_CardinalityType
<1>2. PICK f \in Bijection(1..Cardinality(S), S) : TRUE
    BY <1>1 DEF ExistsBijection
<1>3. f \in [1..Cardinality(S) -> S] /\ IsInjective(f)
    BY <1>2 DEF Bijection, Injection, IsInjective
<1>4. SetToSeq(S) \in [1..Cardinality(S) -> S] /\ IsInjective(SetToSeq(S))
    BY <1>3 DEF SetToSeq
<1>5. SetToSeq(S) \in Surjection(1..Cardinality(S), S)
  <2>1. SetToSeq(S) \in Injection(1..Cardinality(S), S)
      BY <1>4 DEF Injection, IsInjective
  <2>2. IsFiniteSet(1..Cardinality(S)) /\ Cardinality(1..Cardinality(S)) = Cardinality(S)
      BY <1>1, FS_Interval
  <2> QED
      BY <2>1, <2>2, FS_Injection
<1> QED
    BY <1>1, <1>4, <1>5 DEF ToSet, Surjection, IsInjective

-----------------------------------------------------------------------------
(* Folds.  FoldLeft is a CHOOSE of a function on the sets of indices: what    *)
(* follows says that there is one, for a step given as a function.            *)

LEMMA MaxInSet ==
    ASSUME NEW n \in Nat, NEW s \in SUBSET (1..n), s # {}
    PROVE  Max(s) \in s /\ \A k \in s : k <= Max(s)
<1> DEFINE below == {n - k : k \in s}
<1>1. below \in SUBSET Nat /\ below # {}
  <2>1. \A k \in s : n - k \in Nat
      OBVIOUS
  <2>2. PICK k \in s : TRUE
      OBVIOUS
  <2> QED
      BY <2>1, <2>2
<1>2. PICK m \in below : \A k \in below : m <= k
  <2> HIDE DEF below
  <2> QED
      BY <1>1, Smallest
<1>3. PICK x \in s : m = n - x
    OBVIOUS
<1>4. \A k \in s : x >= k
    BY <1>2, <1>3
<1> QED
    BY <1>4 DEF Max

LEMMA MaxIs == ASSUME NEW s \in SUBSET Nat, NEW x \in s, \A k \in s : k <= x PROVE Max(s) = x
<1>1. \A y \in s : x >= y
    OBVIOUS
<1>2. \A z \in s : (\A y \in s : z >= y) => z = x
    BY <1>1
<1> QED
    BY <1>1, <1>2 DEF Max

\* f folds the numbers up to n by the step, the highest last.
FoldsUpto(f, n, A, base, step) ==
    /\ f \in [SUBSET (1..n) -> A]
    /\ \A s \in SUBSET (1..n) :
           f[s] = IF s = {} THEN base ELSE step[<<f[s \ {Max(s)}], Max(s)>>]

LEMMA FoldExists ==
    ASSUME NEW n \in Nat, NEW A, NEW base \in A, NEW step \in [A \X (1..n) -> A]
    PROVE  \E f : FoldsUpto(f, n, A, base, step)
<1> DEFINE Folds(f, k) ==
               \A s \in SUBSET (1..k) :
                   f[s] = IF s = {} THEN base ELSE step[<<f[s \ {Max(s)}], Max(s)>>]
           Exists(k) == \E f \in [SUBSET (1..k) -> A] : Folds(f, k)
           T == {k \in Nat : k <= n => Exists(k)}
<1>1. 0 \in T
  <2> DEFINE f == [s \in SUBSET (1..0) |-> base]
  <2>1. \A s \in SUBSET (1..0) : s = {}
      OBVIOUS
  <2>2. f \in [SUBSET (1..0) -> A] /\ Folds(f, 0)
      BY <2>1
  <2>3. Exists(0)
      BY <2>2
  <2> HIDE DEF Exists
  <2> QED
      BY <2>3
<1>2. ASSUME NEW k \in Nat, k \in T PROVE k + 1 \in T
  <2>0. Exists(k) \/ ~(k + 1 <= n)
    <3> HIDE DEF Exists
    <3> QED
        BY <1>2
  <2> SUFFICES ASSUME k + 1 <= n, Exists(k)
               PROVE  Exists(k + 1)
    <3> HIDE DEF Exists
    <3> QED
        BY <2>0
  <2>1. PICK f \in [SUBSET (1..k) -> A] : Folds(f, k)
      OBVIOUS
  <2> DEFINE g == [s \in SUBSET (1..(k + 1)) |->
                      IF k + 1 \in s THEN step[<<f[s \ {k + 1}], k + 1>>] ELSE f[s]]
  <2>2. \A s \in SUBSET (1..(k + 1)) : s \ {k + 1} \in SUBSET (1..k)
                                       /\ (k + 1 \notin s => s \in SUBSET (1..k))
    <3> SUFFICES ASSUME NEW s \in SUBSET (1..(k + 1)), NEW x \in s, x # k + 1
                 PROVE  x \in 1..k
        OBVIOUS
    <3> QED
        OBVIOUS
  <2>3. k + 1 \in 1..n
      OBVIOUS
  <2>4. g \in [SUBSET (1..(k + 1)) -> A]
      BY <2>1, <2>2, <2>3
  <2>5. ASSUME NEW s \in SUBSET (1..(k + 1))
        PROVE  g[s] = IF s = {} THEN base ELSE step[<<g[s \ {Max(s)}], Max(s)>>]
    <3>1. CASE k + 1 \in s
      <4>1. Max(s) = k + 1
        <5>1. s \in SUBSET Nat /\ \A j \in s : j <= k + 1
            OBVIOUS
        <5> QED
            BY <3>1, <5>1, MaxIs
      <4>2. g[s \ {k + 1}] = f[s \ {k + 1}]
          BY <2>2
      <4> QED
          BY <3>1, <4>1, <4>2
    <3>2. CASE k + 1 \notin s
      <4>1. s \in SUBSET (1..k) /\ g[s] = f[s]
          BY <2>2, <3>2
      <4>2. s \ {Max(s)} \in SUBSET (1..(k + 1)) /\ k + 1 \notin s \ {Max(s)}
          BY <3>2
      <4>3. g[s \ {Max(s)}] = f[s \ {Max(s)}]
          BY <4>2
      <4> HIDE DEF g
      <4> QED
          BY <2>1, <4>1, <4>3
    <3> QED
        BY <3>1, <3>2
  <2> QED
      BY <2>4, <2>5
<1>3. n \in T
  <2> HIDE DEF T
  <2> QED
      BY <1>1, <1>2, Induction
<1>4. Exists(n)
  <2> HIDE DEF Exists
  <2> QED
      BY <1>3
<1> QED
    BY <1>4 DEF FoldsUpto

\* The sets of indices that a FoldLeft really comes by: one index after the other.
LEMMA InitialIndices ==
    ASSUME NEW n \in Nat, NEW k \in 1..n
    PROVE  /\ 1..k \in SUBSET (1..n) /\ 1..k # {}
           /\ Max(1..k) = k
           /\ (1..k) \ {k} = 1..(k - 1)
<1>1. 1..k \in SUBSET Nat /\ k \in 1..k /\ \A j \in 1..k : j <= k
    OBVIOUS
<1>2. Max(1..k) = k
    BY <1>1, MaxIs
<1>3. (1..k) \ {k} = 1..(k - 1)
    OBVIOUS
<1>4. 1..k \in SUBSET (1..n)
    OBVIOUS
<1> QED
    BY <1>1, <1>2, <1>3, <1>4

\* From base to result in n steps.
RunsTo(run, n, A, base, step, result) ==
    /\ run \in [0..n -> A]
    /\ run[0] = base
    /\ \A k \in 1..n : run[k] = step[<<run[k - 1], k>>]
    /\ run[n] = result

\* A function that folds in this sense runs through the indices step by step.
LEMMA FoldRuns ==
    ASSUME NEW n \in Nat, NEW A, NEW base \in A, NEW step \in [A \X (1..n) -> A],
           NEW it, it[{}] = base,
           \A s \in SUBSET (1..n) : s # {} /\ it[s \ {Max(s)}] \in A =>
               it[s] = step[<<it[s \ {Max(s)}], Max(s)>>]
    PROVE  RunsTo([k \in 0..n |-> it[1..k]], n, A, base, step, it[1..n])
<1> DEFINE run == [k \in 0..n |-> it[1..k]]
           T == {k \in Nat : k <= n => it[1..k] \in A}
<1>1. \A k \in 1..n : it[1..(k - 1)] \in A => it[1..k] = step[<<it[1..(k - 1)], k>>]
  <2> SUFFICES ASSUME NEW k \in 1..n, it[1..(k - 1)] \in A
               PROVE  it[1..k] = step[<<it[1..(k - 1)], k>>]
      OBVIOUS
  <2>1. /\ 1..k \in SUBSET (1..n) /\ 1..k # {} /\ Max(1..k) = k
        /\ (1..k) \ {k} = 1..(k - 1)
      BY InitialIndices
  <2> QED
      BY <2>1
<1>2. 1..0 = {}
    OBVIOUS
<1>3. \A k \in Nat : k <= n => it[1..k] \in A
  <2>1. 0 \in T
      BY <1>2
  <2>2. ASSUME NEW k \in Nat, k \in T PROVE k + 1 \in T
    <3> SUFFICES ASSUME k + 1 <= n PROVE it[1..(k + 1)] \in A
        OBVIOUS
    <3>1. k + 1 \in 1..n /\ (k + 1) - 1 = k /\ it[1..k] \in A
        BY <2>2
    <3>2. it[1..(k + 1)] = step[<<it[1..k], k + 1>>]
        BY <1>1, <3>1
    <3> QED
        BY <3>1, <3>2
  <2>3. Nat \subseteq T
    <3> HIDE DEF T
    <3> QED
        BY <2>1, <2>2, Induction
  <2> QED
      BY <2>3
<1>4. run \in [0..n -> A] /\ run[0] = base /\ run[n] = it[1..n]
    BY <1>2, <1>3
<1>5. \A k \in 1..n : run[k] = step[<<run[k - 1], k>>]
  <2> SUFFICES ASSUME NEW k \in 1..n PROVE run[k] = step[<<run[k - 1], k>>]
      OBVIOUS
  <2>1. k \in 0..n /\ k - 1 \in 0..n /\ k - 1 \in Nat /\ k - 1 <= n
      OBVIOUS
  <2> QED
      BY <1>1, <1>3, <2>1
<1> QED
    BY <1>4, <1>5 DEF RunsTo

-----------------------------------------------------------------------------
(* FoldSet takes the elements of a set in the order CHOOSE picks them in.     *)

\* A family of subsets of S with {} in it, and s whenever s without its chosen
\* element is in it, has every subset of S.
LEMMA SubsetInduction ==
    ASSUME NEW S, IsFiniteSet(S), NEW T, {} \in T,
           \A s \in SUBSET S : s # {} /\ s \ {CHOOSE x \in s : TRUE} \in T => s \in T
    PROVE  SUBSET S \subseteq T
<1> DEFINE Upto(k) == \A s \in SUBSET S : Cardinality(s) <= k => s \in T
           N == {k \in Nat : Upto(k)}
<1>1. \A s \in SUBSET S : IsFiniteSet(s) /\ Cardinality(s) \in Nat /\ (Cardinality(s) = 0 <=> s = {})
    BY FS_Subset, FS_CardinalityType, FS_EmptySet
<1>2. 0 \in N
  <2>1. ASSUME NEW s \in SUBSET S, Cardinality(s) <= 0 PROVE s = {}
      BY <1>1, <2>1
  <2> QED
      BY <2>1
<1>3. ASSUME NEW k \in Nat, k \in N PROVE k + 1 \in N
  <2>1. ASSUME NEW s \in SUBSET S, Cardinality(s) <= k + 1 PROVE s \in T
    <3> DEFINE x == CHOOSE y \in s : TRUE
    <3>1. CASE s = {}
        BY <3>1
    <3>2. CASE s # {}
      <4>1. x \in s
          BY <3>2
      <4> HIDE DEF x
      <4>2. Cardinality(s \ {x}) = Cardinality(s) - 1
          BY <1>1, <4>1, FS_RemoveElement
      <4>3. s \ {x} \in SUBSET S /\ Cardinality(s \ {x}) <= k
          BY <1>1, <2>1, <4>2
      <4>4. s \ {x} \in T
          BY <1>3, <4>3
      <4> QED
          BY <3>2, <4>4 DEF x
    <3> QED
        BY <3>1, <3>2
  <2> QED
      BY <2>1
<1>4. Nat \subseteq N
  <2> HIDE DEF N
  <2> QED
      BY <1>2, <1>3, Induction
<1> QED
    BY <1>1, <1>4

\* f adds up the numbers w over the subsets of S.
AddsUp(f, S, w) ==
    /\ f \in [SUBSET S -> Nat]
    /\ \A s \in SUBSET S :
           f[s] = IF s = {} THEN 0
                  ELSE w[CHOOSE x \in s : TRUE] + f[s \ {CHOOSE x \in s : TRUE}]

LEMMA SumExists ==
    ASSUME NEW S, IsFiniteSet(S), NEW w \in [S -> Nat]
    PROVE  \E f : AddsUp(f, S, w)
<1> DEFINE First(s) == CHOOSE x \in s : TRUE
           P(k) == {s \in SUBSET S : Cardinality(s) <= k}
           Adds(f, k) == \A s \in P(k) : f[s] = IF s = {} THEN 0 ELSE w[First(s)] + f[s \ {First(s)}]
           Exists(k) == \E f \in [P(k) -> Nat] : Adds(f, k)
           N == {k \in Nat : Exists(k)}
<1>1. \A s \in SUBSET S : IsFiniteSet(s) /\ Cardinality(s) \in Nat /\ (Cardinality(s) = 0 <=> s = {})
    BY FS_Subset, FS_CardinalityType, FS_EmptySet
<1>2. \A s \in SUBSET S : s # {} =>
          /\ First(s) \in s
          /\ s \ {First(s)} \in SUBSET S
          /\ Cardinality(s \ {First(s)}) = Cardinality(s) - 1
  <2> SUFFICES ASSUME NEW s \in SUBSET S, s # {}
               PROVE  First(s) \in s /\ Cardinality(s \ {First(s)}) = Cardinality(s) - 1
      OBVIOUS
  <2>1. First(s) \in s
      OBVIOUS
  <2> HIDE DEF First
  <2> QED
      BY <1>1, <2>1, FS_RemoveElement
<1> HIDE DEF First
<1>3. Exists(0)
  <2> DEFINE f == [s \in P(0) |-> 0]
  <2>1. \A s \in P(0) : s = {}
      BY <1>1
  <2>2. f \in [P(0) -> Nat] /\ Adds(f, 0)
    <3> HIDE DEF P
    <3> QED
        BY <2>1
  <2> HIDE DEF P, Adds, f
  <2> QED
      BY <2>2
<1>4. ASSUME NEW k \in Nat, Exists(k) PROVE Exists(k + 1)
  <2>1. PICK f \in [P(k) -> Nat] : Adds(f, k)
      BY <1>4
  <2> DEFINE g == [s \in P(k + 1) |-> IF s \in P(k) THEN f[s] ELSE w[First(s)] + f[s \ {First(s)}]]
  <2>2. \A s \in P(k + 1) : s # {} => s \ {First(s)} \in P(k) /\ First(s) \in S
      BY <1>1, <1>2
  <2>3. \A s \in P(k) : s # {} => s \ {First(s)} \in P(k)
      BY <1>1, <1>2
  <2>4. {} \in P(k) /\ P(k) \subseteq P(k + 1)
      BY <1>1
  <2> HIDE DEF P
  <2>5. g \in [P(k + 1) -> Nat]
    <3>1. ASSUME NEW s \in P(k + 1), s \notin P(k)
          PROVE  w[First(s)] \in Nat /\ f[s \ {First(s)}] \in Nat
        BY <2>2, <2>4, <3>1
    <3> QED
        BY <3>1
  <2>6. ASSUME NEW s \in P(k + 1)
        PROVE  g[s] = IF s = {} THEN 0 ELSE w[First(s)] + g[s \ {First(s)}]
    <3>1. CASE s \in P(k)
      <4>1. g[s] = f[s]
          BY <3>1
      <4>2. s # {} => g[s \ {First(s)}] = f[s \ {First(s)}]
          BY <2>3, <2>4, <3>1
      <4> HIDE DEF g
      <4> QED
          BY <2>1, <3>1, <4>1, <4>2
    <3>2. CASE s \notin P(k)
      <4>1. s # {} /\ s \ {First(s)} \in P(k)
          BY <2>2, <2>4, <3>2
      <4>2. g[s \ {First(s)}] = f[s \ {First(s)}]
          BY <2>4, <4>1
      <4>3. g[s] = w[First(s)] + f[s \ {First(s)}]
          BY <3>2
      <4> HIDE DEF g
      <4> QED
          BY <4>1, <4>2, <4>3
    <3> QED
        BY <3>1, <3>2
  <2>7. Adds(g, k + 1)
    <3> HIDE DEF g
    <3> QED
        BY <2>6
  <2> HIDE DEF g, Adds
  <2> QED
      BY <2>5, <2>7
<1> HIDE DEF Exists
<1>5. 0 \in N /\ \A k \in Nat : k \in N => k + 1 \in N
    BY <1>3, <1>4
<1>6. Nat \subseteq N
  <2> HIDE DEF N
  <2> QED
      BY <1>5, Induction
<1>7. Cardinality(S) \in Nat /\ Exists(Cardinality(S))
    BY <1>6, FS_CardinalityType
<1>8. P(Cardinality(S)) = SUBSET S
    BY <1>1, FS_Subset
<1> QED
    BY <1>7, <1>8 DEF Exists, First, AddsUp

\* One more of one of the numbers is one more of every sum it is in.
LEMMA SumBumped ==
    ASSUME NEW S, IsFiniteSet(S), NEW v \in [S -> Nat], NEW w \in [S -> Nat], NEW f, NEW g,
           AddsUp(f, S, v), AddsUp(g, S, w),
           NEW t \in S, w[t] = v[t] + 1, \A x \in S : x # t => w[x] = v[x]
    PROVE  g[S] = f[S] + 1
<1> DEFINE T == {s \in SUBSET S : g[s] = f[s] + (IF t \in s THEN 1 ELSE 0)}
<1>1. {} \in T
    BY DEF AddsUp
<1>2. ASSUME NEW s \in SUBSET S, s # {}, s \ {CHOOSE x \in s : TRUE} \in T PROVE s \in T
  <2> DEFINE x == CHOOSE y \in s : TRUE
  <2>1. x \in s /\ x \in S
      BY <1>2
  <2>2. /\ f[s] = v[x] + f[s \ {x}] /\ g[s] = w[x] + g[s \ {x}]
        /\ f[s \ {x}] \in Nat /\ g[s \ {x}] \in Nat
      BY <1>2 DEF AddsUp
  <2>3. g[s \ {x}] = f[s \ {x}] + (IF t \in s \ {x} THEN 1 ELSE 0)
      BY <1>2
  <2> HIDE DEF x
  <2>4. CASE x = t
      BY <2>1, <2>2, <2>3, <2>4
  <2>5. CASE x # t
      BY <2>1, <2>2, <2>3, <2>5
  <2> QED
      BY <2>4, <2>5
<1>3. SUBSET S \subseteq T
  <2> HIDE DEF T
  <2> QED
      BY <1>1, <1>2, SubsetInduction
<1> QED
    BY <1>3

\* Zeros add up to zero.
LEMMA SumOfZeros ==
    ASSUME NEW S, IsFiniteSet(S), NEW w \in [S -> Nat], NEW f, AddsUp(f, S, w),
           \A x \in S : w[x] = 0
    PROVE  f[S] = 0
<1> DEFINE T == {s \in SUBSET S : f[s] = 0}
<1>1. {} \in T
    BY DEF AddsUp
<1>2. ASSUME NEW s \in SUBSET S, s # {}, s \ {CHOOSE x \in s : TRUE} \in T PROVE s \in T
  <2> DEFINE x == CHOOSE y \in s : TRUE
  <2>1. x \in S
      BY <1>2
  <2>2. f[s] = w[x] + f[s \ {x}] /\ f[s \ {x}] = 0
      BY <1>2 DEF AddsUp
  <2> HIDE DEF x
  <2> QED
      BY <2>1, <2>2
<1>3. SUBSET S \subseteq T
  <2> HIDE DEF T
  <2> QED
      BY <1>1, <1>2, SubsetInduction
<1> QED
    BY <1>3

-----------------------------------------------------------------------------
(* The library's sums. *)

\* The order does not matter: any element is the last one added.
LEMMA AnyAddedLast ==
    ASSUME NEW S, IsFiniteSet(S), NEW w, \A x \in S : w[x] \in Nat, NEW f, AddsUp(f, S, w)
    PROVE  \A s \in SUBSET S : \A x \in s : f[s] = w[x] + f[s \ {x}]
<1> DEFINE Anyhow(s) == \A x \in s : f[s] = w[x] + f[s \ {x}]
           N == {k \in Nat : \A s \in SUBSET S : Cardinality(s) <= k => Anyhow(s)}
<1>1. \A s \in SUBSET S : IsFiniteSet(s) /\ Cardinality(s) \in Nat /\ (Cardinality(s) = 0 <=> s = {})
    BY FS_Subset, FS_CardinalityType, FS_EmptySet
<1>2. 0 \in N
  <2>1. ASSUME NEW s \in SUBSET S, Cardinality(s) <= 0 PROVE s = {}
      BY <1>1, <2>1
  <2>2. Anyhow({})
      OBVIOUS
  <2> QED
      BY <2>1, <2>2
<1>3. ASSUME NEW k \in Nat, k \in N PROVE k + 1 \in N
  <2> SUFFICES ASSUME NEW s \in SUBSET S, Cardinality(s) <= k + 1, NEW x \in s
               PROVE  f[s] = w[x] + f[s \ {x}]
      OBVIOUS
  <2> DEFINE c == CHOOSE y \in s : TRUE
             r == s \ {c}
             t == s \ {x}
  <2>1. c \in s /\ f[s] = w[c] + f[r]
      BY DEF AddsUp
  <2> HIDE DEF c
  <2>2. CASE x = c
      BY <2>1, <2>2
  <2>3. CASE x # c
    <3>1. Cardinality(r) = Cardinality(s) - 1 /\ Cardinality(t) = Cardinality(s) - 1
        BY <1>1, <2>1, FS_RemoveElement
    <3>2. r \in SUBSET S /\ t \in SUBSET S /\ Cardinality(r) <= k /\ Cardinality(t) <= k
        BY <1>1, <3>1
    <3>3. Anyhow(r) /\ Anyhow(t)
        BY <1>3, <3>2
    <3>4. x \in r /\ c \in t /\ r \ {x} = t \ {c} /\ r \ {x} \in SUBSET S
        BY <2>1, <2>3
    <3> HIDE DEF r, t
    <3>5. f[r] = w[x] + f[r \ {x}] /\ f[t] = w[c] + f[r \ {x}]
        BY <3>3, <3>4
    <3>6. w[x] \in Nat /\ w[c] \in Nat /\ f[r \ {x}] \in Nat
        BY <2>1, <3>4 DEF AddsUp
    <3>7. f[s] = w[x] + f[t]
        BY <2>1, <3>5, <3>6
    <3> QED
        BY <3>7 DEF t
  <2> QED
      BY <2>2, <2>3
<1> HIDE DEF N
<1>4. Nat \subseteq N
    BY <1>2, <1>3, Induction
<1>5. ASSUME NEW s \in SUBSET S PROVE Anyhow(s)
  <2>1. Cardinality(s) \in N
      BY <1>1, <1>4
  <2> QED
      BY <1>1, <2>1 DEF N
<1> QED
    BY <1>5

\* The library's sum of a function over indices, for every set of them.
LEMMA SumIs ==
    ASSUME NEW S, IsFiniteSet(S), NEW w, \A x \in S : w[x] \in Nat, NEW f, AddsUp(f, S, w),
           NEW s \in SUBSET S
    PROVE  SumFunctionOnSet(w, s) = f[s]
<1> DEFINE Is(it) == it = [r \in SUBSET s |->
                              IF r = {} THEN 0
                              ELSE w[CHOOSE x \in r : TRUE] + it[r \ {CHOOSE x \in r : TRUE}]]
           it == CHOOSE g : Is(g)
           h == [r \in SUBSET s |-> f[r]]
<1>1. IsFiniteSet(s)
    BY FS_Subset
<1>2. Is(h)
  <2>1. ASSUME NEW r \in SUBSET s, r # {}
        PROVE  f[r] = w[CHOOSE x \in r : TRUE] + h[r \ {CHOOSE x \in r : TRUE}]
    <3>1. r \in SUBSET S /\ r \ {CHOOSE x \in r : TRUE} \in SUBSET s
        BY <2>1
    <3> QED
        BY <2>1, <3>1 DEF AddsUp
  <2>2. f[{}] = 0
      BY DEF AddsUp
  <2> QED
      BY <2>1, <2>2
<1>3. Is(it)
  <2> HIDE DEF Is, h
  <2> QED
      BY <1>2
<1>4. SumFunctionOnSet(w, s) = it[s]
    BY DEF SumFunctionOnSet, FoldFunctionOnSet, MapThenFoldSet
<1> DEFINE T == {r \in SUBSET s : it[r] = f[r]}
<1> HIDE DEF it, h
<1>5. {} \in T
    BY <1>3 DEF AddsUp
<1>6. ASSUME NEW r \in SUBSET s, r # {}, r \ {CHOOSE x \in r : TRUE} \in T PROVE r \in T
  <2>1. it[r] = w[CHOOSE x \in r : TRUE] + it[r \ {CHOOSE x \in r : TRUE}]
      BY <1>3, <1>6
  <2>2. r \in SUBSET S
      OBVIOUS
  <2>3. f[r] = w[CHOOSE x \in r : TRUE] + f[r \ {CHOOSE x \in r : TRUE}]
      BY <1>6, <2>2 DEF AddsUp
  <2> QED
      BY <1>6, <2>1, <2>3
<1>7. SUBSET s \subseteq T
  <2> HIDE DEF T
  <2> QED
      BY <1>1, <1>5, <1>6, SubsetInduction
<1> QED
    BY <1>4, <1>7

\* Nothing adds up to zero, and each element adds its number.
LEMMA SumFacts ==
    ASSUME NEW S, IsFiniteSet(S), NEW w, \A x \in S : w[x] \in Nat
    PROVE  /\ SumFunctionOnSet(w, {}) = 0
           /\ \A s \in SUBSET S :
                 /\ SumFunctionOnSet(w, s) \in Nat
                 /\ \A x \in s :
                       SumFunctionOnSet(w, s) = w[x] + SumFunctionOnSet(w, s \ {x})
<1>1. PICK f : AddsUp(f, S, w)
  <2> DEFINE u == [x \in S |-> w[x]]
  <2>1. u \in [S -> Nat] /\ \A x \in S : u[x] = w[x]
      OBVIOUS
  <2> HIDE DEF u
  <2>2. PICK f : AddsUp(f, S, u)
      BY <2>1, SumExists
  <2>3. \A s \in SUBSET S : s # {} =>
            u[CHOOSE x \in s : TRUE] = w[CHOOSE x \in s : TRUE]
      BY <2>1
  <2>4. AddsUp(f, S, w)
      BY <2>2, <2>3 DEF AddsUp
  <2> QED
      BY <2>4
<1>2. ASSUME NEW s \in SUBSET S PROVE SumFunctionOnSet(w, s) = f[s] /\ f[s] \in Nat
  <2>1. SumFunctionOnSet(w, s) = f[s]
      BY <1>1, SumIs
  <2>2. f[s] \in Nat
      BY <1>1 DEF AddsUp
  <2> QED
      BY <2>1, <2>2
<1>3. f[{}] = 0
    BY <1>1 DEF AddsUp
<1>4. ASSUME NEW s \in SUBSET S, NEW x \in s PROVE f[s] = w[x] + f[s \ {x}]
    BY <1>1, AnyAddedLast
<1>5. \A s \in SUBSET S : \A x \in s : s \ {x} \in SUBSET S
    OBVIOUS
<1>6. {} \in SUBSET S
    OBVIOUS
<1> QED
    BY <1>2, <1>3, <1>4, <1>5, <1>6

\* One more index.
LEMMA SumInsert ==
    ASSUME NEW S, IsFiniteSet(S), NEW w, \A x \in S : w[x] \in Nat, NEW s \in SUBSET S,
           NEW x \in S, x \notin s
    PROVE  SumFunctionOnSet(w, s \cup {x}) = SumFunctionOnSet(w, s) + w[x]
<1> DEFINE u == s \cup {x}
           d == u \ {x}
<1>1. u \in SUBSET S /\ x \in u /\ d = s
    OBVIOUS
<1> HIDE DEF u
<1>2. /\ SumFunctionOnSet(w, u) = w[x] + SumFunctionOnSet(w, d)
      /\ SumFunctionOnSet(w, s) \in Nat /\ w[x] \in Nat
    BY <1>1, SumFacts
<1> HIDE DEF d
<1>3. SumFunctionOnSet(w, u) = SumFunctionOnSet(w, s) + w[x]
    BY <1>1, <1>2
<1> QED
    BY <1>3 DEF u

\* Greater numbers, greater sums.
LEMMA SumAtMost ==
    ASSUME NEW S, IsFiniteSet(S), NEW v, \A x \in S : v[x] \in Nat, NEW w,
           \A x \in S : w[x] \in Nat, \A x \in S : v[x] <= w[x]
    PROVE  \A s \in SUBSET S : SumFunctionOnSet(v, s) <= SumFunctionOnSet(w, s)
<1> DEFINE T == {s \in SUBSET S : SumFunctionOnSet(v, s) <= SumFunctionOnSet(w, s)}
<1>1. {} \in T
  <2>1. SumFunctionOnSet(v, {}) = 0 /\ SumFunctionOnSet(w, {}) = 0
      BY SumFacts
  <2> QED
      BY <2>1
<1>2. ASSUME NEW s \in SUBSET S, s # {}, s \ {CHOOSE x \in s : TRUE} \in T PROVE s \in T
  <2> DEFINE x == CHOOSE y \in s : TRUE
             r == s \ {x}
  <2>1. x \in s /\ x \in S /\ r \in SUBSET S
      BY <1>2
  <2>2. SumFunctionOnSet(v, r) <= SumFunctionOnSet(w, r)
      BY <1>2
  <2> HIDE DEF x
  <2>3. /\ SumFunctionOnSet(v, s) = v[x] + SumFunctionOnSet(v, r)
        /\ SumFunctionOnSet(w, s) = w[x] + SumFunctionOnSet(w, r)
        /\ SumFunctionOnSet(v, r) \in Nat /\ SumFunctionOnSet(w, r) \in Nat
      BY <2>1, SumFacts
  <2>4. v[x] \in Nat /\ w[x] \in Nat /\ v[x] <= w[x]
      BY <2>1
  <2> HIDE DEF r
  <2> QED
      BY <2>2, <2>3, <2>4
<1>3. SUBSET S \subseteq T
  <2> HIDE DEF T
  <2> QED
      BY <1>1, <1>2, SubsetInduction
<1> QED
    BY <1>3

\* The sum of two numbers each is the sum of the two sums.
LEMMA SumPlus ==
    ASSUME NEW S, IsFiniteSet(S), NEW u, \A x \in S : u[x] \in Nat, NEW v,
           \A x \in S : v[x] \in Nat, NEW w, \A x \in S : w[x] \in Nat,
           \A x \in S : w[x] = u[x] + v[x]
    PROVE  \A s \in SUBSET S :
               SumFunctionOnSet(w, s) = SumFunctionOnSet(u, s) + SumFunctionOnSet(v, s)
<1> DEFINE T == {s \in SUBSET S :
                    SumFunctionOnSet(w, s) = SumFunctionOnSet(u, s) + SumFunctionOnSet(v, s)}
<1>1. {} \in T
  <2>1. /\ SumFunctionOnSet(u, {}) = 0 /\ SumFunctionOnSet(v, {}) = 0
        /\ SumFunctionOnSet(w, {}) = 0
      BY SumFacts
  <2> QED
      BY <2>1
<1>2. ASSUME NEW s \in SUBSET S, s # {}, s \ {CHOOSE x \in s : TRUE} \in T PROVE s \in T
  <2> DEFINE x == CHOOSE y \in s : TRUE
             r == s \ {x}
  <2>1. x \in s /\ x \in S /\ r \in SUBSET S
      BY <1>2
  <2>2. SumFunctionOnSet(w, r) = SumFunctionOnSet(u, r) + SumFunctionOnSet(v, r)
      BY <1>2
  <2> HIDE DEF x
  <2>3. /\ SumFunctionOnSet(u, s) = u[x] + SumFunctionOnSet(u, r)
        /\ SumFunctionOnSet(v, s) = v[x] + SumFunctionOnSet(v, r)
        /\ SumFunctionOnSet(w, s) = w[x] + SumFunctionOnSet(w, r)
        /\ SumFunctionOnSet(u, r) \in Nat /\ SumFunctionOnSet(v, r) \in Nat
      BY <2>1, SumFacts
  <2>4. u[x] \in Nat /\ v[x] \in Nat /\ w[x] = u[x] + v[x]
      BY <2>1
  <2> HIDE DEF r
  <2> QED
      BY <2>2, <2>3, <2>4
<1>3. SUBSET S \subseteq T
  <2> HIDE DEF T
  <2> QED
      BY <1>1, <1>2, SubsetInduction
<1> QED
    BY <1>3

\* c times each number is c times the sum.
LEMMA SumTimes ==
    ASSUME NEW S, IsFiniteSet(S), NEW v, \A x \in S : v[x] \in Nat, NEW w,
           \A x \in S : w[x] \in Nat,
           NEW c \in Nat, \A x \in S : w[x] = c * v[x]
    PROVE  \A s \in SUBSET S : SumFunctionOnSet(w, s) = c * SumFunctionOnSet(v, s)
<1> DEFINE T == {s \in SUBSET S : SumFunctionOnSet(w, s) = c * SumFunctionOnSet(v, s)}
<1>1. {} \in T
  <2>1. SumFunctionOnSet(v, {}) = 0 /\ SumFunctionOnSet(w, {}) = 0
      BY SumFacts
  <2> QED
      BY <2>1
<1>2. ASSUME NEW s \in SUBSET S, s # {}, s \ {CHOOSE x \in s : TRUE} \in T PROVE s \in T
  <2> DEFINE x == CHOOSE y \in s : TRUE
             r == s \ {x}
             rest == SumFunctionOnSet(v, r)
  <2>1. x \in s /\ x \in S /\ r \in SUBSET S
      BY <1>2
  <2>2. SumFunctionOnSet(w, r) = c * rest
      BY <1>2
  <2> HIDE DEF x
  <2>3. /\ SumFunctionOnSet(v, s) = v[x] + rest
        /\ SumFunctionOnSet(w, s) = w[x] + SumFunctionOnSet(w, r)
        /\ rest \in Nat
      BY <2>1, SumFacts
  <2>4. v[x] \in Nat /\ w[x] = c * v[x]
      BY <2>1
  <2> HIDE DEF r, rest
  <2>5. c * (v[x] + rest) = c * v[x] + c * rest
      BY <2>3, <2>4
  <2> QED
      BY <2>2, <2>3, <2>4, <2>5
<1>3. SUBSET S \subseteq T
  <2> HIDE DEF T
  <2> QED
      BY <1>1, <1>2, SubsetInduction
<1> QED
    BY <1>3

\* A part adds up to no more than the whole.
LEMMA SumOfPart ==
    ASSUME NEW S, IsFiniteSet(S), NEW w, \A x \in S : w[x] \in Nat
    PROVE  \A s \in SUBSET S : SumFunctionOnSet(w, s) <= SumFunctionOnSet(w, S)
<1> DEFINE Part(r, s) == SumFunctionOnSet(w, r) <= SumFunctionOnSet(w, s)
           T == {s \in SUBSET S : \A r \in SUBSET s : Part(r, s)}
<1>1. {} \in T
  <2>1. SumFunctionOnSet(w, {}) = 0
      BY SumFacts
  <2>2. Part({}, {})
      BY <2>1
  <2> QED
      BY <2>2
<1>2. ASSUME NEW s \in SUBSET S, s # {}, s \ {CHOOSE x \in s : TRUE} \in T PROVE s \in T
  <2> DEFINE x == CHOOSE y \in s : TRUE
  <2>1. x \in s /\ x \in S /\ w[x] \in Nat
      BY <1>2
  <2>2. \A r \in SUBSET (s \ {x}) : Part(r, s \ {x})
      BY <1>2
  <2> HIDE DEF x
  <2>3. /\ SumFunctionOnSet(w, s) = w[x] + SumFunctionOnSet(w, s \ {x})
        /\ SumFunctionOnSet(w, s \ {x}) \in Nat
      BY <2>1, SumFacts
  <2>4. ASSUME NEW r \in SUBSET s PROVE Part(r, s)
    <3> DEFINE d == r \ {x}
    <3>1. d \in SUBSET (s \ {x}) /\ d \in SUBSET S /\ r \in SUBSET S
        OBVIOUS
    <3>2. SumFunctionOnSet(w, d) <= SumFunctionOnSet(w, s \ {x})
        BY <2>2, <3>1
    <3>3. SumFunctionOnSet(w, d) \in Nat
        BY <3>1, SumFacts
    <3>4. CASE x \in r
      <4>1. SumFunctionOnSet(w, r) = w[x] + SumFunctionOnSet(w, d)
          BY <3>1, <3>4, SumFacts
      <4> HIDE DEF d
      <4> QED
          BY <2>1, <2>3, <3>2, <3>3, <4>1
    <3>5. CASE x \notin r
      <4>1. d = r
          BY <3>5
      <4> HIDE DEF d
      <4> QED
          BY <2>1, <2>3, <3>2, <3>3, <4>1
    <3> QED
        BY <3>4, <3>5
  <2> QED
      BY <2>4
<1>3. SUBSET S \subseteq T
  <2> HIDE DEF T
  <2> QED
      BY <1>1, <1>2, SubsetInduction
<1>4. S \in T
    BY <1>3
<1> QED
    BY <1>4

\* The first k numbers of a sequence.
SumUpto(v, k) == SumFunctionOnSet(v, 1..k)

LEMMA SumNext ==
    ASSUME NEW n \in Nat, NEW v, \A k \in 1..n : v[k] \in Nat
    PROVE  /\ SumUpto(v, 0) = 0
           /\ \A k \in Nat : k + 1 <= n => SumUpto(v, k + 1) = SumUpto(v, k) + v[k + 1]
<1> DEFINE R == 1..n
<1>1. IsFiniteSet(R) /\ \A x \in R : v[x] \in Nat
    BY FS_Interval
<1>2. SumUpto(v, 0) = 0
  <2>1. 1..0 = {}
      OBVIOUS
  <2> HIDE DEF R
  <2>2. SumFunctionOnSet(v, {}) = 0
      BY <1>1, SumFacts
  <2> QED
      BY <2>1, <2>2 DEF SumUpto
<1>3. ASSUME NEW k \in Nat, k + 1 <= n PROVE SumUpto(v, k + 1) = SumUpto(v, k) + v[k + 1]
  <2> DEFINE r == 1..k
             x == k + 1
  <2>1. r \in SUBSET R /\ x \in R /\ x \notin r /\ 1..(k + 1) = r \cup {x}
      BY <1>3
  <2> HIDE DEF r, x, R
  <2>2. SumFunctionOnSet(v, r \cup {x}) = SumFunctionOnSet(v, r) + v[x]
      BY <1>1, <2>1, SumInsert
  <2> QED
      BY <2>1, <2>2 DEF r, x, SumUpto
<1> QED
    BY <1>2, <1>3

\* The first k indices in an order.
Reached(at, k) == {at[j] : j \in 1..k}

\* The numbers of some indices, met one after the other, each once.
LEMMA SumAlong ==
    ASSUME NEW S, IsFiniteSet(S), NEW w, \A x \in S : w[x] \in Nat, NEW n \in Nat, NEW at,
           \A k \in 1..n : at[k] \in S,
           \A i, j \in 1..n : at[i] = at[j] => i = j,
           NEW v, \A k \in 1..n : v[k] = w[at[k]]
    PROVE  SumUpto(v, n) = SumFunctionOnSet(w, Reached(at, n))
<1> DEFINE A(k) == Reached(at, k)
           T == {k \in Nat : k <= n => SumUpto(v, k) = SumFunctionOnSet(w, A(k))}
<1>0. \A k \in 1..n : v[k] \in Nat
    OBVIOUS
<1>1. 0 \in T
  <2>1. SumUpto(v, 0) = 0 /\ SumFunctionOnSet(w, {}) = 0
      BY <1>0, SumFacts, SumNext
  <2>2. A(0) = {}
      BY DEF Reached
  <2> QED
      BY <2>1, <2>2
<1>2. ASSUME NEW k \in Nat, k \in T PROVE k + 1 \in T
  <2> SUFFICES ASSUME k + 1 <= n PROVE SumUpto(v, k + 1) = SumFunctionOnSet(w, A(k + 1))
      OBVIOUS
  <2>1. k + 1 \in 1..n /\ at[k + 1] \in S /\ k + 1 \notin 1..k
      OBVIOUS
  <2>2. A(k + 1) = A(k) \cup {at[k + 1]}
    <3>1. 1..(k + 1) = (1..k) \cup {k + 1}
        OBVIOUS
    <3> QED
        BY <3>1 DEF Reached
  <2>3. A(k) \in SUBSET S /\ at[k + 1] \notin A(k)
    <3>1. \A j \in 1..k : j \in 1..n /\ j # k + 1
        BY <2>1
    <3> QED
        BY <2>1, <3>1 DEF Reached
  <2> HIDE DEF A, T
  <2>4. SumUpto(v, k + 1) = SumUpto(v, k) + v[k + 1]
      BY <1>0, SumNext
  <2>5. SumFunctionOnSet(w, A(k) \cup {at[k + 1]}) = SumFunctionOnSet(w, A(k)) + w[at[k + 1]]
      BY <2>1, <2>3, SumInsert
  <2>6. SumUpto(v, k) = SumFunctionOnSet(w, A(k))
      BY <1>2, <2>1 DEF T
  <2> QED
      BY <2>1, <2>2, <2>4, <2>5, <2>6
<1>3. Nat \subseteq T
  <2> HIDE DEF T
  <2> QED
      BY <1>1, <1>2, Induction
<1>4. n \in T
    BY <1>3
<1> HIDE DEF A
<1> QED
    BY <1>4 DEF A

\* All the indices, met one after the other.
LEMMA SumAlongAll ==
    ASSUME NEW S, IsFiniteSet(S), NEW w, \A x \in S : w[x] \in Nat, NEW n \in Nat, NEW at,
           \A k \in 1..n : at[k] \in S,
           \A i, j \in 1..n : at[i] = at[j] => i = j, \A x \in S : \E k \in 1..n : at[k] = x,
           NEW v, \A k \in 1..n : v[k] = w[at[k]]
    PROVE  SumUpto(v, n) = SumFunctionOnSet(w, S)
<1>1. Reached(at, n) = S
    BY DEF Reached
<1>2. SumUpto(v, n) = SumFunctionOnSet(w, Reached(at, n))
    BY SumAlong
<1> QED
    BY <1>1, <1>2

=============================================================================
