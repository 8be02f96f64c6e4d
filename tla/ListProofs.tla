----------------------------- MODULE ListProofs -----------------------------
(***************************************************************************)
(* What adding up a list of numbers, and joining a list of lists, returns  *)
(* for lists of any length: lemmas that the proofs about the clients and   *)
(* the feed share.  Induction comes from the order of the naturals being   *)
(* well founded, applied to sets of naturals.                              *)
(***************************************************************************)
EXTENDS Sums, WellFoundedInduction, FiniteSetTheorems, TLAPS

LEMMA NatSetInduction ==
    ASSUME NEW T \in SUBSET Nat, 0 \in T, \A n \in T : n + 1 \in T
    PROVE  T = Nat
<1> SUFFICES ASSUME Nat \ T # {} PROVE FALSE
  OBVIOUS
<1>1. IsWellFoundedOn(OpToRel(<, Nat), Nat)
  BY NatLessThanWellFounded
<1>2. \E x \in Nat \ T : \A y \in Nat \ T : ~ (<<y, x>> \in OpToRel(<, Nat))
  BY <1>1, WFMin
<1>3. PICK x \in Nat \ T : \A y \in Nat \ T : ~ (y < x)
  BY <1>2 DEF OpToRel
<1>4. x - 1 \in Nat /\ x - 1 < x /\ (x - 1) + 1 = x
  BY <1>3
<1> QED
  BY <1>3, <1>4

\* The function that FoldLeft folds with: of a set of indices, the sum.
Sums(v, f) ==
  f = [S \in SUBSET DOMAIN v |->
         IF S = {} THEN 0 ELSE f[S \ {Max(S)}] + v[Max(S)]]

LEMMA TotalIsSum ==
    ASSUME NEW v, NEW g, Sums(v, g)
    PROVE  \E f : Sums(v, f) /\ Total(v) = f[DOMAIN v]
<1> DEFINE F == CHOOSE f : Sums(v, f)
<1>1. Sums(v, F)
  OBVIOUS
<1>2. Total(v) = F[DOMAIN v]
  BY DEF Total, FoldLeft, MapThenFoldSet, Sums
<1> QED
  BY <1>1, <1>2

LEMMA MaxIsIn ==
    ASSUME NEW n \in Nat, NEW S \in SUBSET (1..n), S # {}
    PROVE  Max(S) \in S /\ \A y \in S : Max(S) >= y
<1> DEFINE T == {k \in Nat : \A R \in SUBSET (1..k) : R # {} => \E x \in R : \A y \in R : x >= y}
<1>1. 0 \in T
  <2>1. 1..0 = {}
    OBVIOUS
  <2> QED
    BY <2>1
<1>2. ASSUME NEW k \in T PROVE k + 1 \in T
  <2> SUFFICES ASSUME NEW R \in SUBSET (1..(k + 1)), R # {}
               PROVE  \E x \in R : \A y \in R : x >= y
    BY <1>2
  <2>1. CASE k + 1 \in R
    BY <2>1, <1>2
  <2>2. CASE k + 1 \notin R
    <3>1. R \in SUBSET (1..k)
      BY <2>2, <1>2
    <3> QED
      BY <3>1, <1>2
  <2> QED
    BY <2>1, <2>2
<1>3. T = Nat
  <2>1. T \in SUBSET Nat
    OBVIOUS
  <2> HIDE DEF T
  <2> QED
    BY <1>1, <1>2, <2>1, NatSetInduction
<1>4. \E x \in S : \A y \in S : x >= y
  BY <1>3
<1> QED
  BY <1>4 DEF Max

LEMMA MaxOfInterval == \A k \in Nat \ {0} : Max(1..k) = k
<1> TAKE k \in Nat \ {0}
<1>1. k \in 1..k /\ \A y \in 1..k : k >= y
  OBVIOUS
<1>2. Max(1..k) \in 1..k /\ \A y \in 1..k : Max(1..k) >= y
  BY <1>1 DEF Max
<1> QED
  BY <1>1, <1>2

LEMMA SumsExist == \A n \in Nat : \A v \in [1..n -> Int] : \E g : Sums(v, g)
<1> DEFINE T == {n \in Nat : \A v \in [1..n -> Int] : \E g : Sums(v, g)}
<1>1. 0 \in T
  <2> SUFFICES ASSUME NEW v \in [1..0 -> Int]
               PROVE  \E g : Sums(v, g)
    OBVIOUS
  <2> DEFINE g == [S \in SUBSET DOMAIN v |-> 0]
  <2>1. DOMAIN v = {}
    OBVIOUS
  <2>2. Sums(v, g)
    BY <2>1 DEF Sums
  <2> QED
    BY <2>2
<1>2. ASSUME NEW n \in T PROVE n + 1 \in T
  <2> SUFFICES ASSUME NEW v \in [1..(n + 1) -> Int]
               PROVE  \E g : Sums(v, g)
    BY <1>2
  <2> DEFINE w == [i \in 1..n |-> v[i]]
             top == n + 1
  <2>1. w \in [1..n -> Int] /\ n \in Nat
    BY <1>2
  <2>2. PICK g : Sums(w, g)
    BY <2>1, <1>2
  <2> DEFINE h == [S \in SUBSET DOMAIN v |->
                     IF top \in S THEN g[S \ {top}] + v[top] ELSE g[S]]
  <2>3. ASSUME NEW S \in SUBSET DOMAIN v
        PROVE  h[S] = IF S = {} THEN 0 ELSE h[S \ {Max(S)}] + v[Max(S)]
    <3>1. DOMAIN v = 1..top /\ DOMAIN w = 1..n
      OBVIOUS
    <3>2. CASE top \in S
      <4>1. \A y \in S : top >= y
        BY <3>1
      <4>2. Max(S) \in S /\ \A y \in S : Max(S) >= y
        BY <4>1, <3>2 DEF Max
      <4>3. Max(S) = top
        <5>1. Max(S) \in 1..top /\ top \in Nat
          <6>1. S \subseteq 1..top
            BY <3>1
          <6>2. Max(S) \in S
            BY <4>2
          <6>3. top \in Nat
            BY <2>1
          <6> HIDE DEF top
          <6> QED
            BY <6>1, <6>2, <6>3
        <5>2. top >= Max(S) /\ Max(S) >= top
          BY <4>1, <4>2, <3>2
        <5> HIDE DEF top, h, w
        <5> QED
          BY <5>1, <5>2
      <4>4. h[S \ {top}] = g[S \ {top}]
        OBVIOUS
      <4> QED
        BY <4>3, <4>4, <3>2
    <3>3. CASE top \notin S
      <4>1. S \in SUBSET DOMAIN w
        BY <3>1, <3>3
      <4>2. g[S] = IF S = {} THEN 0 ELSE g[S \ {Max(S)}] + w[Max(S)]
        BY <4>1, <2>2 DEF Sums
      <4>3. h[S] = g[S] /\ h[S \ {Max(S)}] = g[S \ {Max(S)}]
        BY <3>3
      <4>4. S # {} => Max(S) \in S
        BY <4>1, <3>1, <2>1, MaxIsIn
      <4> QED
        BY <4>2, <4>3, <4>4, <4>1, <3>1
    <3> QED
      BY <3>2, <3>3
  <2>4. Sums(v, h)
    BY <2>3 DEF Sums
  <2> QED
    BY <2>4
<1>3. T \in SUBSET Nat
  OBVIOUS
<1>4. T = Nat
  <2> HIDE DEF T
  <2> QED
    BY <1>1, <1>2, <1>3, NatSetInduction
<1> QED
  BY <1>4

LEMMA SumsGrow ==
    ASSUME NEW v, NEW f, Sums(v, f), NEW k \in Nat, 1..(k + 1) \subseteq DOMAIN v
    PROVE  f[1..(k + 1)] = f[1..k] + v[k + 1]
<1>1. PICK S : S = 1..(k + 1)
  OBVIOUS
<1>2. S # {} /\ S \ {k + 1} = 1..k
  <2>1. (1..(k + 1)) \ {k + 1} = 1..k /\ k + 1 \in 1..(k + 1)
    OBVIOUS
  <2> QED
    BY <1>1, <2>1
<1>4. Max(S) = k + 1
  <2>1. k + 1 \in Nat \ {0}
    OBVIOUS
  <2> QED
    BY <1>1, <2>1, MaxOfInterval
<1>3. f[S] = IF S = {} THEN 0 ELSE f[S \ {Max(S)}] + v[Max(S)]
  BY <1>1 DEF Sums
<1> QED
  BY <1>1, <1>2, <1>3, <1>4

LEMMA SumsAgree ==
    ASSUME NEW v, NEW w, NEW f, NEW g, Sums(v, f), Sums(w, g), NEW n \in Nat,
           1..n \subseteq DOMAIN v, 1..n \subseteq DOMAIN w, \A i \in 1..n : v[i] = w[i]
    PROVE  f[1..n] = g[1..n]
<1> DEFINE T == {k \in Nat : k <= n => f[1..k] = g[1..k]}
<1>1. 0 \in T
  <2>1. 1..0 = {} /\ {} \in SUBSET DOMAIN v /\ {} \in SUBSET DOMAIN w
    OBVIOUS
  <2> QED
    BY <2>1 DEF Sums
<1>2. ASSUME NEW k \in T PROVE k + 1 \in T
  <2> SUFFICES ASSUME k + 1 <= n PROVE f[1..(k + 1)] = g[1..(k + 1)]
    BY <1>2
  <2>1. k \in Nat /\ f[1..k] = g[1..k]
    BY <1>2
  <2>2. /\ 1..(k + 1) \subseteq 1..n /\ k + 1 \in 1..n
        /\ 1..(k + 1) \subseteq DOMAIN v /\ 1..(k + 1) \subseteq DOMAIN w
    BY <2>1
  <2>3. f[1..(k + 1)] = f[1..k] + v[k + 1] /\ g[1..(k + 1)] = g[1..k] + w[k + 1]
    BY <2>1, <2>2, SumsGrow
  <2> QED
    BY <2>1, <2>2, <2>3
<1>3. T = Nat
  <2>1. T \in SUBSET Nat
    OBVIOUS
  <2> HIDE DEF T
  <2> QED
    BY <1>1, <1>2, <2>1, NatSetInduction
<1> QED
  BY <1>3

LEMMA TotalOfNone == Total(<<>>) = 0
<1> DEFINE none == <<>>
<1>1. Sums(none, [S \in SUBSET DOMAIN none |-> 0])
  BY DEF Sums
<1>2. PICK f : Sums(none, f) /\ Total(none) = f[DOMAIN none]
  BY <1>1, TotalIsSum
<1> QED
  BY <1>2 DEF Sums

LEMMA TotalGrows ==
    ASSUME NEW n \in Nat, NEW v \in [1..(n + 1) -> Int], NEW w \in [1..n -> Int],
           \A i \in 1..n : w[i] = v[i]
    PROVE  Total(v) = Total(w) + v[n + 1]
<1>1. PICK f : Sums(v, f) /\ Total(v) = f[DOMAIN v]
  BY SumsExist, TotalIsSum
<1>2. PICK g : Sums(w, g) /\ Total(w) = g[DOMAIN w]
  BY SumsExist, TotalIsSum
<1>3. f[1..n] = g[1..n]
  BY <1>1, <1>2, SumsAgree
<1>4. f[1..(n + 1)] = f[1..n] + v[n + 1]
  BY <1>1, SumsGrow
<1> QED
  BY <1>1, <1>2, <1>3, <1>4

LEMMA TotalIsInt == \A n \in Nat : \A v \in [1..n -> Int] : Total(v) \in Int
<1> DEFINE T == {n \in Nat : \A v \in [1..n -> Int] : Total(v) \in Int}
<1>1. 0 \in T
  <2> SUFFICES ASSUME NEW v \in [1..0 -> Int] PROVE Total(v) \in Int
    OBVIOUS
  <2>1. v = <<>>
    OBVIOUS
  <2> QED
    BY <2>1, TotalOfNone
<1>2. ASSUME NEW n \in T PROVE n + 1 \in T
  <2> SUFFICES ASSUME NEW v \in [1..(n + 1) -> Int] PROVE Total(v) \in Int
    BY <1>2
  <2> DEFINE w == [i \in 1..n |-> v[i]]
  <2>1. n \in Nat /\ w \in [1..n -> Int] /\ (\A i \in 1..n : w[i] = v[i]) /\ v[n + 1] \in Int
    BY <1>2
  <2>2. Total(w) \in Int
    BY <2>1, <1>2
  <2> HIDE DEF w, T
  <2>3. Total(v) = Total(w) + v[n + 1]
    BY <2>1, TotalGrows
  <2> QED
    BY <2>1, <2>2, <2>3
<1>3. T = Nat
  <2>1. T \in SUBSET Nat
    OBVIOUS
  <2> HIDE DEF T
  <2> QED
    BY <1>1, <1>2, <2>1, NatSetInduction
<1> QED
  BY <1>3

(* Numbers of which those at S are at most c, and the others not positive, *)
(* add up to no more than c for each of S.                                 *)
LEMMA TotalIsBounded ==
    ASSUME NEW c \in Nat
    PROVE  \A n \in Nat : \A S \in SUBSET (1..n), v \in [1..n -> Int] :
              (\A i \in 1..n : v[i] <= IF i \in S THEN c ELSE 0)
                 => Cardinality(S) \in Nat /\ Total(v) <= c * Cardinality(S)
<1> DEFINE Bounded(n) ==
             \A S \in SUBSET (1..n), v \in [1..n -> Int] :
                (\A i \in 1..n : v[i] <= IF i \in S THEN c ELSE 0)
                   => Cardinality(S) \in Nat /\ Total(v) <= c * Cardinality(S)
           T == {n \in Nat : Bounded(n)}
<1>1. 0 \in T
  <2> SUFFICES ASSUME NEW S \in SUBSET (1..0), NEW v \in [1..0 -> Int]
               PROVE  Cardinality(S) \in Nat /\ Total(v) <= c * Cardinality(S)
    OBVIOUS
  <2>1. S = {} /\ v = <<>>
    OBVIOUS
  <2>2. Cardinality(S) = 0 /\ Total(v) = 0
    BY <2>1, FS_EmptySet, TotalOfNone
  <2> QED
    BY <2>2
<1>2. ASSUME NEW n \in T PROVE n + 1 \in T
  <2>1. n \in Nat /\ Bounded(n)
    BY <1>2
  <2> SUFFICES ASSUME NEW S \in SUBSET (1..(n + 1)), NEW v \in [1..(n + 1) -> Int],
                      \A i \in 1..(n + 1) : v[i] <= IF i \in S THEN c ELSE 0
               PROVE  Cardinality(S) \in Nat /\ Total(v) <= c * Cardinality(S)
    BY <2>1
  <2> DEFINE w == [i \in 1..n |-> v[i]]
             R == S \ {n + 1}
  <2>2. /\ w \in [1..n -> Int] /\ \A i \in 1..n : w[i] = v[i]
        /\ R \in SUBSET (1..n)
        /\ \A i \in 1..n : w[i] <= IF i \in R THEN c ELSE 0
        /\ n + 1 \in 1..(n + 1)
    BY <2>1
  <2>3. Cardinality(R) \in Nat /\ Total(w) <= c * Cardinality(R)
    BY <2>1, <2>2
  <2>4. Total(v) = Total(w) + v[n + 1] /\ Total(w) \in Int /\ v[n + 1] \in Int
    BY <2>1, <2>2, TotalGrows, TotalIsInt
  <2>5. IsFiniteSet(R)
    <3>1. IsFiniteSet(1..n)
      BY <2>1, FS_Interval
    <3> QED
      BY <2>2, <3>1, FS_Subset
  <2>6. CASE n + 1 \in S
    <3>1. S = R \cup {n + 1} /\ n + 1 \notin R
      BY <2>6
    <3>2. Cardinality(S) = Cardinality(R) + 1
      <4> HIDE DEF R
      <4> QED
        BY <2>5, <3>1, FS_AddElement
    <3>3. v[n + 1] <= c
      BY <2>2, <2>6
    <3>4. PICK k, m : k = Cardinality(R) /\ m = Total(w)
      OBVIOUS
    <3>5. c * (k + 1) = c * k + c /\ c * k \in Nat
      BY <2>3, <3>4
    <3> HIDE DEF w, R, T, Bounded
    <3> QED
      BY <2>3, <2>4, <3>2, <3>3, <3>4, <3>5
  <2>7. CASE n + 1 \notin S
    <3>1. S = R
      BY <2>7
    <3>2. v[n + 1] <= 0
      BY <2>2, <2>7
    <3>3. c * Cardinality(R) \in Nat
      BY <2>3
    <3> HIDE DEF w, R, T, Bounded
    <3> QED
      BY <2>3, <2>4, <3>1, <3>2, <3>3
  <2> QED
    BY <2>6, <2>7
<1>3. T = Nat
  <2>1. T \in SUBSET Nat
    OBVIOUS
  <2> HIDE DEF T
  <2> QED
    BY <1>1, <1>2, <2>1, NatSetInduction
<1> QED
  BY <1>3

-----------------------------------------------------------------------------
(* Lists of lists.                                                         *)

\* The function that FlattenSeq joins with: of an index, the lists up to it.
Joins(lists, f) ==
  f = [i \in 1..Len(lists) |-> IF i = 1 THEN lists[i] ELSE f[i - 1] \o lists[i]]

LEMMA JoinsExist ==
    ASSUME NEW A
    PROVE  \A n \in Nat : \A lists \in [1..n -> Seq(A)] :
              \E f : Joins(lists, f) /\ f \in [1..n -> Seq(A)]
<1> DEFINE T == {n \in Nat : \A lists \in [1..n -> Seq(A)] :
                               \E f : Joins(lists, f) /\ f \in [1..n -> Seq(A)]}
<1>1. 0 \in T
  <2> SUFFICES ASSUME NEW lists \in [1..0 -> Seq(A)]
               PROVE  \E f : Joins(lists, f) /\ f \in [1..0 -> Seq(A)]
    OBVIOUS
  <2>1. Len(lists) = 0 /\ 1..0 = {}
    OBVIOUS
  <2> DEFINE f == [i \in 1..0 |-> <<>>]
  <2>2. Joins(lists, f) /\ f \in [1..0 -> Seq(A)]
    BY <2>1 DEF Joins
  <2> QED
    BY <2>2
<1>2. ASSUME NEW n \in T PROVE n + 1 \in T
  <2>1. n \in Nat
    BY <1>2
  <2> SUFFICES ASSUME NEW lists \in [1..(n + 1) -> Seq(A)]
               PROVE  \E f : Joins(lists, f) /\ f \in [1..(n + 1) -> Seq(A)]
    BY <1>2
  <2> DEFINE some == [i \in 1..n |-> lists[i]]
  <2>2. some \in [1..n -> Seq(A)] /\ Len(some) = n /\ Len(lists) = n + 1
    BY <2>1
  <2>3. PICK g : Joins(some, g) /\ g \in [1..n -> Seq(A)]
    BY <1>2, <2>2
  <2> DEFINE last == IF n = 0 THEN lists[1] ELSE g[n] \o lists[n + 1]
             f == [i \in 1..(n + 1) |-> IF i = n + 1 THEN last ELSE g[i]]
  <2>4. last \in Seq(A)
    <3>1. lists[1] \in Seq(A) /\ lists[n + 1] \in Seq(A)
      BY <2>1
    <3>2. n # 0 => g[n] \in Seq(A)
      BY <2>1, <2>3
    <3> QED
      BY <3>1, <3>2
  <2>5. f \in [1..(n + 1) -> Seq(A)]
    <3> HIDE DEF last
    <3> QED
      BY <2>1, <2>3, <2>4
  <2>6. ASSUME NEW i \in 1..(n + 1)
        PROVE  f[i] = IF i = 1 THEN lists[i] ELSE f[i - 1] \o lists[i]
    <3>1. CASE i = n + 1
      <4>1. n # 0 => f[n] = g[n]
        BY <2>1
      <4> QED
        BY <2>1, <3>1, <4>1
    <3>2. CASE i # n + 1
      <4>1. i \in 1..n /\ (i # 1 => i - 1 \in 1..n)
        BY <2>1, <3>2
      <4>2. g[i] = IF i = 1 THEN some[i] ELSE g[i - 1] \o some[i]
        BY <2>2, <2>3, <4>1 DEF Joins
      <4>3. f[i] = g[i] /\ (i # 1 => f[i - 1] = g[i - 1]) /\ some[i] = lists[i]
        BY <2>1, <3>2, <4>1
      <4> QED
        BY <4>2, <4>3
    <3> QED
      BY <3>1, <3>2
  <2>7. Joins(lists, f)
    <3> HIDE DEF f
    <3>1. f = [i \in 1..(n + 1) |-> f[i]]
      BY <2>5
    <3> QED
      BY <2>2, <2>6, <3>1 DEF Joins
  <2> QED
    BY <2>5, <2>7
<1>3. T = Nat
  <2>1. T \in SUBSET Nat
    OBVIOUS
  <2> HIDE DEF T
  <2> QED
    BY <1>1, <1>2, <2>1, NatSetInduction
<1> QED
  BY <1>3

LEMMA FlattenSeqType ==
    ASSUME NEW A, NEW n \in Nat, NEW lists \in [1..n -> Seq(A)]
    PROVE  FlattenSeq(lists) \in Seq(A)
<1> DEFINE F == CHOOSE f : Joins(lists, f)
<1>1. Len(lists) = n
  OBVIOUS
<1>2. Joins(lists, F)
  BY JoinsExist
<1>3. FlattenSeq(lists) = IF Len(lists) = 0 THEN lists ELSE F[Len(lists)]
  BY DEF FlattenSeq, Joins
<1>4. CASE n = 0
  <2>1. FlattenSeq(lists) = <<>>
    BY <1>1, <1>3, <1>4
  <2> QED
    BY <2>1
<1>5. CASE n # 0
  <2> DEFINE T == {k \in Nat : k \in 1..n => F[k] \in Seq(A)}
  <2> HIDE DEF F
  <2>1. 0 \in T
    OBVIOUS
  <2>2. ASSUME NEW k \in T PROVE k + 1 \in T
    <3> SUFFICES ASSUME k + 1 \in 1..n PROVE F[k + 1] \in Seq(A)
      BY <2>2
    <3>1. F[k + 1] = IF k + 1 = 1 THEN lists[k + 1] ELSE F[(k + 1) - 1] \o lists[k + 1]
      BY <1>1, <1>2 DEF Joins
    <3>2. lists[k + 1] \in Seq(A) /\ k \in Nat
      BY <2>2
    <3>3. k # 0 => F[k] \in Seq(A)
      BY <2>2, <3>2
    <3>4. (k + 1) - 1 = k /\ (k + 1 = 1 => k = 0)
      BY <3>2
    <3> HIDE DEF T
    <3> QED
      BY <3>1, <3>2, <3>3, <3>4
  <2>3. T = Nat
    <3>1. T \in SUBSET Nat
      OBVIOUS
    <3> HIDE DEF T
    <3> QED
      BY <2>1, <2>2, <3>1, NatSetInduction
  <2>4. F[n] \in Seq(A)
    <3>1. n \in T /\ n \in 1..n
      BY <1>5, <2>3
    <3> QED
      BY <3>1
  <2>5. FlattenSeq(lists) = F[n]
    <3> HIDE DEF T
    <3> QED
      BY <1>1, <1>3, <1>5
  <2> QED
    BY <2>4, <2>5
<1> QED
  BY <1>4, <1>5
=============================================================================
