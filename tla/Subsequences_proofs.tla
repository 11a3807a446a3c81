------------------------ MODULE Subsequences_proofs ------------------------
(***************************************************************************)
(* What Sorted and Kept return, for every finite set and every sequence,   *)
(* and what the ends of a sequence add to the set of its elements.         *)
(***************************************************************************)
EXTENDS Subsequences, SequencesExt, SequenceTheorems, FiniteSetTheorems, TLAPS

\* A set of bounded numbers has a least element: of the intervals up to its
\* elements, one contains no other.
LEMMA Least ==
    ASSUME NEW n \in Nat, NEW T \in SUBSET (1..n), T # {}
    PROVE  \E x \in T : \A y \in T : x <= y
<1> DEFINE U == 1..n
           R == StrictSubsetOrdering(U)
           F == {1..x : x \in T}
<1>1. IsFiniteSet(U)
  BY FS_Interval
<1>2. IsWellFoundedOn(R, SUBSET U)
  BY <1>1, FS_StrictSubsetOrderingWellFounded, FS_FiniteSubsetsOfFinite
<1>3. F \subseteq SUBSET U
  OBVIOUS
<1>4. F # {}
  <2>1. PICK x \in T : TRUE
    OBVIOUS
  <2>2. 1..x \in F
    BY <2>1
  <2> QED BY <2>2
<1>5. PICK S \in F : \A P \in F : <<P, S>> \notin R
  <2> HIDE DEF R, F
  <2> QED BY <1>2, <1>3, <1>4, WFMin
<1>6. PICK x \in T : S = 1..x
  BY <1>5
<1>7. ASSUME NEW y \in T PROVE x <= y
  <2>1. SUFFICES ASSUME y < x PROVE FALSE
    OBVIOUS
  <2>2. 1..y \in SUBSET U /\ S \in SUBSET U /\ 1..y \subseteq S
    BY <1>6, <2>1
  <2>3. x \in S /\ x \notin 1..y
    BY <1>6, <2>1
  <2>4. <<1..y, S>> \in R
    BY <2>2, <2>3 DEF StrictSubsetOrdering
  <2> QED BY <1>5, <2>4
<1> QED BY <1>7
-----------------------------------------------------------------------------
TotalOrder(S, R) ==
    /\ \A x \in S : <<x, x>> \notin R
    /\ \A x, y, z \in S : <<x, y>> \in R /\ <<y, z>> \in R => <<x, z>> \in R
    /\ \A x, y \in S : x = y \/ <<x, y>> \in R \/ <<y, x>> \in R

\* t lists the elements of S in the order R.
Lists(t, S, R) ==
    /\ t \in Seq(S)
    /\ \A x \in S : \E k \in 1..Len(t) : t[k] = x
    /\ \A i, j \in 1..Len(t) : i < j => <<t[i], t[j]>> \in R

NotAfter(S, R, x) == {y \in S : y = x \/ <<y, x>> \in R}

\* The place of an element is a number of its own, and every number up to the
\* size of the set is the place of one.
LEMMA PlaceOf ==
    ASSUME NEW S, IsFiniteSet(S), NEW R, TotalOrder(S, R)
    PROVE  /\ Cardinality(S) \in Nat
           /\ \A x \in S : Cardinality(NotAfter(S, R, x)) \in 1..Cardinality(S)
           /\ \A x, y \in S : <<x, y>> \in R =>
                Cardinality(NotAfter(S, R, x)) < Cardinality(NotAfter(S, R, y))
           /\ \A k \in 1..Cardinality(S) :
                \E x \in S : Cardinality(NotAfter(S, R, x)) = k
<1> DEFINE n == Cardinality(S)
           r(x) == Cardinality(NotAfter(S, R, x))
           f == [x \in S |-> r(x)]
<1>1. n \in Nat
  BY FS_CardinalityType
<1>2. ASSUME NEW x \in S PROVE r(x) \in 1..n
  <2>1. NotAfter(S, R, x) \subseteq S /\ x \in NotAfter(S, R, x)
    BY DEF NotAfter
  <2>2. IsFiniteSet(NotAfter(S, R, x)) /\ r(x) <= n
    BY <2>1, FS_Subset
  <2>3. r(x) \in Nat /\ r(x) # 0
    BY <2>1, <2>2, FS_CardinalityType, FS_EmptySet
  <2> QED BY <1>1, <2>2, <2>3
<1>3. ASSUME NEW x \in S, NEW y \in S, <<x, y>> \in R PROVE r(x) < r(y)
  <2>1. NotAfter(S, R, x) \subseteq NotAfter(S, R, y)
    BY <1>3 DEF NotAfter, TotalOrder
  <2>2. y \in NotAfter(S, R, y) /\ y \notin NotAfter(S, R, x)
    BY <1>3 DEF NotAfter, TotalOrder
  <2>3. NotAfter(S, R, y) \subseteq S
    BY DEF NotAfter
  <2>4. IsFiniteSet(NotAfter(S, R, y))
    BY <2>3, FS_Subset
  <2>5. r(x) <= r(y) /\ r(x) # r(y)
    BY <2>1, <2>2, <2>4, FS_Subset
  <2> QED BY <1>2, <1>1, <2>5
<1>4. f \in Injection(S, 1..n)
  <2>1. f \in [S -> 1..n]
    BY <1>2
  <2>2. ASSUME NEW x \in S, NEW y \in S, f[x] = f[y] PROVE x = y
    <3>1. r(x) = r(y) /\ r(x) \in Int /\ r(y) \in Int
      BY <2>2, <1>2
    <3>2. <<x, y>> \notin R /\ <<y, x>> \notin R
      <4> HIDE DEF r
      <4> QED BY <3>1, <1>3
    <3> QED BY <3>2 DEF TotalOrder
  <2> QED BY <2>1, <2>2 DEF Injection, IsInjective
<1>5. IsFiniteSet(1..n) /\ Cardinality(1..n) = n
  BY <1>1, FS_Interval
<1>6. f \in Surjection(S, 1..n)
  <2> HIDE DEF f
  <2> QED BY <1>4, <1>5, FS_Injection
<1>7. \A k \in 1..n : \E x \in S : f[x] = k
  <2> HIDE DEF f
  <2> QED BY <1>6 DEF Surjection
<1> QED BY <1>1, <1>2, <1>3, <1>7

\* Sorted lists its set.
LEMMA SortedLists ==
    ASSUME NEW S, IsFiniteSet(S), NEW R, TotalOrder(S, R)
    PROVE  /\ Lists(Sorted(S, R), S, R)
           /\ Len(Sorted(S, R)) = Cardinality(S) /\ Cardinality(S) \in Nat
<1> DEFINE n == Cardinality(S)
           s == Sorted(S, R)
<1>1. /\ n \in Nat
      /\ s = [k \in 1..n |-> CHOOSE x \in S : Cardinality(NotAfter(S, R, x)) = k]
  BY PlaceOf DEF Sorted, NotAfter
<1>2. ASSUME NEW k \in 1..n
      PROVE  s[k] \in S /\ Cardinality(NotAfter(S, R, s[k])) = k
  <2>1. \E x \in S : Cardinality(NotAfter(S, R, x)) = k
    BY PlaceOf
  <2> QED BY <1>1, <2>1
<1>3. s \in [1..n -> S]
  BY <1>1, <1>2
<1>4. s \in Seq(S) /\ Len(s) = n
  <2>1. n \in Nat
    BY <1>1
  <2> HIDE DEF s, n
  <2> QED BY <2>1, <1>3
<1>5. ASSUME NEW x \in S PROVE \E k \in 1..n : s[k] = x
  <2> DEFINE k == Cardinality(NotAfter(S, R, x))
  <2>1. k \in 1..n
    BY PlaceOf
  <2>2. s[k] \in S /\ Cardinality(NotAfter(S, R, s[k])) = k
    BY <2>1, <1>2
  <2>3. <<s[k], x>> \notin R /\ <<x, s[k]>> \notin R
    BY <2>1, <2>2, PlaceOf
  <2>4. s[k] = x
    BY <2>2, <2>3 DEF TotalOrder
  <2> QED BY <2>1, <2>4
<1>6. ASSUME NEW i \in 1..n, NEW j \in 1..n, i < j PROVE <<s[i], s[j]>> \in R
  <2>1. /\ s[i] \in S /\ Cardinality(NotAfter(S, R, s[i])) = i
        /\ s[j] \in S /\ Cardinality(NotAfter(S, R, s[j])) = j
    BY <1>2
  <2>2. s[i] # s[j] /\ <<s[j], s[i]>> \notin R
    BY <2>1, <1>6, PlaceOf
  <2> QED BY <2>1, <2>2 DEF TotalOrder
<1>7. Lists(s, S, R)
  <2> HIDE DEF s, n
  <2> QED BY <1>4, <1>5, <1>6 DEF Lists
<1> QED BY <1>1, <1>4, <1>7

\* Nothing else does: a set has one list.
LEMMA OneList ==
    ASSUME NEW S, IsFiniteSet(S), NEW R, TotalOrder(S, R), NEW t, Lists(t, S, R)
    PROVE  t = Sorted(S, R) /\ Len(t) = Cardinality(S)
<1> DEFINE m == Len(t)
           n == Cardinality(S)
           s == Sorted(S, R)
<1>1. /\ t \in Seq(S) /\ m \in Nat /\ t \in [1..m -> S]
      /\ \A i, j \in 1..m : i < j => <<t[i], t[j]>> \in R
      /\ \A x \in S : \E k \in 1..m : t[k] = x
  BY DEF Lists
<1>2. ASSUME NEW i \in 1..m, NEW j \in 1..m, t[i] = t[j] PROVE i = j
  <2>1. i < j => <<t[i], t[i]>> \in R
    BY <1>1, <1>2
  <2>2. j < i => <<t[i], t[i]>> \in R
    BY <1>1, <1>2
  <2>3. t[i] \in S
    BY <1>1
  <2> QED BY <2>1, <2>2, <2>3 DEF TotalOrder
<1>3. ASSUME NEW i \in 1..m PROVE Cardinality(NotAfter(S, R, t[i])) = i
  <2> DEFINE g == [j \in 1..i |-> t[j]]
             T == NotAfter(S, R, t[i])
  <2>1. \A j \in 1..i : j \in 1..m /\ t[j] \in S
    BY <1>1
  <2>2. ASSUME NEW j \in 1..i PROVE t[j] \in T
    <3>1. j < i => <<t[j], t[i]>> \in R
      BY <2>1, <1>1
    <3>2. j < i \/ j = i
      OBVIOUS
    <3> QED BY <2>1, <3>1, <3>2 DEF NotAfter
  <2>3. ASSUME NEW y \in T PROVE \E j \in 1..i : t[j] = y
    <3>1. PICK j \in 1..m : t[j] = y
      BY <1>1, <2>3 DEF NotAfter
    <3>2. ~(i < j)
      <4>1. SUFFICES ASSUME i < j PROVE FALSE
        OBVIOUS
      <4>2. <<t[i], t[j]>> \in R /\ t[i] \in S /\ t[j] \in S
        BY <4>1, <1>1
      <4>3. t[j] = t[i] \/ <<t[j], t[i]>> \in R
        BY <3>1 DEF NotAfter
      <4> QED BY <4>2, <4>3 DEF TotalOrder
    <3> QED BY <3>1, <3>2, <1>1
  <2>4. g \in Bijection(1..i, T)
    <3>1. g \in [1..i -> T]
      BY <2>2
    <3>2. \A a, b \in 1..i : g[a] = g[b] => a = b
      BY <1>2, <2>1
    <3>3. \A y \in T : \E j \in 1..i : g[j] = y
      BY <2>3
    <3> HIDE DEF g, T
    <3> QED BY <3>1, <3>2, <3>3
        DEF Bijection, Injection, Surjection, IsInjective
  <2>5. IsFiniteSet(1..i) /\ Cardinality(1..i) = i
    BY FS_Interval
  <2>6. ExistsBijection(1..i, T)
    BY <2>4 DEF ExistsBijection
  <2> HIDE DEF T
  <2> QED BY <2>5, <2>6, FS_Bijection DEF T
<1>4. m = n
  <2>1. t \in Bijection(1..m, S)
    BY <1>1, <1>2 DEF Bijection, Injection, Surjection, IsInjective
  <2>2. IsFiniteSet(1..m) /\ Cardinality(1..m) = m
    <3>1. m \in Nat
      BY <1>1
    <3> HIDE DEF m
    <3> QED BY <3>1, FS_Interval
  <2> QED BY <2>1, <2>2, FS_Bijection DEF ExistsBijection
<1>5. ASSUME NEW k \in 1..n PROVE t[k] = s[k]
  <2>1. s[k] = CHOOSE x \in S : Cardinality(NotAfter(S, R, x)) = k
    BY <1>5 DEF Sorted, NotAfter
  <2>2. t[k] \in S /\ Cardinality(NotAfter(S, R, t[k])) = k
    BY <1>1, <1>3, <1>4
  <2>3. s[k] \in S /\ Cardinality(NotAfter(S, R, s[k])) = k
    BY <2>1, <2>2
  <2>4. <<s[k], t[k]>> \notin R /\ <<t[k], s[k]>> \notin R
    BY <2>2, <2>3, PlaceOf
  <2> QED BY <2>2, <2>3, <2>4 DEF TotalOrder
<1>6. s \in Seq(S) /\ Len(s) = n
  BY SortedLists DEF Lists
<1> HIDE DEF s
<1> QED BY <1>1, <1>4, <1>5, <1>6, SeqEqual DEF s

\* A list with an element after all others ...
LEMMA ListAppend ==
    ASSUME NEW S, NEW R, NEW t, Lists(t, S, R), NEW x, NEW Q,
           \A y \in S : <<y, x>> \in Q,
           \A y, z \in S : <<y, z>> \in R => <<y, z>> \in Q
    PROVE  Lists(Append(t, x), S \cup {x}, Q)
<1> DEFINE T == S \cup {x}
           u == Append(t, x)
           n == Len(t)
<1>1. /\ t \in Seq(S) /\ n \in Nat
      /\ \A y \in S : \E k \in 1..n : t[k] = y
      /\ \A i, j \in 1..n : i < j => <<t[i], t[j]>> \in R
      /\ \A i \in 1..n : t[i] \in S
  BY DEF Lists
<1>2. /\ u \in Seq(T) /\ Len(u) = n + 1 /\ u[n + 1] = x
      /\ \A i \in 1..n : u[i] = t[i]
  BY <1>1
<1> HIDE DEF u, n
<1>3. \A y \in T : \E k \in 1..Len(u) : u[k] = y
  <2>1. ASSUME NEW y \in S PROVE \E k \in 1..Len(u) : u[k] = y
    <3>1. PICK k \in 1..n : t[k] = y
      BY <1>1
    <3>2. k \in 1..Len(u) /\ u[k] = y
      BY <3>1, <1>1, <1>2
    <3> QED BY <3>2
  <2>2. n + 1 \in 1..Len(u)
    BY <1>1, <1>2
  <2> QED BY <2>1, <2>2, <1>2
<1>4. ASSUME NEW i \in 1..Len(u), NEW j \in 1..Len(u), i < j
      PROVE  <<u[i], u[j]>> \in Q
  <2>1. i \in 1..n /\ u[i] = t[i] /\ t[i] \in S
    BY <1>1, <1>2, <1>4
  <2>2. CASE j \in 1..n
    <3>1. u[j] = t[j] /\ t[j] \in S /\ <<t[i], t[j]>> \in R
      BY <2>1, <2>2, <1>1, <1>2, <1>4
    <3> QED BY <2>1, <3>1
  <2>3. CASE j = n + 1
    BY <2>1, <2>3, <1>2
  <2> QED BY <2>2, <2>3, <1>1, <1>2
<1> QED BY <1>2, <1>3, <1>4 DEF Lists, u

\* ... and one without its first.
LEMMA ListTail ==
    ASSUME NEW S, NEW R, TotalOrder(S, R), NEW t, Lists(t, S, R),
           NEW x \in S, \A y \in S : <<y, x>> \notin R, NEW Q,
           \A y, z \in S \ {x} : <<y, z>> \in R => <<y, z>> \in Q
    PROVE  /\ t # <<>> /\ Head(t) = x
           /\ Lists(Tail(t), S \ {x}, Q)
<1> DEFINE T == S \ {x}
           u == Tail(t)
           n == Len(t)
<1>1. /\ t \in Seq(S) /\ n \in Nat
      /\ \A y \in S : \E k \in 1..n : t[k] = y
      /\ \A i, j \in 1..n : i < j => <<t[i], t[j]>> \in R
      /\ \A i \in 1..n : t[i] \in S
  BY DEF Lists
<1>2. PICK m \in 1..n : t[m] = x
  BY <1>1
<1>3. t # <<>> /\ 1 \in 1..n
  BY <1>1, <1>2
<1>4. m = 1
  <2>1. t[1] \in S /\ <<t[1], x>> \notin R
    BY <1>1, <1>3
  <2>2. 1 < m => <<t[1], t[m]>> \in R
    BY <1>1, <1>2, <1>3
  <2>3. m \in Nat /\ m >= 1
    BY <1>1
  <2> QED BY <2>1, <2>2, <2>3, <1>2
<1>5. Head(t) = x
  BY <1>1, <1>2, <1>3, <1>4
<1>6. /\ u \in Seq(S) /\ Len(u) = n - 1
      /\ \A i \in 1..(n - 1) : u[i] = t[i + 1]
  BY <1>1, <1>3, HeadTailProperties
<1> HIDE DEF u, n
<1>7. ASSUME NEW i \in 1..Len(u) PROVE u[i] \in T
  <2>1. i + 1 \in 1..n /\ u[i] = t[i + 1] /\ 1 < i + 1
    BY <1>1, <1>6
  <2>2. <<x, u[i]>> \in R
    BY <2>1, <1>1, <1>2, <1>3, <1>4
  <2> QED BY <2>1, <2>2, <1>1 DEF TotalOrder
<1>8. u \in Seq(T)
  BY <1>6, <1>7
<1>9. ASSUME NEW y \in T PROVE \E k \in 1..Len(u) : u[k] = y
  <2>1. PICK k \in 1..n : t[k] = y
    BY <1>1
  <2>2. k # 1
    BY <2>1, <1>2, <1>4
  <2>3. k - 1 \in 1..Len(u) /\ u[k - 1] = t[k]
    BY <2>2, <1>1, <1>6
  <2> QED BY <2>1, <2>3
<1>10. ASSUME NEW i \in 1..Len(u), NEW j \in 1..Len(u), i < j
       PROVE  <<u[i], u[j]>> \in Q
  <2>1. /\ i + 1 \in 1..n /\ u[i] = t[i + 1]
        /\ j + 1 \in 1..n /\ u[j] = t[j + 1] /\ i + 1 < j + 1
    BY <1>1, <1>6, <1>10
  <2>2. <<u[i], u[j]>> \in R
    BY <2>1, <1>1
  <2> QED BY <2>2, <1>7
<1>11. Lists(u, T, Q)
  BY <1>8, <1>9, <1>10 DEF Lists
<1> QED BY <1>3, <1>5, <1>11 DEF u
-----------------------------------------------------------------------------
(* Kept and Within. *)

LEMMA FunctionIsSeq ==
    ASSUME NEW S, NEW n \in Nat, NEW f \in [1..n -> S]
    PROVE  f \in Seq(S) /\ Len(f) = n
OBVIOUS

LEMMA IncreasingOrder ==
    ASSUME NEW n \in Nat, NEW I \in SUBSET (1..n)
    PROVE  IsFiniteSet(I) /\ TotalOrder(I, Increasing(I))
<1>1. IsFiniteSet(I)
  <2>1. IsFiniteSet(1..n)
    BY FS_Interval
  <2> QED BY <2>1, FS_Subset
<1>2. \A x, y \in I : <<x, y>> \in Increasing(I) <=> x < y
  BY DEF Increasing
<1> QED BY <1>1, <1>2 DEF TotalOrder

\* at lists the indices in I in their order.
Enumerates(at, I) ==
    /\ at \in Seq(I)
    /\ \A i \in I : \E k \in 1..Len(at) : at[k] = i
    /\ \A j, k \in 1..Len(at) : j < k => at[j] < at[k]

\* Any such list shows what is kept.
LEMMA KeptAlong ==
    ASSUME NEW S, NEW seq \in Seq(S), NEW I \in SUBSET (1..Len(seq)),
           NEW at, Enumerates(at, I)
    PROVE  Kept(seq, I) = [k \in 1..Len(at) |-> seq[at[k]]]
<1> USE DEF Enumerates
<1>1. Len(seq) \in Nat /\ Len(at) \in Nat /\ at \in [1..Len(at) -> I]
  OBVIOUS
<1>2. Lists(at, I, Increasing(I))
  <2>1. \A j, k \in 1..Len(at) : j < k => <<at[j], at[k]>> \in Increasing(I)
    BY <1>1 DEF Increasing
  <2> QED BY <2>1 DEF Lists
<1>3. IsFiniteSet(I) /\ TotalOrder(I, Increasing(I))
  BY <1>1, IncreasingOrder
<1>4. at = Sorted(I, Increasing(I)) /\ Len(at) = Cardinality(I)
  BY <1>2, <1>3, OneList
<1> QED BY <1>4 DEF Kept

ShowsKept(at, seq, I, S) ==
    /\ Enumerates(at, I)
    /\ \A k \in 1..Len(at) : at[k] \in I
    /\ Len(at) = Cardinality(I)
    /\ Kept(seq, I) = [k \in 1..Len(at) |-> seq[at[k]]]
    /\ Kept(seq, I) \in Seq(S)
    /\ Len(Kept(seq, I)) = Len(at)

\* There is such a list.
LEMMA KeptIndices ==
    ASSUME NEW S, NEW seq \in Seq(S), NEW I \in SUBSET (1..Len(seq))
    PROVE  \E at : ShowsKept(at, seq, I, S)
<1> USE DEF Enumerates
<1> DEFINE at == Sorted(I, Increasing(I))
<1>1. Len(seq) \in Nat /\ seq \in [1..Len(seq) -> S]
  OBVIOUS
<1>2. IsFiniteSet(I) /\ TotalOrder(I, Increasing(I))
  BY <1>1, IncreasingOrder
<1>3. Lists(at, I, Increasing(I)) /\ Len(at) = Cardinality(I)
  BY <1>2, SortedLists
<1> HIDE DEF at
<1>4. /\ at \in Seq(I) /\ Len(at) \in Nat /\ at \in [1..Len(at) -> I]
      /\ \A i \in I : \E k \in 1..Len(at) : at[k] = i
      /\ \A j, k \in 1..Len(at) : j < k => at[j] < at[k]
  <2>1. /\ at \in Seq(I)
        /\ \A i \in I : \E k \in 1..Len(at) : at[k] = i
        /\ \A j, k \in 1..Len(at) : j < k => <<at[j], at[k]>> \in Increasing(I)
    BY <1>3 DEF Lists
  <2>2. Len(at) \in Nat /\ at \in [1..Len(at) -> I]
    BY <2>1
  <2>3. ASSUME NEW j \in 1..Len(at), NEW k \in 1..Len(at), j < k
        PROVE  at[j] < at[k]
    BY <2>1, <2>3 DEF Increasing
  <2> QED BY <2>1, <2>2, <2>3
<1>5. Kept(seq, I) = [k \in 1..Len(at) |-> seq[at[k]]]
  <2>1. Enumerates(at, I)
    BY <1>4
  <2> QED BY ONLY <2>1, KeptAlong, seq \in Seq(S), I \in SUBSET (1..Len(seq))
<1>6. Kept(seq, I) \in [1..Len(at) -> S]
  BY <1>1, <1>4, <1>5
<1>7. Kept(seq, I) \in Seq(S) /\ Len(Kept(seq, I)) = Len(at)
  <2>1. ASSUME NEW q, q \in [1..Len(at) -> S]
        PROVE  q \in Seq(S) /\ Len(q) = Len(at)
    BY <2>1, <1>4
  <2> QED BY <2>1, <1>6
<1>8. \A k \in 1..Len(at) : at[k] \in I
  BY <1>4
<1>9. ShowsKept(at, seq, I, S)
  BY <1>3, <1>4, <1>5, <1>7, <1>8 DEF ShowsKept
<1> QED BY <1>9

\* What is kept are the elements at the indices, each once.
LEMMA KeptElements ==
    ASSUME NEW S, NEW seq \in Seq(S), NEW I \in SUBSET (1..Len(seq))
    PROVE  /\ Kept(seq, I) \in Seq(S)
           /\ Len(Kept(seq, I)) = Cardinality(I)
           /\ \A i \in I : \E k \in 1..Len(Kept(seq, I)) : Kept(seq, I)[k] = seq[i]
           /\ \A k \in 1..Len(Kept(seq, I)) : \E i \in I : Kept(seq, I)[k] = seq[i]
           /\ (\A i, j \in I : seq[i] = seq[j] => i = j) =>
                \A j, k \in 1..Len(Kept(seq, I)) :
                    Kept(seq, I)[j] = Kept(seq, I)[k] => j = k
<1>0. PICK at : ShowsKept(at, seq, I, S)
  BY KeptIndices
<1>1. /\ at \in Seq(I)
      /\ \A i \in I : \E k \in 1..Len(at) : at[k] = i
      /\ \A j, k \in 1..Len(at) : j < k => at[j] < at[k]
      /\ \A k \in 1..Len(at) : at[k] \in I
      /\ Len(at) = Cardinality(I)
      /\ Kept(seq, I) = [k \in 1..Len(at) |-> seq[at[k]]]
      /\ Kept(seq, I) \in Seq(S)
      /\ Len(Kept(seq, I)) = Len(at)
  BY <1>0 DEF ShowsKept, Enumerates
<1> DEFINE q == Kept(seq, I)
<1>2. \A k \in 1..Len(at) : q[k] = seq[at[k]]
  BY <1>1
<1>3. \A j, k \in 1..Len(at) : at[j] = at[k] => j = k
  <2> SUFFICES ASSUME NEW j \in 1..Len(at), NEW k \in 1..Len(at), at[j] = at[k]
               PROVE  j = k
    OBVIOUS
  <2>1. at[j] \in I /\ at[k] \in I
    BY <1>1
  <2>2. I \subseteq Int
    OBVIOUS
  <2>3. (j < k => at[j] < at[k]) /\ (k < j => at[k] < at[j])
    BY <1>1
  <2>4. at[j] \in Int /\ at[k] \in Int
    BY <2>1, <2>2
  <2>5. ~(j < k) /\ ~(k < j)
    BY <2>3, <2>4
  <2>6. j \in Int /\ k \in Int
    OBVIOUS
  <2> QED BY <2>5, <2>6
<1>4. \A i \in I : \E k \in 1..Len(at) : q[k] = seq[i]
  BY <1>1, <1>2
<1>5. \A k \in 1..Len(at) : \E i \in I : q[k] = seq[i]
  BY <1>1, <1>2
<1>6. ASSUME \A i, j \in I : seq[i] = seq[j] => i = j,
             NEW j \in 1..Len(at), NEW k \in 1..Len(at), q[j] = q[k]
      PROVE  j = k
  <2>1. seq[at[j]] = seq[at[k]] /\ at[j] \in I /\ at[k] \in I
    BY <1>1, <1>2, <1>6
  <2>2. at[j] = at[k]
    BY <2>1, <1>6
  <2> QED BY <2>2, <1>3
<1> HIDE DEF q
<1>7. q \in Seq(S) /\ Len(q) = Len(at) /\ Len(at) = Cardinality(I)
  BY <1>1 DEF q
<1>8. /\ \A i \in I : \E k \in 1..Len(q) : q[k] = seq[i]
      /\ \A k \in 1..Len(q) : \E i \in I : q[k] = seq[i]
      /\ (\A i, j \in I : seq[i] = seq[j] => i = j) =>
           \A j, k \in 1..Len(q) : q[j] = q[k] => j = k
  BY <1>4, <1>5, <1>6, <1>7
<1> QED BY <1>7, <1>8 DEF q

\* What is in a sequence at most once is kept at most once.
LEMMA KeptOnce ==
    ASSUME NEW S, NEW seq \in Seq(S), NEW I \in SUBSET (1..Len(seq)), NEW A,
           \A i, j \in I : seq[i] \in A /\ seq[j] \in A => i = j
    PROVE  \A j, k \in 1..Len(Kept(seq, I)) :
             Kept(seq, I)[j] \in A /\ Kept(seq, I)[k] \in A => j = k
<1>0. PICK at : ShowsKept(at, seq, I, S)
  BY KeptIndices
<1>1. /\ at \in Seq(I)
      /\ \A j, k \in 1..Len(at) : j < k => at[j] < at[k]
      /\ \A k \in 1..Len(at) : at[k] \in I
      /\ Kept(seq, I) = [k \in 1..Len(at) |-> seq[at[k]]]
      /\ Len(Kept(seq, I)) = Len(at)
  BY <1>0 DEF ShowsKept, Enumerates
<1> DEFINE q == Kept(seq, I)
<1>2. \A k \in 1..Len(at) : q[k] = seq[at[k]]
  BY <1>1
<1>3. Len(q) = Len(at)
  BY <1>1
<1> HIDE DEF q
<1>4. ASSUME NEW j \in 1..Len(at), NEW k \in 1..Len(at), q[j] \in A, q[k] \in A
      PROVE  ~(j < k)
  <2>1. at[j] = at[k]
    BY <1>1, <1>2, <1>4
  <2>2. at[j] \in Int
    <3>1. at[j] \in I /\ I \subseteq Int
      BY <1>1
    <3> QED BY <3>1
  <2>3. j < k => at[j] < at[k]
    BY <1>1
  <2> QED BY <2>1, <2>2, <2>3
<1>5. \A j, k \in 1..Len(at) : q[j] \in A /\ q[k] \in A => j = k
  BY <1>4
<1> QED BY <1>3, <1>5 DEF q

LEMMA WithinType ==
    ASSUME NEW S, NEW seq \in Seq(S), NEW K
    PROVE  Within(seq, K) \in Seq(S)
<1>1. {i \in DOMAIN seq : seq[i] \in K} \in SUBSET (1..Len(seq))
  OBVIOUS
<1> QED BY <1>1, KeptElements DEF Within

Shifted(J, n) == {n + j : j \in J}

Distributes(s, t, I, J) ==
    Kept(s \o t, I \cup Shifted(J, Len(s))) = Kept(s, I) \o Kept(t, J)

\* Filtering distributes over concatenation.
LEMMA KeptConcat ==
    ASSUME NEW S, NEW s \in Seq(S), NEW t \in Seq(S),
           NEW I \in SUBSET (1..Len(s)), NEW J \in SUBSET (1..Len(t))
    PROVE  Distributes(s, t, I, J)
<1> DEFINE n == Len(s)
           u == s \o t
           M == I \cup Shifted(J, Len(s))
<1>1. /\ n \in Nat /\ Len(t) \in Nat
      /\ u \in Seq(S) /\ Len(u) = n + Len(t)
      /\ \A i \in 1..n : u[i] = s[i]
      /\ \A j \in 1..Len(t) : u[n + j] = t[j]
  OBVIOUS
<1>2. PICK a : ShowsKept(a, s, I, S)
  BY KeptIndices
<1>3. PICK b : ShowsKept(b, t, J, S)
  BY KeptIndices
<1> DEFINE p == Len(a)
           q == Len(b)
           c == [k \in 1..(p + q) |-> IF k <= p THEN a[k] ELSE n + b[k - p]]
<1>4. p \in Nat /\ q \in Nat /\ n \in Nat
  BY <1>1, <1>2, <1>3 DEF ShowsKept, Enumerates
<1>5. \A i \in I : i \in 1..n
  OBVIOUS
<1>6. \A j \in J : j \in 1..Len(t)
  OBVIOUS
<1>7. \A k \in 1..p : a[k] \in I /\ a[k] \in 1..n
  BY <1>2, <1>5 DEF ShowsKept
<1>8. \A k \in 1..q : b[k] \in J /\ b[k] \in 1..Len(t)
  BY <1>3, <1>6 DEF ShowsKept
<1>9. /\ \A i \in I : i \in M
      /\ \A j \in J : n + j \in M
      /\ \A m \in M : m \in I \/ \E j \in J : m = n + j
  BY DEF Shifted
<1>10. /\ \A i \in I : \E k \in 1..p : a[k] = i
       /\ \A j \in J : \E k \in 1..q : b[k] = j
       /\ \A j, k \in 1..p : j < k => a[j] < a[k]
       /\ \A j, k \in 1..q : j < k => b[j] < b[k]
       /\ \A k \in 1..p : Kept(s, I)[k] = s[a[k]]
       /\ \A k \in 1..q : Kept(t, J)[k] = t[b[k]]
       /\ Len(Kept(s, I)) = p /\ Len(Kept(t, J)) = q
  BY <1>2, <1>3 DEF ShowsKept, Enumerates
<1> HIDE DEF p, q, n, M
<1>11. /\ \A k \in 1..p : k \in 1..(p + q)
       /\ \A k \in 1..q : p + k \in 1..(p + q)
       /\ \A k \in 1..(p + q) : k \in 1..p \/ \E l \in 1..q : k = p + l
  <2>1. ASSUME NEW k \in 1..(p + q), k \notin 1..p
        PROVE  \E l \in 1..q : k = p + l
    <3>1. k - p \in 1..q /\ k = p + (k - p)
      BY <1>4, <2>1
    <3> QED BY <3>1
  <2> QED BY <1>4, <2>1
<1>12. /\ \A k \in 1..p : c[k] = a[k]
       /\ \A k \in 1..q : c[p + k] = n + b[k]
  <2>1. ASSUME NEW k \in 1..q PROVE c[p + k] = n + b[k]
    <3>1. p + k \in 1..(p + q) /\ ~(p + k <= p) /\ (p + k) - p = k
      BY <1>4
    <3> QED BY <3>1
  <2>2. ASSUME NEW k \in 1..p PROVE c[k] = a[k]
    <3>1. k \in 1..(p + q) /\ k <= p
      BY <1>4
    <3> QED BY <3>1
  <2> QED BY <2>1, <2>2
<1>13. c \in [1..(p + q) -> M]
  <2>1. c = [k \in 1..(p + q) |-> c[k]]
    OBVIOUS
  <2> HIDE DEF c
  <2>2. ASSUME NEW k \in 1..(p + q) PROVE c[k] \in M
    <3>1. CASE k \in 1..p
      BY <3>1, <1>7, <1>9, <1>12
    <3>2. CASE \E l \in 1..q : k = p + l
      <4>1. PICK l \in 1..q : k = p + l
        BY <3>2
      <4> QED BY <4>1, <1>8, <1>9, <1>12
    <3> QED BY <3>1, <3>2, <1>11
  <2> QED BY <2>1, <2>2
<1> HIDE DEF c
<1>14. c \in Seq(M) /\ Len(c) = p + q
  <2>1. p + q \in Nat
    BY <1>4
  <2> QED BY <2>1, <1>13, FunctionIsSeq
<1>15. ASSUME NEW m \in M PROVE \E k \in 1..(p + q) : c[k] = m
  <2>1. CASE m \in I
    <3>1. PICK k \in 1..p : a[k] = m
      BY <2>1, <1>10
    <3> QED BY <3>1, <1>11, <1>12
  <2>2. CASE \E j \in J : m = n + j
    <3>1. PICK j \in J : m = n + j
      BY <2>2
    <3>2. PICK k \in 1..q : b[k] = j
      BY <1>10
    <3> QED BY <3>1, <3>2, <1>11, <1>12
  <2> QED BY <2>1, <2>2, <1>9
<1>16. ASSUME NEW j \in 1..(p + q), NEW k \in 1..(p + q), j < k
       PROVE  c[j] < c[k]
  <2>1. CASE j \in 1..p /\ k \in 1..p
    BY <2>1, <1>10, <1>12, <1>16
  <2>2. CASE j \in 1..p /\ \E l \in 1..q : k = p + l
    <3>1. PICK l \in 1..q : k = p + l
      BY <2>2
    <3>2. a[j] \in 1..n /\ b[l] \in 1..Len(t)
      BY <2>2, <1>7, <1>8
    <3>3. a[j] < n + b[l]
      BY <3>2, <1>1, <1>4
    <3>4. c[j] = a[j] /\ c[k] = n + b[l]
      BY <3>1, <2>2, <1>12
    <3> QED BY <3>3, <3>4
  <2>3. CASE (\E l \in 1..q : j = p + l) /\ (\E l \in 1..q : k = p + l)
    <3>1. PICK l \in 1..q : j = p + l
      BY <2>3
    <3>2. PICK m \in 1..q : k = p + m
      BY <2>3
    <3>3. l < m
      BY <3>1, <3>2, <1>16, <1>4
    <3>4. b[l] < b[m] /\ b[l] \in 1..Len(t) /\ b[m] \in 1..Len(t)
      BY <3>3, <1>8, <1>10
    <3>5. n + b[l] < n + b[m]
      BY <3>4, <1>1, <1>4
    <3>6. c[j] = n + b[l] /\ c[k] = n + b[m]
      BY <3>1, <3>2, <1>12
    <3> QED BY <3>5, <3>6
  <2>4. ASSUME NEW l \in 1..q, j = p + l PROVE k \notin 1..p
    BY <2>4, <1>16, <1>4
  <2> QED BY <2>1, <2>2, <2>3, <2>4, <1>11
<1>17. M \in SUBSET (1..Len(u))
  <2>1. ASSUME NEW m \in M PROVE m \in 1..(n + Len(t))
    <3>1. CASE m \in I
      BY <3>1, <1>1, <1>4, <1>5
    <3>2. CASE \E j \in J : m = n + j
      <4>1. PICK j \in 1..Len(t) : m = n + j
        BY <3>2, <1>6
      <4> QED BY <4>1, <1>1, <1>4
    <3> QED BY <3>1, <3>2, <1>9
  <2> QED BY <2>1, <1>1 DEF n
<1> HIDE DEF u
<1>18. u \in Seq(S)
  BY <1>1
<1>19. Kept(u, M) = [k \in 1..(p + q) |-> u[c[k]]]
  <2>1. Enumerates(c, M)
    BY <1>14, <1>15, <1>16 DEF Enumerates
  <2>2. Kept(u, M) = [k \in 1..Len(c) |-> u[c[k]]]
    BY <1>17, <1>18, <2>1, KeptAlong
  <2> QED BY <2>2, <1>14
<1> DEFINE x == Kept(s, I)
           y == Kept(t, J)
           w == x \o y
<1>20. x \in Seq(S) /\ y \in Seq(S) /\ Len(x) = p /\ Len(y) = q
  BY <1>2, <1>3, <1>10 DEF ShowsKept
<1>21. /\ \A k \in 1..p : x[k] = s[a[k]]
       /\ \A k \in 1..q : y[k] = t[b[k]]
  BY <1>10
<1> HIDE DEF x, y
<1>22. /\ w \in Seq(S) /\ Len(w) = p + q
       /\ \A k \in 1..p : w[k] = x[k]
       /\ \A k \in 1..q : w[p + k] = y[k]
  <2>1. /\ w \in Seq(S) /\ Len(w) = p + q
        /\ \A k \in 1..(p + q) : w[k] = IF k <= p THEN x[k] ELSE y[k - p]
    BY <1>20, ConcatProperties
  <2> HIDE DEF w
  <2>2. ASSUME NEW k \in 1..p PROVE w[k] = x[k]
    BY <2>1, <1>11
  <2>3. ASSUME NEW k \in 1..q PROVE w[p + k] = y[k]
    <3>1. p + k \in 1..(p + q) /\ ~(p + k <= p) /\ (p + k) - p = k
      BY <1>4
    <3> QED BY <3>1, <2>1
  <2> QED BY <2>1, <2>2, <2>3
<1> HIDE DEF w
<1>23. ASSUME NEW k \in 1..(p + q) PROVE u[c[k]] = w[k]
  <2>1. CASE k \in 1..p
    <3>1. c[k] = a[k] /\ a[k] \in 1..n /\ w[k] = s[a[k]]
      BY <2>1, <1>7, <1>12, <1>21, <1>22
    <3>2. u[a[k]] = s[a[k]]
      BY <3>1, <1>1
    <3> QED BY <3>1, <3>2
  <2>2. CASE \E l \in 1..q : k = p + l
    <3>1. PICK l \in 1..q : k = p + l
      BY <2>2
    <3>2. c[k] = n + b[l] /\ b[l] \in 1..Len(t) /\ w[k] = t[b[l]]
      BY <3>1, <1>8, <1>12, <1>21, <1>22
    <3>3. u[n + b[l]] = t[b[l]]
      BY <3>2, <1>1
    <3> QED BY <3>2, <3>3
  <2> QED BY <2>1, <2>2, <1>11
<1>24. w = [k \in 1..(p + q) |-> w[k]]
  BY <1>22
<1>25. Kept(u, M) = w
  BY <1>19, <1>23, <1>24
<1> QED BY <1>25 DEF u, w, x, y, M, Distributes

\* Nothing is kept of no index.
LEMMA KeptNone ==
    ASSUME NEW S, NEW s \in Seq(S)
    PROVE  Kept(s, {}) = <<>>
<1>1. Kept(s, {}) \in Seq(S) /\ Len(Kept(s, {})) = 0
  BY KeptElements, FS_EmptySet
<1> QED BY <1>1

\* The one element kept of a sequence of one.
LEMMA KeptOne ==
    ASSUME NEW S, NEW x \in S
    PROVE  Kept(<<x>>, {1}) = <<x>>
<1> DEFINE at == <<1>>
<1>1. <<x>> \in Seq(S) /\ Len(<<x>>) = 1 /\ {1} \in SUBSET (1..Len(<<x>>))
  OBVIOUS
<1>2. at \in Seq({1}) /\ Len(at) = 1 /\ at[1] = 1
  OBVIOUS
<1>3. Kept(<<x>>, {1}) = [k \in 1..Len(at) |-> <<x>>[at[k]]]
  <2> HIDE DEF at
  <2>1. Enumerates(at, {1})
    BY <1>2 DEF Enumerates
  <2> DEFINE q == <<x>>
  <2> HIDE DEF q
  <2> SUFFICES Kept(q, {1}) = [k \in 1..Len(at) |-> q[at[k]]]
    BY DEF q
  <2>2. q \in Seq(S) /\ {1} \in SUBSET (1..Len(q))
    BY <1>1 DEF q
  <2> QED BY <2>2, <1>2, <2>1, KeptAlong
<1>4. [k \in 1..Len(at) |-> <<x>>[at[k]]] = <<x>>
  BY <1>2
<1> QED BY <1>3, <1>4

LEMMA WithinConcat ==
    ASSUME NEW S, NEW s \in Seq(S), NEW t \in Seq(S), NEW K
    PROVE  Within(s \o t, K) = Within(s, K) \o Within(t, K)
<1> DEFINE I == {i \in 1..Len(s) : s[i] \in K}
           J == {i \in 1..Len(t) : t[i] \in K}
           M == {i \in 1..(Len(s) + Len(t)) : (s \o t)[i] \in K}
<1>1. /\ Len(s) \in Nat /\ Len(t) \in Nat /\ Len(s \o t) = Len(s) + Len(t)
      /\ DOMAIN s = 1..Len(s) /\ DOMAIN t = 1..Len(t)
      /\ DOMAIN (s \o t) = 1..(Len(s) + Len(t))
      /\ \A i \in 1..Len(s) : (s \o t)[i] = s[i]
      /\ \A j \in 1..Len(t) : (s \o t)[Len(s) + j] = t[j]
  OBVIOUS
<1>2. M \subseteq I \cup {Len(s) + j : j \in J}
  <2> SUFFICES ASSUME NEW m \in 1..(Len(s) + Len(t)), (s \o t)[m] \in K
               PROVE  m \in I \/ \E j \in J : m = Len(s) + j
    OBVIOUS
  <2>1. CASE m <= Len(s)
    BY <2>1, <1>1
  <2>2. CASE m > Len(s)
    <3>1. m - Len(s) \in 1..Len(t) /\ m = Len(s) + (m - Len(s))
      BY <2>2, <1>1
    <3> QED BY <3>1, <1>1
  <2> QED BY <2>1, <2>2, <1>1
<1>3. I \cup {Len(s) + j : j \in J} \subseteq M
  <2>1. ASSUME NEW i \in I PROVE i \in M
    BY <1>1
  <2>2. ASSUME NEW j \in J PROVE Len(s) + j \in M
    BY <1>1
  <2> QED BY <2>1, <2>2
<1>4. M = I \cup Shifted(J, Len(s))
  BY <1>2, <1>3 DEF Shifted
<1>5. I \in SUBSET (1..Len(s)) /\ J \in SUBSET (1..Len(t))
  OBVIOUS
<1>6. Kept(s \o t, M) = Kept(s, I) \o Kept(t, J)
  <2> HIDE DEF I, J, M
  <2>1. Distributes(s, t, I, J)
    BY <1>5, KeptConcat
  <2> QED BY <1>4, <2>1 DEF Distributes
<1>7. Within(s, K) = Kept(s, I) /\ Within(t, K) = Kept(t, J)
  BY <1>1 DEF Within
<1>8. Within(s \o t, K) = Kept(s \o t, M)
  BY <1>1 DEF Within
<1> QED BY <1>6, <1>7, <1>8

LEMMA WithinOne ==
    ASSUME NEW S, NEW x \in S, NEW K
    PROVE  Within(<<x>>, K) = IF x \in K THEN <<x>> ELSE <<>>
<1>1. <<x>> \in Seq(S) /\ DOMAIN <<x>> = {1} /\ <<x>>[1] = x
  OBVIOUS
<1>2. CASE x \in K
  <2>1. {i \in DOMAIN <<x>> : <<x>>[i] \in K} = {1}
    BY <1>1, <1>2
  <2> QED BY <2>1, <1>2, KeptOne DEF Within
<1>3. CASE x \notin K
  <2>1. {i \in DOMAIN <<x>> : <<x>>[i] \in K} = {}
    BY <1>1, <1>3
  <2>2. Kept(<<x>>, {}) = <<>>
    BY <1>1, KeptNone
  <2> QED BY <2>1, <2>2, <1>3 DEF Within
<1> QED BY <1>2, <1>3

LEMMA WithinEmpty == \A K : Within(<<>>, K) = <<>>
<1>1. <<>> \in Seq({}) /\ DOMAIN <<>> = {}
  OBVIOUS
<1>2. Kept(<<>>, {}) = <<>>
  BY <1>1, KeptNone
<1> QED BY <1>1, <1>2 DEF Within

LEMMA WithinAppend ==
    ASSUME NEW S, NEW s \in Seq(S), NEW x \in S, NEW K
    PROVE  Within(Append(s, x), K) =
             IF x \in K THEN Append(Within(s, K), x) ELSE Within(s, K)
<1>1. Append(s, x) = s \o <<x>> /\ <<x>> \in Seq(S)
  BY AppendIsConcat
<1>2. Within(s, K) \in Seq(S)
  BY WithinType
<1>3. Within(Append(s, x), K) = Within(s, K) \o Within(<<x>>, K)
  <2> DEFINE o == <<x>>
  <2>1. Append(s, x) = s \o o /\ o \in Seq(S)
    BY <1>1
  <2> HIDE DEF o
  <2>2. Within(s \o o, K) = Within(s, K) \o Within(o, K)
    BY <2>1, WithinConcat
  <2> QED BY <2>1, <2>2 DEF o
<1>4. CASE x \in K
  <2>1. Within(<<x>>, K) = <<x>>
    BY <1>4, WithinOne
  <2> QED BY <2>1, <1>2, <1>3, <1>4, AppendIsConcat
<1>5. CASE x \notin K
  <2>1. Within(<<x>>, K) = <<>>
    BY <1>5, WithinOne
  <2> QED BY <2>1, <1>2, <1>3, <1>5, ConcatEmptySeq
<1> QED BY <1>4, <1>5

LEMMA WithinTail ==
    ASSUME NEW S, NEW s \in Seq(S), s # <<>>, NEW K
    PROVE  IF Head(s) \in K
           THEN /\ Within(s, K) # <<>>
                /\ Head(Within(s, K)) = Head(s)
                /\ Tail(Within(s, K)) = Within(Tail(s), K)
           ELSE Within(s, K) = Within(Tail(s), K)
<1> DEFINE x == Head(s)
           t == Tail(s)
<1>1. x \in S /\ t \in Seq(S) /\ s = <<x>> \o t /\ <<x>> \in Seq(S)
  BY HeadTailProperties
<1>2. Within(t, K) \in Seq(S)
  BY <1>1, WithinType
<1>3. Within(s, K) = Within(<<x>>, K) \o Within(t, K)
  <2> DEFINE o == <<x>>
  <2>1. s = o \o t /\ o \in Seq(S) /\ t \in Seq(S)
    BY <1>1
  <2> HIDE DEF x, t, o
  <2>2. Within(o \o t, K) = Within(o, K) \o Within(t, K)
    BY <2>1, WithinConcat
  <2> QED BY <2>1, <2>2 DEF o
<1>4. CASE x \in K
  <2>1. Within(<<x>>, K) = <<x>>
    BY <1>1, <1>4, WithinOne
  <2> DEFINE w == Within(t, K)
  <2>2. Within(s, K) = <<x>> \o w /\ w \in Seq(S)
    BY <2>1, <1>2, <1>3
  <2> HIDE DEF w
  <2>3. <<x>> \o w # <<>> /\ Head(<<x>> \o w) = x /\ Tail(<<x>> \o w) = w
    <3> HIDE DEF x
    <3> QED BY <1>1, <2>2
  <2> QED BY <2>2, <2>3, <1>4 DEF w
<1>5. CASE x \notin K
  <2>1. Within(<<x>>, K) = <<>>
    BY <1>1, <1>5, WithinOne
  <2> QED BY <2>1, <1>2, <1>3, <1>5, ConcatEmptySeq
<1> QED BY <1>4, <1>5

\* Only what K says of the elements of the sequence matters.
LEMMA WithinSame ==
    ASSUME NEW S, NEW s \in Seq(S), NEW K, NEW L,
           \A i \in 1..Len(s) : s[i] \in K <=> s[i] \in L
    PROVE  Within(s, K) = Within(s, L)
<1>1. {i \in DOMAIN s : s[i] \in K} = {i \in DOMAIN s : s[i] \in L}
  OBVIOUS
<1> QED BY <1>1 DEF Within
-----------------------------------------------------------------------------
(* Sequences in general. *)

LEMMA SeqMore ==
    ASSUME NEW S, NEW T, S \subseteq T, NEW s \in Seq(S)
    PROVE  s \in Seq(T)
OBVIOUS

LEMMA AppendConcat ==
    ASSUME NEW S, NEW s \in Seq(S), NEW T, NEW t \in Seq(T), NEW x
    PROVE  s \o Append(t, x) = Append(s \o t, x)
<1> DEFINE U == S \cup T \cup {x}
<1>1. s \in Seq(U) /\ t \in Seq(U) /\ x \in U
  BY SeqMore
<1> HIDE DEF U
<1> QED BY <1>1

LEMMA MoveHead ==
    ASSUME NEW S, NEW s \in Seq(S), NEW t \in Seq(S), t # <<>>
    PROVE  Append(s, Head(t)) \o Tail(t) = s \o t
OBVIOUS

LEMMA TailConcat ==
    ASSUME NEW S, NEW s \in Seq(S), NEW t \in Seq(S), s # <<>>
    PROVE  /\ s \o t \in Seq(S) /\ s \o t # <<>>
           /\ Head(s \o t) = Head(s)
           /\ Tail(s \o t) = Tail(s) \o t
OBVIOUS
-----------------------------------------------------------------------------
(* Sequences and the sets of their elements. *)

LEMMA SetAppend ==
    ASSUME NEW S, NEW seq \in Seq(S), NEW x \in S
    PROVE  /\ Append(seq, x) \in Seq(S)
           /\ ToSet(Append(seq, x)) = ToSet(seq) \cup {x}
<1>1. /\ Append(seq, x) \in Seq(S) /\ Len(seq) \in Nat
      /\ DOMAIN seq = 1..Len(seq)
      /\ DOMAIN Append(seq, x) = 1..(Len(seq) + 1)
      /\ Append(seq, x)[Len(seq) + 1] = x
      /\ \A i \in 1..Len(seq) : Append(seq, x)[i] = seq[i]
  OBVIOUS
<1>2. ToSet(Append(seq, x)) \subseteq ToSet(seq) \cup {x}
  BY <1>1 DEF ToSet
<1>3. ToSet(seq) \subseteq ToSet(Append(seq, x))
  <2> SUFFICES ASSUME NEW i \in DOMAIN seq PROVE seq[i] \in ToSet(Append(seq, x))
    BY DEF ToSet
  <2> QED BY <1>1 DEF ToSet
<1>4. x \in ToSet(Append(seq, x))
  BY <1>1 DEF ToSet
<1> QED BY <1>1, <1>2, <1>3, <1>4

LEMMA SetTail ==
    ASSUME NEW S, NEW seq \in Seq(S), seq # <<>>
    PROVE  /\ Head(seq) \in S /\ Tail(seq) \in Seq(S)
           /\ Head(seq) \in ToSet(seq)
           /\ ToSet(Tail(seq)) \subseteq ToSet(seq)
           /\ ToSet(seq) = {Head(seq)} \cup ToSet(Tail(seq))
<1>1. /\ Head(seq) \in S /\ Tail(seq) \in Seq(S) /\ Len(seq) \in Nat \ {0}
      /\ Len(Tail(seq)) = Len(seq) - 1
      /\ Head(seq) = seq[1]
      /\ \A i \in 1..(Len(seq) - 1) : Tail(seq)[i] = seq[i + 1]
  BY HeadTailProperties, EmptySeq
<1>2. DOMAIN seq = 1..Len(seq) /\ DOMAIN Tail(seq) = 1..(Len(seq) - 1)
  BY <1>1
<1>3. ToSet(seq) \subseteq {Head(seq)} \cup ToSet(Tail(seq))
  <2> SUFFICES ASSUME NEW i \in 1..Len(seq), i # 1
               PROVE  seq[i] \in ToSet(Tail(seq))
    BY <1>1, <1>2 DEF ToSet
  <2>1. i - 1 \in 1..(Len(seq) - 1) /\ Tail(seq)[i - 1] = seq[i]
    BY <1>1
  <2> QED BY <2>1, <1>2 DEF ToSet
<1>4. Head(seq) \in ToSet(seq)
  BY <1>1, <1>2 DEF ToSet
<1>5. ToSet(Tail(seq)) \subseteq ToSet(seq)
  <2> SUFFICES ASSUME NEW i \in 1..(Len(seq) - 1)
               PROVE  Tail(seq)[i] \in ToSet(seq)
    BY <1>2 DEF ToSet
  <2>1. Tail(seq)[i] = seq[i + 1] /\ i + 1 \in 1..Len(seq)
    BY <1>1
  <2> QED BY <2>1, <1>2 DEF ToSet
<1> QED BY <1>1, <1>3, <1>4, <1>5
=============================================================================
