------------------------- MODULE EventLists_proofs -------------------------
(***************************************************************************)
(* The event lists of ns-3, for every number of events and every time      *)
(* stamp: ListScheduler and MapScheduler keep the contract of Scheduler    *)
(* and hand out the same events (OrderedLists); HeapScheduler keeps it     *)
(* unless an event is removed in whose place another would have to rise    *)
(* (HeapSteps); CalendarScheduler keeps it through every resize            *)
(* (CalendarSteps).                                                        *)
(***************************************************************************)
EXTENDS OrderedLists, HeapSteps, CalendarSteps, SequenceTheorems,
        WellFoundedInduction, FiniteSetTheorems, TLAPS

\* A non-empty set of numbers has a least element, which Min finds: of the
\* sets of those below one of them, one is minimal for inclusion.
LEMMA MinIsLeast ==
    ASSUME NEW S \in SUBSET Nat, S # {}
    PROVE  Min(S) \in S /\ \A n \in S : Min(S) <= n
<1> DEFINE Below(m) == {n \in S : n < m}
           Family == {Below(m) : m \in S}
<1>1. Family \subseteq FiniteSubsetsOf(Nat) /\ Family # {}
  <2>1. \A m \in S : IsFiniteSet(Below(m))
    <3>1. ASSUME NEW m \in S PROVE IsFiniteSet(Below(m))
      <4>1. Below(m) \in SUBSET Nat /\ m \in Nat
        OBVIOUS
      <4>2. \A n \in Below(m) : n \in Nat /\ n < m
        BY <4>1
      <4>3. \A n \in Below(m) : n <= m
        BY <4>1, <4>2
      <4> QED
        BY <4>1, <4>3, FS_BoundedSetOfNaturals
    <3> QED
      BY <3>1
  <2> QED
    BY <2>1 DEF FiniteSubsetsOf
<1>2. PICK B \in Family : \A C \in Family : ~(<<C, B>> \in StrictSubsetOrdering(Nat))
  BY <1>1, FS_StrictSubsetOrderingWellFounded, WFMin
<1>3. PICK m \in S : B = Below(m)
  OBVIOUS
<1>4. ASSUME NEW n \in S, n < m
      PROVE  FALSE
  <2>1. Below(n) \in Family
    OBVIOUS
  <2>2. Below(n) \subseteq B
    <3>1. \A k \in Below(n) : k \in S /\ k \in Nat /\ k < n
      OBVIOUS
    <3>2. \A k \in Below(n) : k < m
      BY <1>4, <3>1
    <3> QED
      BY <1>3, <3>1, <3>2
  <2>3. n \in B
    BY <1>3, <1>4
  <2>4. n \notin Below(n)
    OBVIOUS
  <2>5. <<Below(n), B>> \in StrictSubsetOrdering(Nat)
    BY <1>1, <2>1, <2>2, <2>3, <2>4 DEF FiniteSubsetsOf, StrictSubsetOrdering
  <2> QED
    BY <1>2, <2>1, <2>5
<1>5. \A n \in S : m <= n
  BY <1>4
<1> HIDE DEF Family
<1> QED
  BY <1>5 DEF Min

\* The order of keys is a strict order, total on keys of different uids.
LEMMA LessOrder ==
    ASSUME NEW a \in Key, NEW b \in Key, NEW c \in Key
    PROVE  /\ ~Less(a, a)
           /\ Less(a, b) => ~Less(b, a)
           /\ Less(a, b) /\ Less(b, c) => Less(a, c)
           /\ a.uid # b.uid => Less(a, b) \/ Less(b, a)
  BY DEF Less, Key

\* The front of an ordered list is its earliest entry.
LEMMA HeadEarliest ==
    ASSUME Agree, list # <<>>
    PROVE  /\ Head(list) \in Key
           /\ IsEarliest(Head(list), Entries(list))
<1>1. Head(list) = list[1] /\ 1 \in DOMAIN list
  BY DEF Agree
<1>2. \A i \in DOMAIN list : list[i] \in Key
  BY DEF Agree
<1>3. \A i \in DOMAIN list : ~Less(list[i], list[1])
  BY <1>1, <1>2, LessOrder DEF Agree, IsSorted
<1> QED
  BY <1>1, <1>2, <1>3 DEF IsEarliest, Entries

\* The map begins with the entry the list has at its front: no other entry
\* is earliest, as no two have the same uid.
LEMMA FrontIsBegin ==
    ASSUME Agree, list # <<>>
    PROVE  Head(list) = Begin(map)
<1>1. IsEarliest(Head(list), map)
  BY HeadEarliest DEF Agree
<1>2. ASSUME NEW f, IsEarliest(f, map)
      PROVE  f = Head(list)
  <2>1. PICK i \in DOMAIN list : f = list[i]
    BY <1>2 DEF IsEarliest, Agree, Entries
  <2>2. Head(list) = list[1] /\ 1 \in DOMAIN list /\ list[1] \in map
    BY DEF Agree, Entries
  <2>3. ~Less(list[1], list[i])
    BY <1>2, <2>1, <2>2 DEF IsEarliest
  <2>4. i = 1
    BY <2>1, <2>2, <2>3 DEF Agree, IsSorted
  <2> QED
    BY <2>1, <2>2, <2>4
<1> QED
  BY <1>1, <1>2 DEF Begin

-----------------------------------------------------------------------------
(***************************************************************************)
(* What the operations do to an ordered list.                              *)
(***************************************************************************)
Uids(s) == {s[i].uid : i \in DOMAIN s}

\* Entries in order, no two of one uid.
InOrder(s) == /\ s \in Seq(Key)
              /\ \A i, j \in DOMAIN s : i < j => Less(s[i], s[j])
              /\ \A i, j \in DOMAIN s : s[i].uid = s[j].uid => i = j

\* Putting ev at place n, after smaller entries and before larger ones.
LEMMA InsertedAt ==
    ASSUME NEW s, InOrder(s), NEW ev \in Key, ev.uid \notin Uids(s),
           NEW n \in 1..(Len(s) + 1),
           \A i \in 1..(n - 1) : Less(s[i], ev),
           \A i \in n..Len(s) : Less(ev, s[i]),
           NEW t, t \in Seq(Key), Len(t) = Len(s) + 1,
           \A i \in 1..Len(t) :
              t[i] = IF i < n THEN s[i] ELSE IF i = n THEN ev ELSE s[i - 1]
    PROVE  InOrder(t) /\ Entries(t) = Entries(s) \cup {ev}
<1> USE DEF InOrder
<1>1. DOMAIN s = 1..Len(s) /\ DOMAIN t = 1..(Len(s) + 1) /\ Len(s) \in Nat
  OBVIOUS
<1>2. ASSUME NEW i \in DOMAIN t, NEW j \in DOMAIN t, i < j
      PROVE  Less(t[i], t[j])
  <2>1. CASE j < n
    BY <1>1, <1>2, <2>1
  <2>2. CASE j = n
    BY <1>1, <1>2, <2>2
  <2>3. CASE i < n /\ n < j
    <3>1. i \in DOMAIN s /\ j - 1 \in DOMAIN s /\ i < j - 1
      BY <1>1, <2>3
    <3> QED
      BY <1>1, <2>3, <3>1
  <2>4. CASE i = n
    BY <1>1, <1>2, <2>4
  <2>5. CASE n < i
    <3>1. i - 1 \in DOMAIN s /\ j - 1 \in DOMAIN s /\ i - 1 < j - 1
      BY <1>1, <1>2, <2>5
    <3> QED
      BY <1>1, <1>2, <2>5, <3>1
  <2> QED
    BY <1>1, <1>2, <2>1, <2>2, <2>3, <2>4, <2>5
<1>3. ASSUME NEW i \in DOMAIN t, NEW j \in DOMAIN t, t[i].uid = t[j].uid
      PROVE  i = j
  <2>1. \A k \in DOMAIN s : s[k].uid # ev.uid
    BY DEF Uids
  <2>2. \A k \in DOMAIN t : k < n => k \in DOMAIN s /\ t[k] = s[k]
    BY <1>1
  <2>3. \A k \in DOMAIN t : k > n => k - 1 \in DOMAIN s /\ t[k] = s[k - 1]
    BY <1>1
  <2>4. t[n] = ev /\ n \in DOMAIN t
    BY <1>1
  <2> QED
    BY <1>1, <1>3, <2>1, <2>2, <2>3, <2>4
<1>4. Entries(s) \cup {ev} \subseteq Entries(t)
  <2>1. \A k \in DOMAIN s : k < n => k \in DOMAIN t /\ t[k] = s[k]
    BY <1>1
  <2>2. \A k \in DOMAIN s : k >= n => k + 1 \in DOMAIN t /\ t[k + 1] = s[k]
    BY <1>1
  <2>3. t[n] = ev /\ n \in DOMAIN t
    BY <1>1
  <2> QED
    BY <1>1, <2>1, <2>2, <2>3 DEF Entries
<1>5. Entries(t) \subseteq Entries(s) \cup {ev}
  <2>1. \A k \in DOMAIN t : k < n => k \in DOMAIN s /\ t[k] = s[k]
    BY <1>1
  <2>2. \A k \in DOMAIN t : k > n => k - 1 \in DOMAIN s /\ t[k] = s[k - 1]
    BY <1>1
  <2>3. t[n] = ev
    BY <1>1
  <2> QED
    BY <1>1, <2>1, <2>2, <2>3 DEF Entries
<1> QED
  BY <1>2, <1>3, <1>4, <1>5

\* ListScheduler::Insert keeps the order and adds the one event.
LEMMA InsertKeepsOrder ==
    ASSUME NEW s, InOrder(s), NEW ev \in Key, ev.uid \notin Uids(s)
    PROVE  /\ InOrder(SortedInsert(s, ev))
           /\ Entries(SortedInsert(s, ev)) = Entries(s) \cup {ev}
<1> DEFINE later == {i \in DOMAIN s : Less(ev, s[i])}
           t == SortedInsert(s, ev)
<1>1. s \in Seq(Key) /\ DOMAIN s = 1..Len(s) /\ Len(s) \in Nat
  BY DEF InOrder
<1>2. \A i \in DOMAIN s : s[i] \in Key /\ (Less(ev, s[i]) \/ Less(s[i], ev))
  <2>1. \A i \in DOMAIN s : s[i] \in Key /\ s[i].uid # ev.uid
    BY <1>1 DEF Uids
  <2> QED
    BY <2>1, LessOrder
<1>3. CASE later = {}
  <2>1. t = Append(s, ev)
    BY <1>3 DEF SortedInsert
  <2>2. \A i \in 1..Len(s) : Less(s[i], ev)
    BY <1>1, <1>2, <1>3
  <2>3. /\ t \in Seq(Key) /\ Len(t) = Len(s) + 1
        /\ \A i \in 1..Len(t) : t[i] = IF i < Len(s) + 1 THEN s[i] ELSE ev
    BY <1>1, <2>1, AppendProperties
  <2> QED
    <3> DEFINE n == Len(s) + 1
    <3>1. /\ n \in 1..(Len(s) + 1) /\ \A i \in 1..(n - 1) : Less(s[i], ev)
          /\ \A i \in n..Len(s) : Less(ev, s[i])
      BY <1>1, <2>2
    <3>2. \A i \in 1..Len(t) :
            t[i] = IF i < n THEN s[i] ELSE IF i = n THEN ev ELSE s[i - 1]
      BY <1>1, <2>3
    <3>3. t \in Seq(Key) /\ Len(t) = Len(s) + 1
      BY <2>3
    <3> HIDE DEF n, t
    <3>4. InOrder(t) /\ Entries(t) = Entries(s) \cup {ev}
      BY <3>1, <3>2, <3>3, InsertedAt
    <3> QED
      BY <3>4 DEF t
<1>4. CASE later # {}
  <2> DEFINE n == Min(later)
  <2>1. n \in later /\ \A i \in later : n <= i
    <3>1. later \in SUBSET Nat
      BY <1>1
    <3> HIDE DEF later
    <3> QED
      BY <1>4, <3>1, MinIsLeast
  <2>2. t = SubSeq(s, 1, n - 1) \o <<ev>> \o SubSeq(s, n, Len(s))
    BY <1>4 DEF SortedInsert, SE!InsertAt
  <2>3. n \in 1..Len(s)
    BY <1>1, <2>1
  <2> HIDE DEF n
  <2>4. \A i \in 1..(n - 1) : Less(s[i], ev)
    <3>1. \A i \in 1..(n - 1) : i \in DOMAIN s /\ i \notin later
      BY <1>1, <2>1, <2>3
    <3> QED
      BY <1>2, <3>1
  <2>5. \A i \in n..Len(s) : Less(ev, s[i])
    <3>1. Less(ev, s[n]) /\ n \in DOMAIN s
      BY <2>1
    <3>2. \A i \in n..Len(s) : i # n => i \in DOMAIN s /\ Less(s[n], s[i])
      BY <1>1, <2>3, <3>1 DEF InOrder
    <3> QED
      BY <1>2, <3>1, <3>2, LessOrder
  <2> DEFINE a == SubSeq(s, 1, n - 1)
             c == SubSeq(s, n, Len(s))
  <2>6. /\ a \in Seq(Key) /\ Len(a) = n - 1
        /\ \A i \in 1..(n - 1) : a[i] = s[i]
    BY <1>1, <1>2, <2>3
  <2>7. /\ c \in Seq(Key) /\ Len(c) = Len(s) - n + 1
        /\ \A i \in 1..(Len(s) - n + 1) : c[i] = s[n + i - 1]
    BY <1>1, <1>2, <2>3
  <2> HIDE DEF a, c
  <2>8. /\ a \o <<ev>> \in Seq(Key) /\ Len(a \o <<ev>>) = n
        /\ \A i \in 1..n : (a \o <<ev>>)[i] = IF i < n THEN s[i] ELSE ev
    BY <2>3, <2>6
  <2> DEFINE b == a \o <<ev>>
  <2>9. /\ b \o c \in Seq(Key) /\ Len(b \o c) = Len(s) + 1
        /\ \A i \in 1..(Len(s) + 1) :
             (b \o c)[i] = IF i < n THEN s[i] ELSE IF i = n THEN ev ELSE s[i - 1]
    <3>1. b \in Seq(Key) /\ Len(b) = n
      BY <2>8
    <3>2. \A i \in 1..n : b[i] = IF i < n THEN s[i] ELSE ev
      BY <2>8
    <3> HIDE DEF b
    <3>3. /\ b \o c \in Seq(Key) /\ Len(b \o c) = Len(b) + Len(c)
          /\ \A i \in 1..(Len(b) + Len(c)) :
               (b \o c)[i] = IF i <= Len(b) THEN b[i] ELSE c[i - Len(b)]
      BY <2>7, <3>1, ConcatProperties
    <3>4. \A i \in 1..(Len(s) + 1) : i > n => c[i - n] = s[i - 1]
      BY <1>1, <2>3, <2>7
    <3>5. Len(b) + Len(c) = Len(s) + 1
      BY <1>1, <2>3, <2>7, <3>1
    <3> QED
      BY <1>1, <2>3, <3>1, <3>2, <3>3, <3>4, <3>5
  <2>10. t = b \o c
    BY <2>2 DEF a, c
  <2> HIDE DEF b, t
  <2>11. n \in 1..(Len(s) + 1)
    BY <1>1, <2>3
  <2>12. /\ t \in Seq(Key) /\ Len(t) = Len(s) + 1
         /\ \A i \in 1..Len(t) :
              t[i] = IF i < n THEN s[i] ELSE IF i = n THEN ev ELSE s[i - 1]
    BY <2>9, <2>10
  <2>13. InOrder(t) /\ Entries(t) = Entries(s) \cup {ev}
    BY <2>4, <2>5, <2>11, <2>12, InsertedAt
  <2> QED
    BY <2>13 DEF t
<1> QED
  BY <1>3, <1>4

\* Taking out the entry at place n.
LEMMA RemovedAt ==
    ASSUME NEW s, InOrder(s), NEW n \in DOMAIN s,
           NEW t, t \in Seq(Key), Len(t) = Len(s) - 1,
           \A i \in 1..Len(t) : t[i] = IF i < n THEN s[i] ELSE s[i + 1]
    PROVE  InOrder(t) /\ Entries(t) = Entries(s) \ {s[n]}
<1> USE DEF InOrder
<1> DEFINE from(i) == IF i < n THEN i ELSE i + 1
<1>1. /\ DOMAIN s = 1..Len(s) /\ Len(s) \in Nat /\ n \in 1..Len(s)
      /\ DOMAIN t = 1..(Len(s) - 1)
  OBVIOUS
<1>2. \A i \in DOMAIN t : from(i) \in DOMAIN s /\ from(i) # n /\ t[i] = s[from(i)]
  BY <1>1
<1>3. \A i, j \in DOMAIN t : i < j => from(i) < from(j)
  BY <1>1
<1>4. \A i, j \in DOMAIN t : from(i) = from(j) => i = j
  BY <1>1
<1>5. \A k \in DOMAIN s : k # n => \E i \in DOMAIN t : k = from(i)
  <2>1. ASSUME NEW k \in DOMAIN s, k # n
        PROVE  \E i \in DOMAIN t : k = from(i)
    <3>1. CASE k < n
      <4>1. k \in DOMAIN t /\ k = from(k)
        BY <1>1, <3>1
      <4> QED
        BY <4>1
    <3>2. CASE k > n
      <4>1. k - 1 \in DOMAIN t /\ k = from(k - 1)
        BY <1>1, <3>2
      <4> QED
        BY <4>1
    <3> QED
      BY <1>1, <2>1, <3>1, <3>2
  <2> QED
    BY <2>1
<1> HIDE DEF from
<1>6. \A i, j \in DOMAIN t : i < j => Less(t[i], t[j])
  BY <1>2, <1>3
<1>7. \A i, j \in DOMAIN t : t[i].uid = t[j].uid => i = j
  BY <1>2, <1>4
<1>8. Entries(t) \subseteq Entries(s) \ {s[n]}
  BY <1>2 DEF Entries
<1>9. Entries(s) \ {s[n]} \subseteq Entries(t)
  BY <1>2, <1>5 DEF Entries
<1> QED
  BY <1>6, <1>7, <1>8, <1>9

\* ListScheduler::RemoveNext takes the earliest event and leaves the others in
\* order.
LEMMA TailKeepsOrder ==
    ASSUME NEW s, InOrder(s), s # <<>>
    PROVE  /\ InOrder(Tail(s))
           /\ Entries(Tail(s)) = Entries(s) \ {Head(s)}
<1>1. /\ 1 \in DOMAIN s /\ Head(s) = s[1] /\ Tail(s) \in Seq(Key)
      /\ Len(Tail(s)) = Len(s) - 1
      /\ \A i \in 1..Len(Tail(s)) : Tail(s)[i] = s[i + 1]
  BY DEF InOrder
<1> DEFINE t == Tail(s)
<1>2. \A i \in 1..Len(t) : t[i] = IF i < 1 THEN s[i] ELSE s[i + 1]
  BY <1>1
<1>3. t \in Seq(Key) /\ Len(t) = Len(s) - 1
  BY <1>1
<1> HIDE DEF t
<1>4. InOrder(t) /\ Entries(t) = Entries(s) \ {s[1]}
  BY <1>1, <1>2, <1>3, RemovedAt
<1> QED
  BY <1>1, <1>4 DEF t

\* ListScheduler::Remove takes out the entry with the uid of the event, which
\* is that event, and leaves the others in order.
LEMMA RemoveKeepsOrder ==
    ASSUME NEW s, InOrder(s), NEW ev \in Entries(s)
    PROVE  /\ InOrder(SortedRemove(s, ev))
           /\ Entries(SortedRemove(s, ev)) = Entries(s) \ {ev}
<1>1. PICK n \in DOMAIN s : ev = s[n]
  BY DEF Entries
<1>2. s \in Seq(Key) /\ DOMAIN s = 1..Len(s) /\ Len(s) \in Nat
  BY DEF InOrder
<1>3. {i \in 1..Len(s) : s[i].uid = ev.uid} = {n}
  BY <1>1, <1>2 DEF InOrder
<1>4. SE!Min({n}) = n
  <2>1. n <= n
    BY <1>2
  <2> QED
    BY <2>1 DEF SE!Min
<1>5. \E i \in 1..Len(s) : s[i].uid = ev.uid
  BY <1>1, <1>2
<1> DEFINE a == SubSeq(s, 1, n - 1)
           c == SubSeq(s, n + 1, Len(s))
           t == SortedRemove(s, ev)
<1>6. t = a \o c
  BY <1>3, <1>4, <1>5
  DEF SortedRemove, SE!RemoveFirstMatch, SE!SelectInSeq, SE!RemoveAt
<1>7. \A i \in DOMAIN s : s[i] \in Key
  BY <1>2
<1>8. /\ a \in Seq(Key) /\ Len(a) = n - 1
      /\ \A i \in 1..(n - 1) : a[i] = s[i]
  BY <1>2, <1>7
<1>9. /\ c \in Seq(Key) /\ Len(c) = Len(s) - n
      /\ \A i \in 1..(Len(s) - n) : c[i] = s[n + i]
  BY <1>2, <1>7
<1> HIDE DEF a, c, t
<1>10. /\ a \o c \in Seq(Key) /\ Len(a \o c) = Len(a) + Len(c)
       /\ \A i \in 1..(Len(a) + Len(c)) :
            (a \o c)[i] = IF i <= Len(a) THEN a[i] ELSE c[i - Len(a)]
  BY <1>8, <1>9, ConcatProperties
<1>11. Len(a) + Len(c) = Len(s) - 1
  BY <1>2, <1>8, <1>9
<1>12. \A i \in 1..(Len(s) - 1) : i >= n => c[i - (n - 1)] = s[i + 1]
  <2>1. ASSUME NEW i \in 1..(Len(s) - 1), i >= n
        PROVE  c[i - (n - 1)] = s[i + 1]
    <3>1. i - (n - 1) \in 1..(Len(s) - n) /\ n + (i - (n - 1)) = i + 1
      BY <1>2, <2>1
    <3> QED
      BY <1>9, <3>1
  <2> QED
    BY <2>1
<1>13. /\ t \in Seq(Key) /\ Len(t) = Len(s) - 1
       /\ \A i \in 1..Len(t) : t[i] = IF i < n THEN s[i] ELSE s[i + 1]
  BY <1>2, <1>6, <1>8, <1>10, <1>11, <1>12
<1>14. InOrder(t) /\ Entries(t) = Entries(s) \ {s[n]}
  BY <1>13, RemovedAt
<1> QED
  BY <1>1, <1>14 DEF t
-----------------------------------------------------------------------------
LEMMA AgreeInOrder == Agree <=> /\ InOrder(list)
                                /\ last \in Key
                                /\ map = Entries(list)
  BY DEF Agree, InOrder, IsSorted

\* Every operation keeps the two lists in agreement.
LEMMA AgreeStep == Agree /\ [Next]_ovars => Agree'
<1> SUFFICES ASSUME Agree, [Next]_ovars
             PROVE  Agree'
  OBVIOUS
<1>1. InOrder(list) /\ last \in Key /\ map = Entries(list)
  BY AgreeInOrder
<1>2. ASSUME NEW ev \in Key, Insert(ev)
      PROVE  Agree'
  <2>1. ev.uid \notin Uids(list)
    BY <1>1, <1>2 DEF Insert, Uids, Entries
  <2>2. InOrder(list') /\ Entries(list') = Entries(list) \cup {ev}
    BY <1>1, <1>2, <2>1, InsertKeepsOrder DEF Insert
  <2>3. last' \in Key /\ map' = Entries(list')
    BY <1>1, <1>2, <2>2 DEF Insert
  <2> QED
    BY <2>2, <2>3 DEF Agree, InOrder, IsSorted
<1>3. CASE RemoveNext
  <2>1. InOrder(list') /\ Entries(list') = Entries(list) \ {Head(list)}
    BY <1>1, <1>3, TailKeepsOrder DEF RemoveNext
  <2>2. Head(list) = Begin(map) /\ Head(list) \in Key
    BY <1>3, FrontIsBegin, HeadEarliest DEF RemoveNext
  <2>3. last' \in Key /\ map' = Entries(list')
    BY <1>1, <1>3, <2>1, <2>2 DEF RemoveNext
  <2> QED
    BY <2>1, <2>3 DEF Agree, InOrder, IsSorted
<1>4. ASSUME NEW ev \in map, Remove(ev)
      PROVE  Agree'
  <2>1. InOrder(list') /\ Entries(list') = Entries(list) \ {ev}
    BY <1>1, <1>4, RemoveKeepsOrder DEF Remove
  <2>2. last' \in Key /\ map' = Entries(list')
    BY <1>1, <1>4, <2>1 DEF Remove
  <2> QED
    BY <2>1, <2>2 DEF Agree, InOrder, IsSorted
<1>5. CASE UNCHANGED ovars
  BY <1>5 DEF Agree, IsSorted, Entries, ovars
<1> QED
  BY <1>2, <1>3, <1>4, <1>5 DEF Next

LEMMA AgreeInit == Init => Agree
  BY DEF Init, Agree, IsSorted, Entries, Key

\* ListScheduler and MapScheduler hold the same events after the same calls.
THEOREM ListsAgree == Spec => []Agree
  BY AgreeInit, AgreeStep, PTL DEF Spec

\* Whichever of the two the program uses, the next event is the same.
THEOREM SameOrder == Spec => []SameNext
<1>1. Agree => SameNext
  BY FrontIsBegin DEF SameNext
<1> QED
  BY <1>1, ListsAgree, PTL

\* Both keep the contract of the event list: RemoveNext hands out the
\* earliest event of those inserted and not yet taken or removed.
THEOREM ImplementScheduler == Spec => Contract!Spec
<1>1. Init => Contract!Init
  BY DEF Init, Contract!Init
<1>2. Agree /\ [Next]_ovars => [Contract!Next]_(Contract!svars)
  <2> SUFFICES ASSUME Agree, [Next]_ovars
               PROVE  [Contract!Next]_(Contract!svars)
    OBVIOUS
  <2>1. ASSUME NEW ev \in Key, Insert(ev)
        PROVE  Contract!Insert
    <3>1. ev \notin map
      BY <2>1 DEF Insert
    <3> QED
      BY <2>1, <3>1 DEF Insert, Contract!Insert, Contract!Less, Less
  <2>2. CASE RemoveNext
    <3>1. /\ Head(list) = Begin(map) /\ IsEarliest(Head(list), map)
          /\ Head(list) \in Key /\ Head(list) \in map
      BY <2>2, FrontIsBegin, HeadEarliest DEF RemoveNext, Agree, IsEarliest
    <3>2. Head(list) = [ts |-> Head(list).ts, uid |-> Head(list).uid]
      BY <3>1 DEF Key
    <3>3. Contract!RemoveNext
      BY <2>2, <3>1, <3>2
         DEF RemoveNext, Contract!RemoveNext, Contract!IsEarliest, IsEarliest,
             Contract!Less, Less
    <3> QED
      BY <3>3 DEF Contract!Next
  <2>3. ASSUME NEW ev \in map, Remove(ev)
        PROVE  Contract!Remove
    BY <2>3 DEF Remove, Contract!Remove
  <2>4. CASE UNCHANGED ovars
    BY <2>4 DEF ovars, Contract!svars
  <2> QED
    BY <2>1, <2>2, <2>3, <2>4 DEF Next, Contract!Next
<1> QED
  BY <1>1, <1>2, ListsAgree, PTL DEF Spec, Contract!Spec
-----------------------------------------------------------------------------
(***************************************************************************)
(* HeapScheduler.                                                          *)
(***************************************************************************)

\* No two entries of one uid, in any order.
Proper(h) == /\ h \in Seq(Key)
             /\ \A i, j \in DOMAIN h : h[i].uid = h[j].uid => i = j

\* a need not come after b.
NotAfter(a, b) == ~Less(b, a)

\* A heap but for the element i, which may have to rise or to sink.
Dented(h, i, s) ==
    \A j \in 2..Len(h) :
        /\ (s = "up" /\ j # i) => NotAfter(h[Parent(j)], h[j])
        /\ (s = "down" /\ Parent(j) # i) => NotAfter(h[Parent(j)], h[j])
        /\ (Parent(j) = i /\ i # 1) => NotAfter(h[Parent(i)], h[j])

\* What holds whatever is removed.
HeapHolds ==
    /\ Proper(heap) /\ Entries(heap) = waiting
    /\ taken \in Key /\ index \in Nat \ {0}
    /\ sifting \in {"none", "up", "down"}
    /\ sifting = "up" => index \in DOMAIN heap

HeapOrder ==
    /\ sifting = "none" => IsHeap(heap)
    /\ sifting # "none" => Dented(heap, index, sifting)

\* NotAfter is a total order, and strict between events of different uids.
LEMMA NotAfterOrder ==
    ASSUME NEW a \in Key, NEW b \in Key, NEW c \in Key
    PROVE  /\ NotAfter(a, a)
           /\ Less(a, b) => NotAfter(a, b)
           /\ NotAfter(a, b) /\ NotAfter(b, c) => NotAfter(a, c)
           /\ a.uid # b.uid => (NotAfter(a, b) <=> Less(a, b))
  BY DEF Less, Key, NotAfter

\* The children of an element, in terms of their parent.
LEMMA Tree ==
    ASSUME NEW i \in Nat \ {0}, NEW n \in Nat
    PROVE  /\ \A j \in 2..n : Parent(j) = i <=> j \in {2 * i, 2 * i + 1}
           /\ \A j \in 2..n : Parent(j) = i => LeftChild(i) <= n
           /\ LeftChild(i) = 2 * i /\ RightChild(i) = 2 * i + 1
  BY DEF Parent, LeftChild, RightChild

\* An element other than the root has its parent before it.
LEMMA ParentOf ==
    ASSUME NEW n \in Nat, NEW j \in 2..n
    PROVE  Parent(j) \in 1..n /\ Parent(j) < j /\ j \in 1..n
  BY DEF Parent

\* What Exch puts where.
LEMMA ExchAt ==
    ASSUME NEW h, Proper(h), NEW a \in DOMAIN h, NEW b \in DOMAIN h
    PROVE  /\ Exch(h, a, b) \in Seq(Key) /\ Len(Exch(h, a, b)) = Len(h)
           /\ DOMAIN Exch(h, a, b) = DOMAIN h
           /\ Exch(h, a, b)[a] = h[b] /\ Exch(h, a, b)[b] = h[a]
           /\ \A k \in DOMAIN h : k # a /\ k # b => Exch(h, a, b)[k] = h[k]
  BY DEF Exch, Proper

\* Exch loses nothing and adds nothing.
LEMMA ExchHolds ==
    ASSUME NEW h, Proper(h), NEW a \in DOMAIN h, NEW b \in DOMAIN h
    PROVE  Proper(Exch(h, a, b)) /\ Entries(Exch(h, a, b)) = Entries(h)
<1> DEFINE g == Exch(h, a, b)
           back(k) == IF k = a THEN b ELSE IF k = b THEN a ELSE k
<1>1. \A k \in DOMAIN h : g[k] = h[back(k)] /\ back(k) \in DOMAIN h /\ back(back(k)) = k
  BY ExchAt
<1>2. g \in Seq(Key) /\ DOMAIN g = DOMAIN h
  BY ExchAt
<1> HIDE DEF g
<1>3. \A k \in DOMAIN h : g[back(k)] = h[k]
  BY <1>1
<1> HIDE DEF back
<1>4. Entries(g) = Entries(h)
  BY <1>1, <1>2, <1>3 DEF Entries
<1>5. \A i, j \in DOMAIN g : g[i].uid = g[j].uid => i = j
  <2> SUFFICES ASSUME NEW i \in DOMAIN g, NEW j \in DOMAIN g, g[i].uid = g[j].uid
               PROVE  i = j
    OBVIOUS
  <2>1. back(i) = back(j)
    BY <1>1, <1>2 DEF Proper
  <2> QED BY <2>1, <1>1, <1>2
<1> QED BY <1>2, <1>4, <1>5 DEF Proper, g

\* The last element in the place of i.
LEMMA PopExch ==
    ASSUME NEW h, Proper(h), NEW i \in DOMAIN h, NEW g, g = Pop(Exch(h, i, Len(h)))
    PROVE  /\ Proper(g) /\ Entries(g) = Entries(h) \ {h[i]}
           /\ Len(g) = Len(h) - 1 /\ DOMAIN g = 1..(Len(h) - 1)
           /\ \A k \in 1..(Len(h) - 1) : g[k] = IF k = i THEN h[Len(h)] ELSE h[k]
<1> DEFINE e == Exch(h, i, Len(h))
<1>0. PICK n : n = Len(h)
  OBVIOUS
<1>1. n \in Nat \ {0} /\ DOMAIN h = 1..n /\ n \in DOMAIN h /\ h \in Seq(Key)
  BY <1>0 DEF Proper
<1>2. /\ e \in Seq(Key) /\ Len(e) = n /\ e[i] = h[n] /\ e[n] = h[i]
      /\ \A k \in 1..n : k # i /\ k # n => e[k] = h[k]
  BY <1>0, <1>1, ExchAt
<1>3. Proper(e) /\ Entries(e) = Entries(h)
  BY <1>0, <1>1, ExchHolds
<1>4. g = SubSeq(e, 1, n - 1)
  BY <1>2 DEF Pop
<1> HIDE DEF e
<1>5. /\ g \in Seq(Key) /\ Len(g) = n - 1 /\ DOMAIN g = 1..(n - 1)
      /\ \A k \in 1..(n - 1) : g[k] = e[k]
  BY <1>1, <1>2, <1>4
<1>6. Proper(g)
  <2>1. \A k \in DOMAIN g : k \in DOMAIN e /\ g[k] = e[k]
    BY <1>1, <1>2, <1>5
  <2> QED BY <2>1, <1>3, <1>5 DEF Proper
<1>7. Entries(g) = Entries(e) \ {e[n]}
  <2>1. DOMAIN e = (1..(n - 1)) \cup {n} /\ n \notin 1..(n - 1)
    BY <1>1, <1>2
  <2>2. \A k \in 1..(n - 1) : e[k] # e[n]
    BY <2>1, <1>3 DEF Proper
  <2> QED BY <2>1, <2>2, <1>5 DEF Entries
<1>8. \A k \in 1..(n - 1) : g[k] = IF k = i THEN h[n] ELSE h[k]
  BY <1>1, <1>2, <1>5
<1> QED BY <1>0, <1>2, <1>3, <1>5, <1>6, <1>7, <1>8

\* Once around the loop of BottomUp.
LEMMA RiseKeeps ==
    ASSUME NEW h, Proper(h), NEW i \in DOMAIN h, Dented(h, i, "up")
    PROVE  /\ ~MayRise(h, i) => IsHeap(h)
           /\ MayRise(h, i) => /\ Parent(i) \in DOMAIN h
                               /\ Dented(Exch(h, i, Parent(i)), Parent(i), "up")
<1> DEFINE n == Len(h)
           p == Parent(i)
           g == Exch(h, i, p)
<1>1. /\ n \in Nat /\ DOMAIN h = 1..n /\ i \in 1..n /\ i \in Nat \ {0}
      /\ \A k \in 1..n : h[k] \in Key
  BY DEF Proper
<1>2. \A j \in 2..n : Parent(j) \in 1..n /\ Parent(j) < j /\ j \in 1..n
  BY <1>1, ParentOf
<1>3. ASSUME ~MayRise(h, i) PROVE IsHeap(h)
  BY <1>1, <1>3 DEF IsHeap, MayRise, Dented, NotAfter, IsLessStrictly
<1>4. ASSUME MayRise(h, i)
      PROVE  p \in 1..n /\ Dented(g, p, "up")
  <2>1. i \in 2..n /\ Less(h[i], h[p])
    BY <1>1, <1>4 DEF MayRise, IsLessStrictly
  <2>2. p \in 1..n /\ p < i
    BY <2>1, <1>2
  <2>3. /\ Len(g) = n /\ g[i] = h[p] /\ g[p] = h[i]
        /\ \A k \in 1..n : k # i /\ k # p => g[k] = h[k]
    BY <2>2, <1>1, ExchAt
  <2> HIDE DEF g
  <2>4. /\ \A j \in 2..n : j # i => NotAfter(h[Parent(j)], h[j])
        /\ \A j \in 2..n : Parent(j) = i => NotAfter(h[p], h[j])
    BY <2>1 DEF Dented
  <2>5. Parent(i) = p
    OBVIOUS
  <2> HIDE DEF p, n
  <2>6. ASSUME NEW j \in 2..n, j # p PROVE NotAfter(g[Parent(j)], g[j])
    <3>1. j \in 1..n /\ Parent(j) \in 1..n /\ Parent(j) < j
      BY <1>2
    <3>2. CASE j = i
      BY <3>2, <2>1, <2>2, <2>3, <2>5, <1>1, NotAfterOrder
    <3>3. CASE j # i /\ Parent(j) = i
      BY <3>1, <3>3, <2>3, <2>4, <2>6
    <3>4. CASE j # i /\ Parent(j) = p
      <4>1. g[j] = h[j] /\ g[Parent(j)] = h[i] /\ NotAfter(h[p], h[j])
        BY <3>1, <3>4, <2>3, <2>4, <2>6
      <4> QED BY <4>1, <3>1, <2>1, <2>2, <1>1, NotAfterOrder
    <3>5. CASE j # i /\ Parent(j) # i /\ Parent(j) # p
      BY <3>1, <3>5, <2>3, <2>4, <2>6
    <3> QED BY <3>2, <3>3, <3>4, <3>5
  <2>7. ASSUME NEW j \in 2..n, Parent(j) = p, p # 1
        PROVE  NotAfter(g[Parent(p)], g[j])
    <3>1. p \in 2..n /\ j \in 1..n /\ j # p
      BY <2>2, <2>7, <1>1, <1>2
    <3>2. Parent(p) \in 1..n /\ Parent(p) < p /\ Parent(p) # i
      BY <3>1, <2>1, <2>2, <1>2
    <3>3. g[Parent(p)] = h[Parent(p)] /\ NotAfter(h[Parent(p)], h[p])
      BY <3>1, <3>2, <2>2, <2>3, <2>4
    <3>4. CASE j = i
      BY <3>3, <3>4, <2>3
    <3>5. CASE j # i
      <4>1. g[j] = h[j] /\ NotAfter(h[p], h[j])
        BY <3>1, <3>5, <2>3, <2>4, <2>7
      <4> QED BY <4>1, <3>1, <3>2, <3>3, <2>2, <1>1, NotAfterOrder
    <3> QED BY <3>4, <3>5
  <2> QED BY <2>2, <2>3, <2>6, <2>7 DEF Dented
<1> QED BY <1>1, <1>3, <1>4

\* The child an element changes places with is the smaller.
LEMMA SmallerChild ==
    ASSUME NEW h, Proper(h), NEW i \in Nat \ {0}, LeftChild(i) <= Len(h)
    PROVE  /\ Child(h, i) \in 2..Len(h) /\ Parent(Child(h, i)) = i
           /\ \A j \in 2..Len(h) : Parent(j) = i => NotAfter(h[Child(h, i)], h[j])
<1> DEFINE n == Len(h)
           c == Child(h, i)
<1>1. n \in Nat /\ DOMAIN h = 1..n /\ \A k \in 1..n : h[k] \in Key
  BY DEF Proper
<1>2. LeftChild(i) = 2 * i /\ RightChild(i) = 2 * i + 1 /\ 2 * i <= n
  BY Tree
<1>3. \A j \in 2..n : Parent(j) = i <=> j \in {2 * i, 2 * i + 1}
  BY <1>1, Tree
<1>4. CASE 2 * i + 1 > n
  <2>1. c = 2 * i
    BY <1>2, <1>4 DEF Child
  <2>2. c \in 2..n /\ \A j \in 2..n : Parent(j) = i => j = c
    BY <2>1, <1>1, <1>2, <1>3, <1>4
  <2>3. NotAfter(h[c], h[c])
    BY <2>2, <1>1, NotAfterOrder
  <2> QED BY <2>1, <2>2, <2>3, <1>3
<1>5. CASE 2 * i + 1 <= n
  <2>1. c = IF Less(h[2 * i], h[2 * i + 1]) THEN 2 * i ELSE 2 * i + 1
    BY <1>1, <1>2, <1>5 DEF Child, Smallest, IsLessStrictly
  <2>2. 2 * i \in 2..n /\ 2 * i + 1 \in 2..n
    BY <1>1, <1>2, <1>5
  <2>3. h[2 * i] \in Key /\ h[2 * i + 1] \in Key
    BY <2>2, <1>1
  <2>4. NotAfter(h[c], h[2 * i]) /\ NotAfter(h[c], h[2 * i + 1])
    BY <2>1, <2>3, NotAfterOrder DEF NotAfter
  <2> QED BY <2>1, <2>2, <2>4, <1>3
<1> QED BY <1>1, <1>2, <1>4, <1>5

\* Once around the loop of TopDown.
LEMMA SinkKeeps ==
    ASSUME NEW h, Proper(h), NEW i \in Nat \ {0}, Dented(h, i, "down")
    PROVE  /\ ~MaySink(h, i) => IsHeap(h)
           /\ MaySink(h, i) =>
                /\ i \in DOMAIN h /\ Child(h, i) \in DOMAIN h
                /\ Dented(Exch(h, i, Child(h, i)), Child(h, i), "down")
<1> DEFINE n == Len(h)
           c == Child(h, i)
           g == Exch(h, i, c)
<1>1. n \in Nat /\ DOMAIN h = 1..n /\ \A k \in 1..n : h[k] \in Key
  BY DEF Proper
<1>2. \A j \in 2..n : Parent(j) \in 1..n /\ Parent(j) < j /\ j \in 1..n
  BY <1>1, ParentOf
<1>3. \A j \in 2..n : Parent(j) = i => LeftChild(i) <= n
  BY <1>1, Tree
<1>4. /\ \A j \in 2..n : Parent(j) # i => NotAfter(h[Parent(j)], h[j])
      /\ \A j \in 2..n : Parent(j) = i /\ i # 1 => NotAfter(h[Parent(i)], h[j])
  BY DEF Dented
<1>5. LeftChild(i) <= n => /\ c \in 2..n /\ Parent(c) = i
                           /\ \A j \in 2..n : Parent(j) = i => NotAfter(h[c], h[j])
  BY SmallerChild
<1>6. ASSUME ~MaySink(h, i) PROVE IsHeap(h)
  <2> SUFFICES ASSUME NEW j \in 2..n PROVE NotAfter(h[Parent(j)], h[j])
    BY DEF IsHeap, IsLessStrictly, NotAfter
  <2>1. CASE Parent(j) # i
    BY <2>1, <1>4
  <2>2. CASE Parent(j) = i
    <3>1. /\ c \in 2..n /\ Parent(c) = i /\ NotAfter(h[c], h[j])
          /\ Less(h[i], h[c])
      BY <2>2, <1>3, <1>5, <1>6 DEF MaySink, IsLessStrictly
    <3>2. i \in 1..n /\ c \in 1..n /\ j \in 1..n
      BY <3>1, <1>2
    <3> QED BY <2>2, <3>1, <3>2, <1>1, NotAfterOrder
  <2> QED BY <2>1, <2>2
<1>7. ASSUME MaySink(h, i)
      PROVE  i \in 1..n /\ c \in 1..n /\ Dented(g, c, "down")
  <2>1. /\ c \in 2..n /\ Parent(c) = i /\ ~Less(h[i], h[c])
        /\ \A j \in 2..n : Parent(j) = i => NotAfter(h[c], h[j])
    BY <1>5, <1>7 DEF MaySink, IsLessStrictly
  <2>2. i \in 1..n /\ c \in 1..n /\ i < c
    BY <2>1, <1>2
  <2>3. /\ Len(g) = n /\ g[i] = h[c] /\ g[c] = h[i]
        /\ \A k \in 1..n : k # i /\ k # c => g[k] = h[k]
    BY <2>2, <1>1, ExchAt
  <2>4. NotAfter(h[c], h[i])
    BY <2>1 DEF NotAfter
  <2> HIDE DEF g, c, n
  <2>5. ASSUME NEW j \in 2..n, Parent(j) # c PROVE NotAfter(g[Parent(j)], g[j])
    <3>1. j \in 1..n /\ Parent(j) \in 1..n /\ Parent(j) < j
      BY <1>2
    <3>2. CASE j = c
      BY <3>2, <2>1, <2>3, <2>4
    <3>3. CASE j = i
      <4>1. i # 1 /\ Parent(i) # i
        BY <3>1, <3>3, <2>2, <2>5
      <4>2. NotAfter(h[Parent(i)], h[c])
        BY <4>1, <2>1, <1>4
      <4> QED BY <4>1, <4>2, <3>1, <3>3, <2>3, <2>5
    <3>4. CASE j # c /\ j # i /\ Parent(j) = i
      BY <3>1, <3>4, <2>1, <2>3
    <3>5. CASE j # c /\ j # i /\ Parent(j) # i
      BY <3>1, <3>5, <2>3, <2>5, <1>4
    <3> QED BY <3>2, <3>3, <3>4, <3>5
  <2>6. ASSUME NEW j \in 2..n, Parent(j) = c
        PROVE  NotAfter(g[Parent(c)], g[j])
    <3>1. j \in 1..n /\ c < j /\ NotAfter(h[c], h[j])
      BY <2>2, <2>6, <1>2, <1>4
    <3> QED BY <3>1, <2>1, <2>2, <2>3
  <2> QED BY <2>2, <2>3, <2>5, <2>6 DEF Dented
<1> QED BY <1>1, <1>6, <1>7

\* The root of a heap is its earliest element: the first that were earlier
\* would have its parent in between.
LEMMA RootEarliest ==
    ASSUME NEW h, Proper(h), IsHeap(h), h # <<>>
    PROVE  h[1] \in Key /\ IsEarliest(h[1], Entries(h))
<1> DEFINE n == Len(h)
           S == {k \in 1..n : Less(h[k], h[1])}
<1>1. /\ n \in Nat \ {0} /\ DOMAIN h = 1..n /\ 1 \in 1..n
      /\ \A k \in 1..n : h[k] \in Key
  BY DEF Proper
<1>2. S = {}
  <2> SUFFICES ASSUME S # {} PROVE FALSE
    OBVIOUS
  <2>1. S \in SUBSET Nat
    BY <1>1
  <2> DEFINE m == Min(S)
  <2>2. m \in S /\ \A k \in S : m <= k
    BY <2>1, MinIsLeast
  <2> HIDE DEF m
  <2>3. m \in 1..n /\ Less(h[m], h[1])
    BY <2>2
  <2>4. m # 1
    BY <2>3, <1>1, LessOrder
  <2>5. m \in 2..n /\ Parent(m) \in 1..n /\ Parent(m) < m
    BY <2>3, <2>4, <1>1, ParentOf
  <2>6. NotAfter(h[1], h[Parent(m)])
    BY <2>2, <2>5 DEF NotAfter
  <2>7. NotAfter(h[Parent(m)], h[m])
    BY <2>5 DEF IsHeap, IsLessStrictly, NotAfter
  <2>8. NotAfter(h[1], h[m])
    BY <2>3, <2>5, <2>6, <2>7, <1>1, NotAfterOrder
  <2> QED BY <2>3, <2>8 DEF NotAfter
<1> QED BY <1>1, <1>2 DEF IsEarliest, Entries
-----------------------------------------------------------------------------
(* The steps. *)

\* The constructor leaves an empty heap.
LEMMA HeapStarts == HeapInit => HeapHolds /\ HeapOrder
<1> SUFFICES ASSUME HeapInit PROVE HeapHolds /\ HeapOrder
  OBVIOUS
<1>1. heap = <<>> /\ index = 1 /\ sifting = "none" /\ waiting = {} /\ taken \in Key
  BY DEF HeapInit, Key
<1>2. HeapHolds
  BY <1>1 DEF HeapHolds, Proper, Entries
<1>3. HeapOrder
  BY <1>1 DEF HeapOrder, IsHeap
<1> QED BY <1>2, <1>3

\* A new element at the end may have to rise.
LEMMA InsertEventKeeps ==
    ASSUME HeapHolds, NEW ev \in Key, InsertEvent(ev)
    PROVE  HeapHolds' /\ (HeapOrder => HeapOrder')
<1>1. PICK n : n = Len(heap)
  OBVIOUS
<1>2. /\ n \in Nat /\ DOMAIN heap = 1..n /\ heap \in Seq(Key)
      /\ \A k \in 1..n : heap[k] \in Key
  BY <1>1 DEF HeapHolds, Proper
<1>3. /\ heap' = Append(heap, ev) /\ index' = n + 1 /\ sifting' = "up"
      /\ sifting = "none" /\ waiting' = waiting \cup {ev} /\ taken' = taken
      /\ \A f \in waiting : f.uid # ev.uid
  BY <1>1 DEF InsertEvent
<1>4. /\ heap' \in Seq(Key) /\ Len(heap') = n + 1 /\ DOMAIN heap' = 1..(n + 1)
      /\ heap'[n + 1] = ev /\ \A k \in 1..n : heap'[k] = heap[k]
  BY <1>1, <1>2, <1>3
<1>5. \A k \in 1..n : heap[k].uid # ev.uid
  BY <1>2, <1>3 DEF HeapHolds, Entries
<1>6. \A k \in 1..(n + 1) : k \in 1..n \/ k = n + 1
  BY <1>2
<1>7. Proper(heap')
  <2>1. \A i, j \in 1..n : heap[i].uid = heap[j].uid => i = j
    BY <1>2 DEF HeapHolds, Proper
  <2> QED BY <2>1, <1>4, <1>5, <1>6 DEF Proper
<1>8. Entries(heap') = waiting'
  <2>1. Entries(heap') = Entries(heap) \cup {ev}
    BY <1>2, <1>4, <1>6 DEF Entries
  <2> QED BY <2>1, <1>3 DEF HeapHolds
<1>9. HeapHolds'
  BY <1>2, <1>3, <1>4, <1>7, <1>8 DEF HeapHolds
<1>10. ASSUME HeapOrder PROVE HeapOrder'
  <2>1. IsHeap(heap)
    BY <1>3, <1>10 DEF HeapOrder
  <2>2. ASSUME NEW j \in 2..(n + 1), j # n + 1
        PROVE  NotAfter(heap'[Parent(j)], heap'[j])
    <3>1. j \in 2..n /\ j \in 1..n
      BY <2>2, <1>2
    <3>2. Parent(j) \in 1..n
      BY <3>1, <1>2, ParentOf
    <3> QED BY <2>1, <3>1, <3>2, <1>1, <1>4 DEF IsHeap, IsLessStrictly, NotAfter
  <2>3. \A j \in 2..(n + 1) : Parent(j) # n + 1
    BY <1>2, ParentOf
  <2>4. Dented(heap', n + 1, "up")
    BY <2>2, <2>3, <1>4 DEF Dented
  <2> QED BY <2>4, <1>3 DEF HeapOrder
<1> QED BY <1>9, <1>10

\* The last element in the place of one that goes.
LEMMA TakenOut ==
    ASSUME HeapHolds, NEW i \in DOMAIN heap, heap' = Pop(Exch(heap, i, Len(heap))),
           index' = i, sifting = "none", sifting' = "down",
           waiting' = waiting \ {heap[i]}, taken' \in Key
    PROVE  HeapHolds' /\ (HeapOrder /\ ~MustRise(i) => HeapOrder')
<1>1. PICK n : n = Len(heap)
  OBVIOUS
<1>2. /\ n \in Nat \ {0} /\ DOMAIN heap = 1..n /\ Proper(heap) /\ i \in 1..n
      /\ \A k \in 1..n : heap[k] \in Key
  BY <1>1 DEF HeapHolds, Proper
<1>3. /\ Proper(heap') /\ Entries(heap') = Entries(heap) \ {heap[i]}
      /\ Len(heap') = n - 1
      /\ \A k \in 1..(n - 1) : heap'[k] = IF k = i THEN heap[n] ELSE heap[k]
  BY <1>1, <1>2, PopExch
<1>4. HeapHolds'
  BY <1>2, <1>3 DEF HeapHolds
<1>5. ASSUME HeapOrder, ~MustRise(i) PROVE HeapOrder'
  <2>1. \A j \in 2..n : NotAfter(heap[Parent(j)], heap[j])
    BY <1>1, <1>5 DEF HeapOrder, IsHeap, IsLessStrictly, NotAfter
  <2>2. i # 1 /\ i # n => NotAfter(heap[Parent(i)], heap[n])
    BY <1>1, <1>5 DEF MustRise, NotAfter
  <2>3. ASSUME NEW j \in 2..(n - 1)
        PROVE  /\ Parent(j) # i => NotAfter(heap'[Parent(j)], heap'[j])
               /\ Parent(j) = i /\ i # 1 => NotAfter(heap'[Parent(i)], heap'[j])
    <3>1. n - 1 \in Nat /\ j \in 2..n /\ n # j
      BY <1>2
    <3>2. Parent(j) \in 1..(n - 1) /\ Parent(j) < j /\ j \in 1..(n - 1)
      BY <3>1, ParentOf
    <3>3. NotAfter(heap[Parent(j)], heap[j])
      BY <2>1, <3>1
    <3>4. CASE Parent(j) # i /\ j # i
      BY <3>2, <3>3, <3>4, <1>3
    <3>5. CASE j = i
      BY <2>2, <3>1, <3>2, <3>5, <1>3
    <3>6. CASE Parent(j) = i /\ i # 1
      <4>1. i \in 2..n /\ j # i /\ i \in 2..(n - 1)
        BY <3>2, <3>6, <1>2
      <4>2. Parent(i) \in 1..(n - 1) /\ Parent(i) < i
        BY <4>1, <3>1, ParentOf
      <4>3. NotAfter(heap[Parent(i)], heap[i])
        BY <2>1, <4>1
      <4>4. heap'[Parent(i)] = heap[Parent(i)] /\ heap'[j] = heap[j]
        BY <3>2, <4>1, <4>2, <1>3
      <4>5. Parent(i) \in 1..n /\ j \in 1..n
        BY <3>1, <4>2, <1>2
      <4>6. NotAfter(heap[Parent(i)], heap[j])
        BY <3>3, <3>6, <4>3, <4>5, <1>2, NotAfterOrder
      <4> QED BY <3>6, <4>4, <4>6
    <3> QED BY <3>2, <3>4, <3>5, <3>6
  <2>4. Dented(heap', i, "down")
    BY <2>3, <1>3 DEF Dented
  <2> QED BY <2>4 DEF HeapOrder
<1> QED BY <1>4, <1>5

\* Every step keeps what holds, and the order but for Remove.
LEMMA HeapKept ==
    ASSUME HeapHolds, [HeapNext]_hvars
    PROVE  HeapHolds' /\ (HeapOrder /\ [NoneMustRise]_hvars => HeapOrder')
<1>1. ASSUME NEW ts \in Nat, NEW uid \in Nat, InsertEvent([ts |-> ts, uid |-> uid])
      PROVE  HeapHolds' /\ (HeapOrder => HeapOrder')
  <2>1. [ts |-> ts, uid |-> uid] \in Key
    BY DEF Key
  <2> QED BY <1>1, <2>1, InsertEventKeeps
<1>2. CASE TakeRoot
  <2>1. 1 \in DOMAIN heap /\ heap[1] \in Key
    BY <1>2 DEF TakeRoot, HeapHolds, Proper
  <2>2. ~MustRise(1)
    BY DEF MustRise
  <2> QED BY <2>1, <2>2, <1>2, TakenOut DEF TakeRoot
<1>3. ASSUME NEW i \in DOMAIN heap, RemoveAt(i)
      PROVE  HeapHolds' /\ (HeapOrder /\ [NoneMustRise]_hvars => HeapOrder')
  <2>1. taken' \in Key
    BY <1>3 DEF RemoveAt, HeapHolds
  <2>2. HeapHolds' /\ (HeapOrder /\ ~MustRise(i) => HeapOrder')
    BY <1>3, <2>1, TakenOut DEF RemoveAt
  <2>3. sifting' # sifting
    BY <1>3 DEF RemoveAt
  <2>4. [NoneMustRise]_hvars => ~MustRise(i)
    BY <1>3, <2>3 DEF NoneMustRise, hvars
  <2> QED BY <2>2, <2>4
<1>4. CASE Rise
  <2>1. /\ Proper(heap) /\ index \in DOMAIN heap /\ index \in Nat \ {0}
        /\ HeapOrder => Dented(heap, index, "up")
    BY <1>4 DEF Rise, HeapHolds, HeapOrder
  <2>2. CASE MayRise(heap, index)
    <3>1. /\ heap' = Exch(heap, index, Parent(index)) /\ index' = Parent(index)
          /\ UNCHANGED <<sifting, taken, waiting>> /\ sifting = "up"
      BY <1>4, <2>2 DEF Rise
    <3>2. Parent(index) \in DOMAIN heap /\ Parent(index) \in Nat \ {0}
      <4>1. DOMAIN heap = 1..Len(heap) /\ Len(heap) \in Nat
        BY <2>1 DEF Proper
      <4>2. index \in 2..Len(heap)
        BY <2>1, <2>2, <4>1 DEF MayRise
      <4> QED BY <4>1, <4>2, ParentOf
    <3>3. Proper(heap') /\ Entries(heap') = Entries(heap) /\ DOMAIN heap' = DOMAIN heap
      BY <2>1, <3>1, <3>2, ExchHolds, ExchAt
    <3>4. HeapHolds'
      BY <3>1, <3>2, <3>3 DEF HeapHolds
    <3>5. HeapOrder => Dented(heap', Parent(index), "up")
      BY <2>1, <2>2, <3>1, RiseKeeps
    <3>6. HeapOrder => HeapOrder'
      BY <3>1, <3>5 DEF HeapOrder
    <3> QED BY <3>4, <3>6
  <2>3. CASE ~MayRise(heap, index)
    <3>1. sifting' = "none" /\ UNCHANGED <<heap, index, taken, waiting>>
      BY <1>4, <2>3 DEF Rise
    <3>2. HeapHolds'
      BY <3>1 DEF HeapHolds
    <3>3. HeapOrder => IsHeap(heap)
      BY <2>1, <2>3, RiseKeeps
    <3>4. HeapOrder => HeapOrder'
      BY <3>1, <3>3 DEF HeapOrder
    <3> QED BY <3>2, <3>4
  <2> QED BY <2>2, <2>3
<1>5. CASE Sink
  <2>1. /\ Proper(heap) /\ index \in Nat \ {0}
        /\ HeapOrder => Dented(heap, index, "down")
    BY <1>5 DEF Sink, HeapHolds, HeapOrder
  <2>2. CASE MaySink(heap, index)
    <3>1. /\ heap' = Exch(heap, index, Child(heap, index))
          /\ index' = Child(heap, index)
          /\ UNCHANGED <<sifting, taken, waiting>> /\ sifting = "down"
      BY <1>5, <2>2 DEF Sink
    <3>2. /\ index \in DOMAIN heap
          /\ Child(heap, index) \in DOMAIN heap /\ Child(heap, index) \in Nat \ {0}
      <4>1. DOMAIN heap = 1..Len(heap) /\ Len(heap) \in Nat
        BY <2>1 DEF Proper
      <4>2. LeftChild(index) <= Len(heap)
        BY <2>2 DEF MaySink
      <4>3. Child(heap, index) \in 2..Len(heap) /\ Parent(Child(heap, index)) = index
        BY <2>1, <4>2, SmallerChild
      <4> QED BY <4>1, <4>3, ParentOf
    <3>3. Proper(heap') /\ Entries(heap') = Entries(heap)
      BY <2>1, <3>1, <3>2, ExchHolds
    <3>4. HeapHolds'
      BY <3>1, <3>2, <3>3 DEF HeapHolds
    <3>5. HeapOrder => Dented(heap', Child(heap, index), "down")
      BY <2>1, <2>2, <3>1, SinkKeeps
    <3>6. HeapOrder => HeapOrder'
      BY <3>1, <3>5 DEF HeapOrder
    <3> QED BY <3>4, <3>6
  <2>3. CASE ~MaySink(heap, index)
    <3>1. sifting' = "none" /\ UNCHANGED <<heap, index, taken, waiting>>
      BY <1>5, <2>3 DEF Sink
    <3>2. HeapHolds'
      BY <3>1 DEF HeapHolds
    <3>3. HeapOrder => IsHeap(heap)
      BY <2>1, <2>3, SinkKeeps
    <3>4. HeapOrder => HeapOrder'
      BY <3>1, <3>3 DEF HeapOrder
    <3> QED BY <3>2, <3>4
  <2> QED BY <2>2, <2>3
<1>6. CASE UNCHANGED hvars
  BY <1>6 DEF hvars, HeapHolds, HeapOrder
<1> QED BY <1>1, <1>2, <1>3, <1>4, <1>5, <1>6 DEF HeapNext

\* What is in the vector, along every behaviour.
LEMMA HeapHoldsAlways == HeapSpec => []HeapHolds
<1>1. HeapHolds /\ [HeapNext]_hvars => HeapHolds'
  BY HeapKept
<1> QED BY <1>1, HeapStarts, PTL DEF HeapSpec

\* Whatever is inserted, taken and removed, and in the middle of a loop as well:
\* the heap loses no event, invents none and holds none twice.
THEOREM HeapConserves == HeapSpec => []HoldsWaiting
<1>1. HeapHolds => HoldsWaiting
  BY DEF HeapHolds, HoldsWaiting, Proper, Entries
<1> QED BY <1>1, HeapHoldsAlways, PTL

\* With the order, while Remove does not break it.
LEMMA HeapAlways ==
    HeapSpec /\ [][NoneMustRise]_hvars => [](HeapHolds /\ HeapOrder)
<1>1. /\ HeapHolds /\ HeapOrder /\ [HeapNext]_hvars /\ [NoneMustRise]_hvars
      => HeapHolds' /\ HeapOrder'
  BY HeapKept
<1> QED BY <1>1, HeapStarts, PTL DEF HeapSpec

\* Between two calls the vector is a heap, as long as no removal moves an
\* element that would have to rise.
THEOREM HeapStaysOne ==
    HeapSpec /\ [][NoneMustRise]_hvars => []RestsOrdered
<1>1. HeapOrder => RestsOrdered
  BY DEF HeapOrder, RestsOrdered
<1> QED BY <1>1, HeapAlways, PTL

\* The heap keeps the contract of the event list, RemoveNext hands out the
\* earliest event, as long as no removal moves an element that would have to
\* rise: what the code leaves out in Remove is all that is missing.
THEOREM HeapImplementsScheduler ==
    HeapSpec /\ [][NoneMustRise]_hvars => HeapContract!Spec
<1>1. HeapInit => HeapContract!Init
  BY DEF HeapInit, HeapContract!Init
<1>2. HeapHolds /\ HeapOrder /\ [HeapNext]_hvars
      => [HeapContract!Next]_(HeapContract!svars)
  <2> SUFFICES ASSUME HeapHolds, HeapOrder, [HeapNext]_hvars
               PROVE  [HeapContract!Next]_(HeapContract!svars)
    OBVIOUS
  <2>1. ASSUME NEW ts \in Nat, NEW uid \in Nat,
               InsertEvent([ts |-> ts, uid |-> uid])
        PROVE  HeapContract!Insert
    <3> DEFINE ev == [ts |-> ts, uid |-> uid]
    <3>1. /\ waiting' = waiting \cup {ev} /\ Less(taken, ev) /\ taken' = taken
          /\ \A f \in waiting : f.uid # ev.uid
      BY <2>1 DEF InsertEvent
    <3> HIDE DEF ev
    <3>2. ev \in waiting' \ waiting
      BY <3>1
    <3> QED BY <3>1, <3>2 DEF HeapContract!Insert, HeapContract!Less, Less
  <2>2. CASE TakeRoot
    <3>1. IsHeap(heap) /\ heap # <<>> /\ Proper(heap)
      BY <2>2 DEF TakeRoot, HeapOrder, HeapHolds
    <3>2. heap[1] \in Key /\ IsEarliest(heap[1], waiting)
      BY <3>1, RootEarliest DEF HeapHolds
    <3>3. heap[1] = [ts |-> heap[1].ts, uid |-> heap[1].uid]
      BY <3>2 DEF Key
    <3>4. waiting' = waiting \ {heap[1]} /\ taken' = heap[1]
      BY <2>2 DEF TakeRoot
    <3> QED BY <3>2, <3>3, <3>4
            DEF HeapContract!Next, HeapContract!RemoveNext,
                HeapContract!IsEarliest, IsEarliest, HeapContract!Less, Less
  <2>3. ASSUME NEW i \in DOMAIN heap, RemoveAt(i)
        PROVE  HeapContract!Remove
    <3>1. heap[i] \in waiting
      BY DEF HeapHolds, Entries
    <3> QED BY <2>3, <3>1 DEF RemoveAt, HeapContract!Remove
  <2>4. CASE Rise \/ Sink \/ UNCHANGED hvars
    BY <2>4 DEF Rise, Sink, hvars, HeapContract!svars
  <2> QED BY <2>1, <2>2, <2>3, <2>4 DEF HeapNext, HeapContract!Next
<1> QED BY <1>1, <1>2, HeapAlways, PTL DEF HeapSpec, HeapContract!Spec
-----------------------------------------------------------------------------
(***************************************************************************)
(* CalendarScheduler.                                                      *)
(***************************************************************************)

\* What division and remainder are.
LEMMA DivMod ==
    ASSUME NEW a \in Nat, NEW n \in Nat \ {0}
    PROVE  /\ a \div n \in Nat /\ a % n \in 0..(n - 1)
           /\ a = n * (a \div n) + (a % n)
  OBVIOUS

\* Quotient and remainder are the only ones.
LEMMA ModIs ==
    ASSUME NEW a \in Nat, NEW n \in Nat \ {0}, NEW q \in Int, NEW r \in 0..(n - 1),
           a = n * q + r
    PROVE  a % n = r /\ a \div n = q
  OBVIOUS

\* A multiple below zero is at least n below.
LEMMA TimesBelow ==
    ASSUME NEW n \in Nat \ {0}, NEW x \in Int, x < 0
    PROVE  n * x <= 0 - n
  OBVIOUS

\* Whether a tick is before the end of a day.
LEMMA DivBelow ==
    ASSUME NEW a \in Nat, NEW n \in Nat \ {0}, NEW d \in Nat
    PROVE  a \div n <= d <=> a < (d + 1) * n
  OBVIOUS

\* A later tick is not of an earlier day.
LEMMA DivMono ==
    ASSUME NEW a \in Nat, NEW b \in Nat, NEW n \in Nat \ {0}, a <= b
    PROVE  a \div n <= b \div n
  OBVIOUS

\* An event of a later day is not less.
LEMMA DayLater ==
    ASSUME NEW e, NEW f, e.ts \in Nat, f.ts \in Nat, NEW w \in Nat \ {0},
           NEW d \in Nat, e.ts \div w = d, d < f.ts \div w
    PROVE  ~Less(f, e)
<1>1. f.ts \div w \in Nat
  BY DivMod
<1>2. ~(f.ts <= e.ts)
  <2>1. f.ts <= e.ts => f.ts \div w <= e.ts \div w
    BY DivMono
  <2> QED BY <1>1, <2>1
<1> QED BY <1>2 DEF Less

\* The search comes to every bucket.
LEMMA EveryBucket ==
    ASSUME NEW n \in Nat \ {0}, NEW l \in 0..(n - 1), NEW i \in 0..(n - 1)
    PROVE  \E k \in 0..(n - 1) : (l + k) % n = i
<1>1. CASE l <= i
  <2>1. i - l \in 0..(n - 1) /\ l + (i - l) = n * 0 + i
    BY <1>1
  <2>2. (l + (i - l)) % n = i
    BY <2>1, ModIs
  <2> QED BY <2>1, <2>2
<1>2. CASE i < l
  <2>1. i - l + n \in 0..(n - 1) /\ l + (i - l + n) = n * 1 + i
    BY <1>2
  <2>2. (l + (i - l + n)) % n = i
    BY <2>1, ModIs
  <2> QED BY <2>1, <2>2
<1> QED BY <1>1, <1>2

\* An event in the bucket the search comes to after k steps is k days away, or
\* a round more.
LEMMA NotBefore ==
    ASSUME NEW n \in Nat \ {0}, NEW d \in Nat, NEW e \in Nat, d <= e,
           NEW k \in 0..(n - 1), e % n = ((d % n) + k) % n
    PROVE  d + k <= e /\ (e # d + k => d + k + n <= e)
<1>1. /\ d \div n \in Nat /\ d % n \in 0..(n - 1) /\ d = n * (d \div n) + (d % n)
      /\ e \div n \in Nat /\ e % n \in 0..(n - 1) /\ e = n * (e \div n) + (e % n)
  BY DivMod
<1>2. PICK r, q : r = (d % n) + k /\ q = r \div n
  OBVIOUS
<1>3. r \in Nat /\ q \in Nat /\ r = n * q + (e % n)
  <2>1. r \in Nat /\ e % n = r % n
    BY <1>1, <1>2
  <2> QED BY <1>2, <2>1, DivMod
<1>4. PICK p, o : p = e \div n /\ o = d \div n
  OBVIOUS
<1>5. PICK x : x = p - o - q
  OBVIOUS
<1>6. x \in Int /\ p \in Nat /\ o \in Nat
  BY <1>1, <1>3, <1>4, <1>5
<1>7. e - (d + k) = n * x
  <2>1. n * p = n * o + n * q + n * x
    BY <1>3, <1>5, <1>6
  <2>2. n * p \in Int /\ n * o \in Int /\ n * q \in Int /\ n * x \in Int
    BY <1>3, <1>6
  <2>3. e = n * p + (e % n) /\ d = n * o + (d % n)
    BY <1>1, <1>4
  <2> QED BY <1>1, <1>2, <1>3, <2>1, <2>2, <2>3
<1>8. CASE x < 0
  <2>1. n * x <= 0 - n /\ n * x \in Int
    BY <1>6, <1>8, TimesBelow
  <2> QED BY <1>7, <2>1
<1>9. CASE x >= 0
  <2>1. n * x \in Int /\ (x = 0 => n * x = 0) /\ (x # 0 => n * x >= n)
    BY <1>6, <1>9
  <2> QED BY <1>3, <1>7, <1>9, <2>1
<1> QED BY <1>6, <1>8, <1>9

\* A non-empty set of keys, no two of one uid, has an earliest, which Begin finds.
LEMMA BeginEarliest ==
    ASSUME NEW S \in SUBSET Key, S # {}
    PROVE  Begin(S) \in S /\ IsEarliest(Begin(S), S)
<1> DEFINE Ts == {ev.ts : ev \in S}
           Uid == {ev.uid : ev \in {f \in S : f.ts = Min(Ts)}}
<1>1. Ts \in SUBSET Nat /\ Ts # {}
  BY DEF Key
<1>2. Min(Ts) \in Ts /\ \A t \in Ts : Min(Ts) <= t
  <2> HIDE DEF Ts
  <2> QED BY <1>1, MinIsLeast
<1>3. Uid \in SUBSET Nat /\ Uid # {}
  BY <1>2 DEF Key
<1>4. Min(Uid) \in Uid /\ \A u \in Uid : Min(Uid) <= u
  <2> HIDE DEF Uid
  <2> QED BY <1>3, MinIsLeast
<1>5. PICK ev \in S : ev.ts = Min(Ts) /\ ev.uid = Min(Uid)
  BY <1>4
<1>6. ASSUME NEW f \in S PROVE ~Less(f, ev)
  <2>1. f.ts \in Ts /\ f.ts \in Nat /\ f.uid \in Nat /\ ev.ts \in Nat /\ ev.uid \in Nat
    BY DEF Key
  <2>2. ev.ts <= f.ts
    BY <1>2, <1>5, <2>1
  <2>3. f.ts = ev.ts => ev.uid <= f.uid
    BY <1>4, <1>5
  <2> QED BY <2>1, <2>2, <2>3 DEF Less
<1>7. IsEarliest(ev, S)
  BY <1>6 DEF IsEarliest
<1>8. IsEarliest(Begin(S), S)
  BY <1>7 DEF Begin
<1> QED BY <1>8 DEF IsEarliest
-----------------------------------------------------------------------------
\* A calendar of n buckets.
IsCal(c, n) ==
    /\ n \in Nat \ {0}
    /\ c \in [buckets : [0..(n - 1) -> Seq(Key)], width : Nat \ {0}, lastPrio : Nat,
              lastBucket : 0..(n - 1), bucketTop : Nat, qSize : Nat]

\* Each bucket holds those events of S that are due on its days, in order.
Dealt(c, n, S) ==
    /\ IsCal(c, n) /\ S \in SUBSET Key
    /\ \A i \in 0..(n - 1) :
          /\ InOrder(c.buckets[i])
          /\ Entries(c.buckets[i]) = {ev \in S : Hash(c, ev.ts) = i}

\* The search starts at the day of lastPrio.
Today(c) == /\ c.lastBucket = Hash(c, c.lastPrio)
            /\ c.bucketTop = Day(c, c.lastPrio)

NoneBefore(S, ts) == \A ev \in S : ts <= ev.ts

UidsDiffer(S) == \A e, f \in S : e.uid = f.uid => e = f

\* The buckets are counted right, and every time stamp has one.
LEMMA BucketCount ==
    ASSUME NEW n, NEW c, IsCal(c, n)
    PROVE  /\ NBuckets(c) = n
           /\ \A ts \in Nat : /\ Hash(c, ts) = (ts \div c.width) % n
                              /\ Hash(c, ts) \in 0..(n - 1)
           /\ \A ts \in Nat : Day(c, ts) \in Nat
<1>1. /\ n \in Nat \ {0} /\ DOMAIN c.buckets = 0..(n - 1) /\ c.width \in Nat \ {0}
  BY DEF IsCal
<1>2. Cardinality(0..(n - 1)) = n
  BY <1>1, FS_Interval
<1>3. NBuckets(c) = n
  BY <1>1, <1>2 DEF NBuckets
<1>4. ASSUME NEW ts \in Nat
      PROVE  /\ Hash(c, ts) = (ts \div c.width) % n /\ Hash(c, ts) \in 0..(n - 1)
             /\ Day(c, ts) \in Nat
  <2>1. ts \div c.width \in Nat
    BY <1>1, DivMod
  <2>2. (ts \div c.width) % n \in 0..(n - 1)
    BY <1>1, <2>1, DivMod
  <2>3. (ts \div c.width + 1) * c.width \in Nat
    BY <1>1, <2>1
  <2> QED BY <1>3, <2>2, <2>3 DEF Hash, Day
<1> QED BY <1>3, <1>4

\* Where two ordered lists begin to differ, the one that holds the other's
\* entries has a smaller entry there.
LEMMA SmallerThere ==
    ASSUME NEW s, InOrder(s), NEW t, InOrder(t), Entries(s) \in SUBSET Entries(t),
           NEW m \in DOMAIN s,
           \A k \in 1..(m - 1) : k \in DOMAIN s /\ k \in DOMAIN t /\ s[k] = t[k],
           ~(m \in DOMAIN t /\ s[m] = t[m])
    PROVE  m \in DOMAIN t /\ Less(t[m], s[m])
<1>1. PICK j \in DOMAIN t : t[j] = s[m]
  BY DEF Entries
<1>2. /\ s \in Seq(Key) /\ t \in Seq(Key) /\ DOMAIN t = 1..Len(t) /\ Len(t) \in Nat
      /\ DOMAIN s = 1..Len(s) /\ Len(s) \in Nat /\ m \in Nat \ {0} /\ j \in Nat \ {0}
  BY DEF InOrder
<1>3. j # m
  BY <1>1
<1>4. ~(j < m)
  <2> SUFFICES ASSUME j < m PROVE FALSE
    OBVIOUS
  <2>1. j \in 1..(m - 1)
    BY <1>2
  <2>2. s[j] = s[m] /\ j \in DOMAIN s
    BY <1>1, <2>1
  <2> QED BY <1>2, <2>2 DEF InOrder
<1>5. m < j /\ m \in DOMAIN t
  BY <1>2, <1>3, <1>4
<1>6. Less(t[m], t[j])
  BY <1>5 DEF InOrder
<1> QED BY <1>1, <1>5, <1>6

\* An ordered list is made out by what it holds.
LEMMA SameList ==
    ASSUME NEW s, InOrder(s), NEW t, InOrder(t), Entries(s) = Entries(t)
    PROVE  s = t
<1> DEFINE Differ(k) == ~(k \in DOMAIN s /\ k \in DOMAIN t /\ s[k] = t[k])
           D == {k \in DOMAIN s \cup DOMAIN t : Differ(k)}
<1>1. /\ s \in Seq(Key) /\ t \in Seq(Key) /\ DOMAIN t = 1..Len(t) /\ Len(t) \in Nat
      /\ DOMAIN s = 1..Len(s) /\ Len(s) \in Nat
  BY DEF InOrder
<1>2. CASE D = {}
  <2>1. DOMAIN s = DOMAIN t /\ \A k \in DOMAIN s : s[k] = t[k]
    BY <1>2
  <2>2. Len(s) = Len(t)
    <3>1. /\ Len(s) # 0 => Len(s) \in DOMAIN t
          /\ Len(t) # 0 => Len(t) \in DOMAIN s
      BY <1>1, <2>1
    <3>2. PICK a, b \in Nat : a = Len(s) /\ b = Len(t)
      BY <1>1
    <3>3. (a # 0 => a \in 1..b) /\ (b # 0 => b \in 1..a)
      BY <1>1, <3>1, <3>2
    <3>4. a = b
      BY <3>3
    <3> QED BY <3>2, <3>4
  <2> QED BY <1>1, <2>1, <2>2, SeqEqual
<1>3. CASE D # {}
  <2>1. D \in SUBSET Nat
    BY <1>1
  <2>2. PICK m \in D : \A k \in D : m <= k
    BY <1>3, <2>1, MinIsLeast
  <2>3. m \in Nat /\ m \in DOMAIN s \cup DOMAIN t /\ Differ(m)
    BY <2>1, <2>2
  <2>4. \A k \in 1..(m - 1) : k \in DOMAIN s /\ k \in DOMAIN t /\ s[k] = t[k]
    <3>1. ASSUME NEW k \in 1..(m - 1)
          PROVE  k \in DOMAIN s /\ k \in DOMAIN t /\ s[k] = t[k]
      <4>1. k \in Nat /\ k < m /\ k \in DOMAIN s \cup DOMAIN t
        BY <1>1, <2>3, <3>1
      <4>2. k \notin D
        BY <2>2, <2>3, <4>1
      <4> QED BY <4>1, <4>2
    <3> QED BY <3>1
  <2> HIDE DEF D
  <2>5. m \in DOMAIN s => m \in DOMAIN t /\ Less(t[m], s[m])
    BY <2>3, <2>4, SmallerThere
  <2>6. m \in DOMAIN t => m \in DOMAIN s /\ Less(s[m], t[m])
    BY <2>3, <2>4, SmallerThere
  <2>7. s[m] \in Key /\ t[m] \in Key
    BY <1>1, <2>3, <2>5, <2>6
  <2> QED BY <2>3, <2>5, <2>6, <2>7, LessOrder
<1> QED BY <1>2, <1>3

\* So are the buckets of a calendar, given their number and the width.
LEMMA SameDeal ==
    ASSUME NEW n, NEW c, NEW S, Dealt(c, n, S), NEW d, Dealt(d, n, S),
           c.width = d.width
    PROVE  c.buckets = d.buckets
<1>1. IsCal(c, n) /\ IsCal(d, n) /\ S \in SUBSET Key
  BY DEF Dealt
<1>2. \A ev \in S : Hash(c, ev.ts) = Hash(d, ev.ts)
  BY <1>1, BucketCount DEF Key
<1>3. ASSUME NEW i \in 0..(n - 1) PROVE c.buckets[i] = d.buckets[i]
  <2>1. /\ InOrder(c.buckets[i]) /\ InOrder(d.buckets[i])
        /\ Entries(c.buckets[i]) = {ev \in S : Hash(c, ev.ts) = i}
        /\ Entries(d.buckets[i]) = {ev \in S : Hash(d, ev.ts) = i}
    BY DEF Dealt
  <2>2. Entries(c.buckets[i]) = Entries(d.buckets[i])
    BY <1>2, <2>1
  <2> QED BY <2>1, <2>2, SameList
<1>4. c.buckets \in [0..(n - 1) -> Seq(Key)] /\ d.buckets \in [0..(n - 1) -> Seq(Key)]
  BY <1>1 DEF IsCal
<1>5. PICK b : b = c.buckets
  OBVIOUS
<1>6. PICK e : e = d.buckets
  OBVIOUS
<1>7. b = e
  <2>1. b \in [0..(n - 1) -> Seq(Key)] /\ e \in [0..(n - 1) -> Seq(Key)]
    BY <1>4, <1>5, <1>6
  <2>2. \A i \in 0..(n - 1) : b[i] = e[i]
    BY <1>3, <1>5, <1>6
  <2>3. /\ b = [i \in 0..(n - 1) |-> b[i]]
        /\ e = [i \in 0..(n - 1) |-> e[i]]
    BY <2>1
  <2>4. [i \in 0..(n - 1) |-> b[i]] = [i \in 0..(n - 1) |-> e[i]]
    BY <2>2, Zenon
  <2> QED BY <2>3, <2>4
<1> QED BY <1>5, <1>6, <1>7

\* One bucket changes.
LEMMA Redealt ==
    ASSUME NEW n, NEW c, NEW S, Dealt(c, n, S),
           NEW j \in 0..(n - 1), NEW s, InOrder(s), NEW T \in SUBSET Key,
           Entries(s) = {ev \in T : Hash(c, ev.ts) = j},
           \A ev \in Key : Hash(c, ev.ts) # j => (ev \in S <=> ev \in T),
           NEW d, IsCal(d, n), d.width = c.width,
           d.buckets = [c.buckets EXCEPT ![j] = s]
    PROVE  Dealt(d, n, T)
<1>1. /\ S \in SUBSET Key /\ DOMAIN c.buckets = 0..(n - 1)
      /\ \A i \in 0..(n - 1) :
          /\ InOrder(c.buckets[i])
          /\ Entries(c.buckets[i]) = {ev \in S : Hash(c, ev.ts) = i}
  BY DEF Dealt, IsCal
<1>2. \A ev \in Key : Hash(d, ev.ts) = Hash(c, ev.ts)
  BY BucketCount DEF Hash, Dealt
<1>3. ASSUME NEW i \in 0..(n - 1), i # j
      PROVE  /\ InOrder(d.buckets[i])
             /\ Entries(d.buckets[i]) = {ev \in T : Hash(d, ev.ts) = i}
  <2>1. d.buckets[i] = c.buckets[i]
    BY <1>1, <1>3
  <2>2. {ev \in S : Hash(c, ev.ts) = i} = {ev \in T : Hash(d, ev.ts) = i}
    BY <1>1, <1>2, <1>3
  <2> QED BY <1>1, <2>1, <2>2
<1>4. InOrder(d.buckets[j]) /\ Entries(d.buckets[j]) = {ev \in T : Hash(d, ev.ts) = j}
  <2>1. d.buckets[j] = s
    BY <1>1
  <2>2. {ev \in T : Hash(c, ev.ts) = j} = {ev \in T : Hash(d, ev.ts) = j}
    BY <1>2
  <2> QED BY <2>1, <2>2
<1> QED BY <1>3, <1>4 DEF Dealt

\* The other members do not matter to where the events are.
LEMMA SameBuckets ==
    ASSUME NEW n, NEW c, NEW S, Dealt(c, n, S),
           NEW d, IsCal(d, n), d.width = c.width, d.buckets = c.buckets
    PROVE  Dealt(d, n, S)
<1>1. \A ts \in Nat : Hash(d, ts) = Hash(c, ts)
  BY DEF Hash, NBuckets
<1>2. \A ev \in S : ev.ts \in Nat
  BY DEF Dealt, Key
<1> QED BY <1>1, <1>2 DEF Dealt

\* DoInsert.
LEMMA DealtInsert ==
    ASSUME NEW n, NEW c, NEW S, Dealt(c, n, S),
           NEW ev \in Key, \A f \in S : f.uid # ev.uid,
           NEW d, d = DoInsert(c, ev)
    PROVE  /\ Dealt(d, n, S \cup {ev})
           /\ d.width = c.width /\ d.lastPrio = c.lastPrio
           /\ d.lastBucket = c.lastBucket /\ d.bucketTop = c.bucketTop
           /\ d.qSize = c.qSize
<1>1. PICK j : j = Hash(c, ev.ts)
  OBVIOUS
<1>2. IsCal(c, n) /\ ev.ts \in Nat /\ j \in 0..(n - 1) /\ S \in SUBSET Key
  BY <1>1, BucketCount DEF Dealt, Key
<1>3. /\ InOrder(c.buckets[j])
      /\ Entries(c.buckets[j]) = {e \in S : Hash(c, e.ts) = j}
  BY <1>2 DEF Dealt
<1>4. ev.uid \notin Uids(c.buckets[j])
  BY <1>3 DEF Uids, Entries
<1>5. PICK s : s = SortedInsert(c.buckets[j], ev)
  OBVIOUS
<1>6. InOrder(s) /\ Entries(s) = Entries(c.buckets[j]) \cup {ev}
  BY <1>3, <1>4, <1>5, InsertKeepsOrder
<1>7. /\ d = [c EXCEPT !.buckets = [c.buckets EXCEPT ![j] = s]]
      /\ s \in Seq(Key)
  BY <1>1, <1>5, <1>6 DEF DoInsert, InOrder
<1>8. /\ IsCal(d, n) /\ d.buckets = [c.buckets EXCEPT ![j] = s]
      /\ d.width = c.width /\ d.lastPrio = c.lastPrio
      /\ d.lastBucket = c.lastBucket /\ d.bucketTop = c.bucketTop
      /\ d.qSize = c.qSize
  BY <1>2, <1>7 DEF IsCal
<1>9. Dealt(d, n, S \cup {ev})
  <2>1. S \cup {ev} \in SUBSET Key
    BY <1>2
  <2>2. Entries(s) = {e \in S \cup {ev} : Hash(c, e.ts) = j}
    BY <1>1, <1>3, <1>6
  <2>3. \A e \in Key : Hash(c, e.ts) # j => (e \in S <=> e \in S \cup {ev})
    BY <1>1
  <2> QED BY <1>2, <1>6, <1>8, <2>1, <2>2, <2>3, Redealt
<1> QED BY <1>8, <1>9

\* The event at the front of a bucket goes.
LEMMA DealtTail ==
    ASSUME NEW n, NEW c, NEW S, Dealt(c, n, S),
           NEW j \in 0..(n - 1), c.buckets[j] # <<>>,
           NEW d, IsCal(d, n), d.width = c.width,
           d.buckets = [c.buckets EXCEPT ![j] = Tail(c.buckets[j])]
    PROVE  Dealt(d, n, S \ {Head(c.buckets[j])})
<1>1. PICK ev : ev = Head(c.buckets[j])
  OBVIOUS
<1>2. /\ InOrder(c.buckets[j]) /\ S \in SUBSET Key
      /\ Entries(c.buckets[j]) = {e \in S : Hash(c, e.ts) = j}
  BY DEF Dealt
<1>3. ev \in Entries(c.buckets[j])
  BY <1>1, <1>2 DEF Entries, InOrder
<1>4. /\ InOrder(Tail(c.buckets[j]))
      /\ Entries(Tail(c.buckets[j])) = Entries(c.buckets[j]) \ {ev}
  BY <1>1, <1>2, TailKeepsOrder
<1>5. Entries(Tail(c.buckets[j])) = {e \in S \ {ev} : Hash(c, e.ts) = j}
  BY <1>2, <1>4
<1>6. \A e \in Key : Hash(c, e.ts) # j => (e \in S <=> e \in S \ {ev})
  BY <1>2, <1>3
<1>7. S \ {ev} \in SUBSET Key
  BY <1>2
<1> QED BY <1>1, <1>4, <1>5, <1>6, <1>7, Redealt

\* Remove.
LEMMA DealtRemove ==
    ASSUME NEW n, NEW c, NEW S, Dealt(c, n, S), NEW ev \in S,
           NEW d, IsCal(d, n), d.width = c.width,
           d.buckets = [c.buckets EXCEPT ![Hash(c, ev.ts)] =
                          SortedRemove(c.buckets[Hash(c, ev.ts)], ev)]
    PROVE  Dealt(d, n, S \ {ev})
<1>1. PICK j : j = Hash(c, ev.ts)
  OBVIOUS
<1>2. IsCal(c, n) /\ ev.ts \in Nat /\ j \in 0..(n - 1) /\ S \in SUBSET Key
  BY <1>1, BucketCount DEF Dealt, Key
<1>3. /\ InOrder(c.buckets[j])
      /\ Entries(c.buckets[j]) = {e \in S : Hash(c, e.ts) = j}
  BY <1>2 DEF Dealt
<1>4. PICK s : s = SortedRemove(c.buckets[j], ev)
  OBVIOUS
<1>5. InOrder(s) /\ Entries(s) = Entries(c.buckets[j]) \ {ev}
  BY <1>1, <1>3, <1>4, RemoveKeepsOrder
<1>6. Entries(s) = {e \in S \ {ev} : Hash(c, e.ts) = j}
  BY <1>3, <1>5
<1>7. \A e \in Key : Hash(c, e.ts) # j => (e \in S <=> e \in S \ {ev})
  BY <1>1
<1>8. S \ {ev} \in SUBSET Key /\ d.buckets = [c.buckets EXCEPT ![j] = s]
  BY <1>1, <1>2, <1>4
<1> QED BY <1>2, <1>5, <1>6, <1>7, <1>8, Redealt

\* New buckets hold nothing.
LEMMA DealtNew ==
    ASSUME NEW n \in Nat \ {0}, NEW w \in Nat \ {0}, NEW p \in Nat, NEW q \in Nat,
           NEW d, d = NewCalendar(n, w, p, q)
    PROVE  Dealt(d, n, {}) /\ Today(d) /\ d.lastPrio = p /\ d.qSize = q
<1>1. p \div w \in Nat /\ (p \div w) % n \in 0..(n - 1) /\ (p \div w + 1) * w \in Nat
  <2>1. PICK x : x = p \div w
    OBVIOUS
  <2>2. x \in Nat
    BY <2>1, DivMod
  <2>3. x % n \in 0..(n - 1) /\ (x + 1) * w \in Nat
    <3>1. x % n \in 0..(n - 1)
      BY <2>2, DivMod
    <3>2. (x + 1) * w \in Nat
      BY <2>2
    <3> QED BY <3>1, <3>2
  <2> QED BY <2>1, <2>2, <2>3
<1>2. \A i \in 0..(n - 1) : InOrder(<<>>) /\ Entries(<<>>) = {}
  BY DEF InOrder, Entries
<1>3. /\ d.buckets = [i \in 0..(n - 1) |-> <<>>] /\ d.width = w /\ d.lastPrio = p
      /\ d.qSize = q /\ d.lastBucket = (p \div w) % n
      /\ d.bucketTop = (p \div w + 1) * w
  BY DEF NewCalendar
<1>4. [i \in 0..(n - 1) |-> <<>>] \in [0..(n - 1) -> Seq(Key)]
  OBVIOUS
<1>5. IsCal(d, n)
  BY <1>1, <1>4 DEF NewCalendar, IsCal
<1>6. Dealt(d, n, {})
  BY <1>2, <1>3, <1>5 DEF Dealt
<1>7. Today(d)
  <2>1. NBuckets(d) = n
    BY <1>5, BucketCount
  <2> QED BY <1>3, <2>1 DEF Today, Hash, Day
<1> QED BY <1>3, <1>6, <1>7

-----------------------------------------------------------------------------
\* Where the search of PeekNext and DoRemoveNext comes to after k steps.
LEMMA SearchStep ==
    ASSUME NEW n, NEW c, NEW S, Dealt(c, n, S), Today(c), NoneBefore(S, c.lastPrio),
           NEW k \in 0..(n - 1), NEW d, d = c.lastPrio \div c.width
    PROVE  /\ d \in Nat /\ Bucket(c, k) \in 0..(n - 1)
           /\ \A ev \in S : Hash(c, ev.ts) = Bucket(c, k) =>
                 /\ d + k <= ev.ts \div c.width
                 /\ ev.ts \div c.width # d + k => d + k + n <= ev.ts \div c.width
           /\ \A ts \in Nat : ts < c.bucketTop + k * c.width
                                <=> ts \div c.width <= d + k
           /\ c.bucketTop + k * c.width = (d + k + 1) * c.width
<1>1. /\ n \in Nat \ {0} /\ c.width \in Nat \ {0} /\ c.lastPrio \in Nat
      /\ IsCal(c, n) /\ S \in SUBSET Key
  BY DEF Dealt, IsCal
<1>2. d \in Nat
  BY <1>1, DivMod
<1>3. /\ NBuckets(c) = n /\ \A ts \in Nat : Hash(c, ts) = (ts \div c.width) % n
      /\ c.lastBucket = d % n /\ c.bucketTop = (d + 1) * c.width
  BY <1>1, BucketCount DEF Today, Day
<1>4. Bucket(c, k) = ((d % n) + k) % n
  BY <1>3 DEF Bucket
<1>5. Bucket(c, k) \in 0..(n - 1)
  <2>1. (d % n) + k \in Nat
    BY <1>1, <1>2, DivMod
  <2> QED BY <1>1, <1>4, <2>1, DivMod
<1>6. ASSUME NEW ev \in S, Hash(c, ev.ts) = Bucket(c, k)
      PROVE  /\ d + k <= ev.ts \div c.width
             /\ ev.ts \div c.width # d + k => d + k + n <= ev.ts \div c.width
  <2>1. ev.ts \in Nat /\ c.lastPrio <= ev.ts
    BY <1>1 DEF Key, NoneBefore
  <2>2. ev.ts \div c.width \in Nat /\ d <= ev.ts \div c.width
    BY <1>1, <2>1, DivMod, DivMono
  <2>3. (ev.ts \div c.width) % n = ((d % n) + k) % n
    BY <1>3, <1>4, <1>6, <2>1
  <2> QED BY <1>1, <1>2, <2>2, <2>3, NotBefore
<1>7. c.bucketTop + k * c.width = (d + k + 1) * c.width
  BY <1>1, <1>2, <1>3
<1>8. ASSUME NEW ts \in Nat
      PROVE  ts < c.bucketTop + k * c.width <=> ts \div c.width <= d + k
  BY <1>1, <1>2, <1>7, DivBelow
<1> QED BY <1>2, <1>5, <1>6, <1>7, <1>8

\* Of a bucket the front is the earliest.
LEMMA FrontFirst ==
    ASSUME NEW n, NEW c, NEW S, Dealt(c, n, S), NEW i \in 0..(n - 1),
           NEW ev \in S, Hash(c, ev.ts) = i
    PROVE  /\ c.buckets[i] # <<>> /\ ~Less(ev, Head(c.buckets[i]))
           /\ Head(c.buckets[i]).ts <= ev.ts
<1>1. /\ InOrder(c.buckets[i]) /\ S \in SUBSET Key
      /\ Entries(c.buckets[i]) = {e \in S : Hash(c, e.ts) = i}
  BY DEF Dealt
<1>2. PICK j \in DOMAIN c.buckets[i] : ev = c.buckets[i][j]
  BY <1>1 DEF Entries
<1>3. /\ c.buckets[i] # <<>> /\ Head(c.buckets[i]) = c.buckets[i][1]
      /\ 1 \in DOMAIN c.buckets[i] /\ 1 <= j
  BY <1>1, <1>2 DEF InOrder
<1>4. ev \in Key /\ c.buckets[i][1] \in Key
  BY <1>1, <1>3 DEF InOrder
<1>5. ev = c.buckets[i][1] \/ Less(c.buckets[i][1], ev)
  BY <1>1, <1>2, <1>3 DEF InOrder
<1> QED BY <1>3, <1>4, <1>5 DEF Less, Key

\* The front of a bucket is an event of that bucket.
LEMMA FrontIn ==
    ASSUME NEW n, NEW c, NEW S, Dealt(c, n, S), NEW i \in 0..(n - 1),
           c.buckets[i] # <<>>
    PROVE  Head(c.buckets[i]) \in S /\ Hash(c, Head(c.buckets[i]).ts) = i
  BY DEF Dealt, InOrder, Entries

\* The search finds the earliest event, at the front of the bucket of its day.
LEMMA SearchFinds ==
    ASSUME NEW n, NEW c, NEW S, Dealt(c, n, S), Today(c), NoneBefore(S, c.lastPrio),
           S # {}, NEW ev, ev = PeekNext(c), NEW j, j = Hash(c, ev.ts)
    PROVE  /\ IsEarliest(ev, S) /\ j \in 0..(n - 1)
           /\ c.buckets[j] # <<>> /\ Head(c.buckets[j]) = ev
           /\ DueSteps(c) # {} =>
                 /\ Bucket(c, Min(DueSteps(c))) = j
                 /\ c.bucketTop + Min(DueSteps(c)) * c.width = Day(c, ev.ts)
<1>1. /\ n \in Nat \ {0} /\ IsCal(c, n) /\ S \in SUBSET Key /\ c.width \in Nat \ {0}
      /\ NBuckets(c) = n /\ DOMAIN c.buckets = 0..(n - 1)
      /\ \A f \in S : f.ts \in Nat /\ Hash(c, f.ts) \in 0..(n - 1)
  BY BucketCount DEF Dealt, IsCal, Key
<1>2. PICK d : d = c.lastPrio \div c.width
  OBVIOUS
<1>3. /\ d \in Nat
      /\ \A k \in 0..(n - 1) : Bucket(c, k) \in 0..(n - 1)
      /\ \A k \in 0..(n - 1) : \A f \in S : Hash(c, f.ts) = Bucket(c, k) =>
              /\ d + k <= f.ts \div c.width
              /\ f.ts \div c.width # d + k => d + k + n <= f.ts \div c.width
      /\ \A k \in 0..(n - 1) : \A ts \in Nat :
              ts < c.bucketTop + k * c.width <=> ts \div c.width <= d + k
      /\ \A k \in 0..(n - 1) : c.bucketTop + k * c.width = (d + k + 1) * c.width
  <2>1. 0 \in 0..(n - 1)
    BY <1>1
  <2> QED BY <1>2, <2>1, SearchStep
<1>4. d \in Nat
  BY <1>3
<1>5. \A k \in 0..(n - 1) : Bucket(c, k) \in 0..(n - 1)
  BY <1>3
<1>6. ASSUME NEW k \in 0..(n - 1), NEW f \in S, Hash(c, f.ts) = Bucket(c, k)
      PROVE  /\ d + k <= f.ts \div c.width
             /\ f.ts \div c.width # d + k => d + k + n <= f.ts \div c.width
  BY <1>3, <1>6
<1>7. ASSUME NEW k \in 0..(n - 1), NEW ts \in Nat
      PROVE  ts < c.bucketTop + k * c.width <=> ts \div c.width <= d + k
  BY <1>3
<1>8. \A k \in 0..(n - 1) : c.bucketTop + k * c.width = (d + k + 1) * c.width
  BY <1>3
<1>9. \A f \in S : f.ts \div c.width \in Nat
  BY <1>1, DivMod
<1>10. CASE DueSteps(c) # {}
  <2>1. PICK m : m = Min(DueSteps(c))
    OBVIOUS
  <2>2. m \in DueSteps(c) /\ \A k \in DueSteps(c) : m <= k
    <3>1. DueSteps(c) \in SUBSET Nat
      BY <1>1 DEF DueSteps
    <3> QED BY <1>10, <2>1, <3>1, MinIsLeast
  <2>3. PICK i : i = Bucket(c, m)
    OBVIOUS
  <2>4. /\ m \in 0..(n - 1) /\ c.buckets[i] # <<>>
        /\ Head(c.buckets[i]).ts < c.bucketTop + m * c.width
    BY <1>1, <2>2, <2>3 DEF DueSteps
  <2>5. ev = Head(c.buckets[i])
    BY <1>10, <2>1, <2>3 DEF PeekNext
  <2>6. i \in 0..(n - 1)
    BY <1>5, <2>3, <2>4
  <2>7. ev \in S /\ Hash(c, ev.ts) = i /\ i = j
    BY <2>4, <2>5, <2>6, FrontIn
  <2>8. ev.ts \in Nat /\ ev.ts \div c.width \in Nat
    BY <1>1, <1>9, <2>7
  <2>9. ev.ts \div c.width = d + m
    <3>1. d + m <= ev.ts \div c.width
      BY <1>6, <2>3, <2>4, <2>7
    <3>2. ev.ts \div c.width <= d + m
      BY <1>7, <2>4, <2>5, <2>8
    <3> QED BY <1>4, <2>4, <2>8, <3>1, <3>2
  <2>10. ASSUME NEW f \in S PROVE ~Less(f, ev)
    <3>1. f.ts \in Nat /\ Hash(c, f.ts) \in 0..(n - 1) /\ f.ts \div c.width \in Nat
      BY <1>1, <1>9
    <3>2. PICK k \in 0..(n - 1) : Bucket(c, k) = Hash(c, f.ts)
      <4>1. c.lastBucket \in 0..(n - 1)
        BY <1>1 DEF IsCal
      <4>2. \E k \in 0..(n - 1) : (c.lastBucket + k) % n = Hash(c, f.ts)
        BY <1>1, <3>1, <4>1, EveryBucket
      <4> QED BY <1>1, <4>2 DEF Bucket
    <3>3. CASE k = m
      BY <2>3, <2>5, <2>6, <3>2, <3>3, FrontFirst
    <3>4. CASE m < k
      <4>1. d + m < f.ts \div c.width
        <5>1. d + k <= f.ts \div c.width
          BY <1>6, <3>2
        <5> QED BY <1>4, <2>4, <3>1, <3>4, <5>1
      <4> QED BY <1>1, <1>4, <2>4, <2>8, <2>9, <3>1, <4>1, DayLater
    <3>5. CASE k < m
      <4>1. PICK g : g = Head(c.buckets[Bucket(c, k)])
        OBVIOUS
      <4>2. c.buckets[Bucket(c, k)] # <<>> /\ g.ts <= f.ts
        BY <1>5, <3>2, <4>1, FrontFirst
      <4>3. g \in S /\ g.ts \in Nat /\ Hash(c, g.ts) = Bucket(c, k)
        BY <1>1, <1>5, <4>1, <4>2, FrontIn
      <4>4. ~(g.ts < c.bucketTop + k * c.width)
        <5>1. k \notin DueSteps(c)
          BY <2>2, <2>4, <3>5
        <5> QED BY <1>1, <4>1, <4>2, <5>1 DEF DueSteps
      <4>5. ~(g.ts \div c.width <= d + k)
        BY <1>7, <4>3, <4>4
      <4>6. g.ts \div c.width \in Nat /\ g.ts \div c.width <= f.ts \div c.width
        BY <1>1, <1>9, <3>1, <4>2, <4>3, DivMono
      <4>7. f.ts \div c.width # d + k
        BY <1>4, <3>1, <4>5, <4>6
      <4>8. d + k + n <= f.ts \div c.width
        BY <1>6, <3>2, <4>7
      <4>9. d + m < f.ts \div c.width
        BY <1>1, <1>4, <2>4, <3>1, <4>8
      <4> QED BY <1>1, <1>4, <2>4, <2>8, <2>9, <3>1, <4>9, DayLater
    <3> QED BY <2>4, <3>3, <3>4, <3>5
  <2>11. c.bucketTop + m * c.width = Day(c, ev.ts)
    BY <1>8, <2>4, <2>9 DEF Day
  <2> QED BY <2>1, <2>3, <2>4, <2>5, <2>6, <2>7, <2>10, <2>11 DEF IsEarliest
<1>11. CASE DueSteps(c) = {}
  <2>1. PICK F : F = Fronts(c)
    OBVIOUS
  <2>2. \A f \in F : f \in S /\ c.buckets[Hash(c, f.ts)] # <<>>
                     /\ Head(c.buckets[Hash(c, f.ts)]) = f
    BY <1>1, <2>1, FrontIn DEF Fronts
  <2>3. ASSUME NEW f \in S
        PROVE  \E g \in F : ~Less(f, g) /\ g \in Key
    <3>1. Hash(c, f.ts) \in 0..(n - 1)
      BY <1>1
    <3>2. c.buckets[Hash(c, f.ts)] # <<>> /\ ~Less(f, Head(c.buckets[Hash(c, f.ts)]))
      BY <3>1, FrontFirst
    <3>3. Head(c.buckets[Hash(c, f.ts)]) \in F
      BY <1>1, <2>1, <3>1, <3>2 DEF Fronts
    <3> QED BY <1>1, <2>2, <3>2, <3>3
  <2>4. F \in SUBSET Key /\ F # {}
    BY <1>1, <2>2, <2>3
  <2>5. ev = Begin(F)
    BY <1>11, <2>1 DEF PeekNext
  <2>6. ev \in F /\ \A g \in F : ~Less(g, ev)
    BY <2>4, <2>5, BeginEarliest DEF IsEarliest
  <2>7. ASSUME NEW f \in S PROVE ~Less(f, ev)
    <3>1. PICK g \in F : ~Less(f, g) /\ g \in Key
      BY <2>3
    <3>2. ~Less(g, ev) /\ f \in Key /\ ev \in Key
      BY <1>1, <2>4, <2>6
    <3> QED BY <3>1, <3>2 DEF Less, Key
  <2> QED BY <1>1, <1>11, <2>2, <2>6, <2>7 DEF IsEarliest
<1> QED BY <1>10, <1>11

\* DoRemoveNext takes that event and moves the search to its day.
LEMMA DealtNext ==
    ASSUME NEW n, NEW c, NEW S, Dealt(c, n, S), Today(c), NoneBefore(S, c.lastPrio),
           S # {}, NEW ev, ev = PeekNext(c), NEW d, d = DoRemoveNext(c)
    PROVE  /\ IsEarliest(ev, S) /\ ev \in S /\ ev \in Key
           /\ Dealt(d, n, S \ {ev}) /\ Today(d) /\ d.lastPrio = ev.ts
           /\ NoneBefore(S, ev.ts) /\ d.qSize = c.qSize /\ d.width = c.width
<1>1. PICK j : j = Hash(c, ev.ts)
  OBVIOUS
<1>2. /\ IsEarliest(ev, S) /\ j \in 0..(n - 1)
      /\ c.buckets[j] # <<>> /\ Head(c.buckets[j]) = ev
      /\ DueSteps(c) # {} =>
            /\ Bucket(c, Min(DueSteps(c))) = j
            /\ c.bucketTop + Min(DueSteps(c)) * c.width = Day(c, ev.ts)
  BY <1>1, SearchFinds
<1>3. IsCal(c, n) /\ ev \in S /\ S \in SUBSET Key /\ ev.ts \in Nat /\ ev \in Key
  BY <1>2 DEF IsEarliest, Dealt, Key
<1>4. PICK t, u : t = Tail(c.buckets[j]) /\ u = Day(c, ev.ts)
  OBVIOUS
<1>5. /\ d = [c EXCEPT !.buckets = [c.buckets EXCEPT ![j] = t],
                       !.lastPrio = ev.ts, !.lastBucket = j, !.bucketTop = u]
      /\ t \in Seq(Key) /\ u \in Nat
  <2>1. PICK s : s = c.buckets[j]
    OBVIOUS
  <2>2. s \in Seq(Key) /\ s # <<>>
    BY <1>2, <1>3, <2>1 DEF IsCal
  <2>3. t \in Seq(Key)
    BY <1>4, <2>1, <2>2
  <2>4. u \in Nat
    BY <1>3, <1>4, BucketCount
  <2> QED BY <1>1, <1>2, <1>4, <2>3, <2>4 DEF DoRemoveNext
<1>6. /\ IsCal(d, n) /\ d.width = c.width /\ d.lastPrio = ev.ts /\ d.lastBucket = j
      /\ d.buckets = [c.buckets EXCEPT ![j] = t]
      /\ d.bucketTop = u /\ d.qSize = c.qSize
  <2>1. j \in 0..(n - 1) /\ ev.ts \in Nat
    BY <1>2, <1>3
  <2>2. PICK b : b = [c.buckets EXCEPT ![j] = t]
    OBVIOUS
  <2>3. b \in [0..(n - 1) -> Seq(Key)]
    <3>1. c.buckets \in [0..(n - 1) -> Seq(Key)]
      BY <1>3 DEF IsCal
    <3> QED BY <1>5, <2>1, <2>2, <3>1
  <2>4. d = [c EXCEPT !.buckets = b, !.lastPrio = ev.ts, !.lastBucket = j,
                      !.bucketTop = u]
    BY <1>5, <2>2
  <2>5. /\ IsCal(d, n) /\ d.width = c.width /\ d.lastPrio = ev.ts /\ d.lastBucket = j
        /\ d.buckets = b /\ d.bucketTop = u /\ d.qSize = c.qSize
    BY <1>3, <1>5, <2>1, <2>3, <2>4 DEF IsCal
  <2> QED BY <2>2, <2>5
<1>7. Dealt(d, n, S \ {ev})
  <2>1. /\ j \in 0..(n - 1) /\ c.buckets[j] # <<>> /\ Head(c.buckets[j]) = ev
        /\ d.buckets = [c.buckets EXCEPT ![j] = Tail(c.buckets[j])]
    BY <1>2, <1>4, <1>6
  <2>2. Dealt(d, n, S \ {Head(c.buckets[j])})
    BY <1>6, <2>1, DealtTail
  <2> QED BY <2>1, <2>2
<1>8. Today(d)
  <2>1. NBuckets(d) = n /\ NBuckets(c) = n
    BY <1>3, <1>6, BucketCount
  <2> QED BY <1>1, <1>4, <1>6, <2>1 DEF Today, Hash, Day
<1>9. NoneBefore(S, ev.ts)
  BY <1>2, <1>3 DEF IsEarliest, Less, NoneBefore, Key
<1> QED BY <1>2, <1>3, <1>6, <1>7, <1>8, <1>9

-----------------------------------------------------------------------------
\* The invariant.
CalHeld ==
    /\ held \in SUBSET Key /\ IsFiniteSet(held) /\ UidsDiffer(held)
    /\ given \in Key /\ NoneBefore(held, given.ts)
    /\ cal.qSize = Cardinality(held)
    /\ call \in {"none", "up", "down", "sample", "putBack", "deal"}

InOld == UNION {Entries(old[i]) : i \in DOMAIN old}

\* Between two calls, and before a call has looked whether to resize.
Whole == /\ \E n : Dealt(cal, n, held)
         /\ Today(cal) /\ cal.lastPrio = given.ts
         /\ samples = <<>>

\* Some events are taken out as samples.
Sampled == /\ \E n : Dealt(cal, n, held \ Entries(samples)) /\ Dealt(saved, n, held)
           /\ Proper(samples) /\ Entries(samples) \in SUBSET held
           /\ newSize \in Nat \ {0} /\ saved.lastPrio = given.ts
           /\ saved.width = cal.width /\ saved.qSize = cal.qSize

\* The search goes on behind the last sample, and finds enough of them.
Sampling == /\ Today(cal) /\ NoneBefore(held \ Entries(samples), cal.lastPrio)
            /\ IsFiniteSet(held \ Entries(samples))
            /\ Cardinality(held \ Entries(samples)) = Cardinality(held) - Len(samples)

\* What is not dealt yet is in the old buckets, each event in one.
Dealing == /\ \E n : Dealt(cal, n, held \ InOld)
           /\ Today(cal) /\ cal.lastPrio = given.ts
           /\ samples = <<>>
           /\ \A i \in DOMAIN old : InOrder(old[i]) /\ Entries(old[i]) \in SUBSET held
           /\ \A i, j \in DOMAIN old : i # j => Entries(old[i]) \cap Entries(old[j]) = {}

CalInv ==
    /\ CalHeld
    /\ call \in {"none", "up", "down"} => Whole
    /\ call = "sample" => Sampled /\ Sampling
    /\ call = "putBack" => Sampled
    /\ call = "deal" => Dealing

\* The constructor makes an empty calendar of two buckets.
LEMMA CalStarts == CalInit => CalInv
<1> SUFFICES ASSUME CalInit PROVE CalInv
  OBVIOUS
<1>1. cal = NewCalendar(2, 1, 0, 0) /\ held = {} /\ samples = <<>> /\ call = "none"
  BY DEF CalInit, EmptyCalendar
<1>2. Dealt(cal, 2, {}) /\ Today(cal) /\ cal.lastPrio = 0 /\ cal.qSize = 0
  BY <1>1, DealtNew
<1>3. given \in Key /\ given.ts = 0
  BY DEF CalInit, Key
<1>4. Cardinality(held) = 0 /\ IsFiniteSet(held)
  BY <1>1, FS_EmptySet
<1>5. CalHeld
  BY <1>1, <1>2, <1>3, <1>4 DEF CalHeld, UidsDiffer, NoneBefore
<1> QED BY <1>1, <1>2, <1>3, <1>5 DEF CalInv, Whole

\* Insert.
LEMMA CalInsertKeeps ==
    ASSUME CalInv, NEW ts \in Nat, NEW uid \in Nat,
           CalInsert([ts |-> ts, uid |-> uid])
    PROVE  CalInv' /\ [CalContract!Next]_(CalContract!svars)
<1>1. PICK ev : ev = [ts |-> ts, uid |-> uid]
  OBVIOUS
<1>2. ev \in Key /\ CalInsert(ev)
  BY <1>1 DEF Key
<1>3. PICK n : Dealt(cal, n, held)
  BY <1>2 DEF CalInv, Whole, CalInsert
<1>4. PICK c : c = DoInsert(cal, ev)
  OBVIOUS
<1>5. /\ Dealt(c, n, held \cup {ev}) /\ c.width = cal.width
      /\ c.lastPrio = cal.lastPrio /\ c.lastBucket = cal.lastBucket
      /\ c.bucketTop = cal.bucketTop /\ c.qSize = cal.qSize
  BY <1>2, <1>3, <1>4, DealtInsert DEF CalInsert
<1>6. /\ IsCal(cal', n) /\ cal'.buckets = c.buckets /\ cal'.width = c.width
      /\ cal'.lastPrio = c.lastPrio /\ cal'.lastBucket = c.lastBucket
      /\ cal'.bucketTop = c.bucketTop /\ cal'.qSize = cal.qSize + 1
  <2>1. cal' = [c EXCEPT !.qSize = c.qSize + 1] /\ IsCal(c, n)
    BY <1>2, <1>4, <1>5 DEF CalInsert, Dealt
  <2>2. c.qSize + 1 \in Nat
    BY <2>1 DEF IsCal
  <2> QED BY <1>5, <2>1, <2>2 DEF IsCal
<1>7. Dealt(cal', n, held')
  BY <1>2, <1>5, <1>6, SameBuckets DEF CalInsert
<1>8. Today(cal')
  <2>1. NBuckets(cal) = n /\ NBuckets(cal') = n
    BY <1>3, <1>6, BucketCount DEF Dealt
  <2> QED BY <1>2, <1>5, <1>6, <2>1 DEF CalInv, Whole, CalInsert, Today, Hash, Day
<1>9. Whole'
  BY <1>2, <1>5, <1>6, <1>7, <1>8 DEF CalInv, Whole, CalInsert, rvars
<1>10. CalHeld'
  <2>1. held' \in SUBSET Key /\ UidsDiffer(held') /\ NoneBefore(held', given'.ts)
    BY <1>2 DEF CalInv, CalHeld, CalInsert, UidsDiffer, NoneBefore, Less, Key
  <2>2. IsFiniteSet(held') /\ Cardinality(held') = Cardinality(held) + 1
    BY <1>2, FS_AddElement DEF CalInv, CalHeld, CalInsert
  <2> QED BY <1>2, <1>6, <2>1, <2>2 DEF CalInv, CalHeld, CalInsert
<1>11. CalContract!Insert
  <2>1. ev \notin held
    BY <1>2 DEF CalInsert
  <2> QED BY <1>2, <2>1 DEF CalInsert, CalContract!Insert, CalContract!Less, Less
<1> QED
  BY <1>2, <1>9, <1>10, <1>11 DEF CalInv, CalInsert, CalContract!Next

\* RemoveNext.
LEMMA CalTakeKeeps ==
    ASSUME CalInv, CalTake
    PROVE  CalInv' /\ [CalContract!Next]_(CalContract!svars)
<1>1. PICK n : Dealt(cal, n, held)
  BY DEF CalInv, Whole, CalTake
<1>2. PICK ev, c : ev = PeekNext(cal) /\ c = DoRemoveNext(cal)
  OBVIOUS
<1>3. held # {}
  BY FS_EmptySet DEF CalInv, CalHeld, CalTake
<1>4. Today(cal) /\ NoneBefore(held, cal.lastPrio)
  BY DEF CalInv, CalHeld, Whole, CalTake
<1>5. /\ IsEarliest(ev, held) /\ ev \in held /\ ev \in Key
      /\ Dealt(c, n, held \ {ev}) /\ Today(c) /\ c.lastPrio = ev.ts
      /\ NoneBefore(held, ev.ts) /\ c.qSize = cal.qSize
  BY <1>1, <1>2, <1>3, <1>4, DealtNext
<1>6. IsFiniteSet(held') /\ Cardinality(held') = Cardinality(held) - 1
  BY <1>2, <1>5, FS_RemoveElement DEF CalInv, CalHeld, CalTake
<1>7. /\ held' \in SUBSET Key /\ Cardinality(held') \in Nat
      /\ held' = held \ {ev} /\ given' = ev
  BY <1>2, <1>5, <1>6, FS_CardinalityType DEF CalInv, CalHeld, CalTake
<1>8. /\ IsCal(cal', n) /\ cal'.buckets = c.buckets /\ cal'.width = c.width
      /\ cal'.lastPrio = c.lastPrio /\ cal'.lastBucket = c.lastBucket
      /\ cal'.bucketTop = c.bucketTop /\ cal'.qSize = cal.qSize - 1
  <2>1. cal' = [c EXCEPT !.qSize = c.qSize - 1] /\ IsCal(c, n) /\ c.qSize - 1 \in Nat
    BY <1>2, <1>5, <1>6, <1>7 DEF CalTake, Dealt, CalInv, CalHeld
  <2> QED BY <1>5, <2>1 DEF IsCal
<1>9. Dealt(cal', n, held')
  BY <1>5, <1>7, <1>8, SameBuckets
<1>10. Today(cal')
  <2>1. NBuckets(c) = n /\ NBuckets(cal') = n
    BY <1>5, <1>8, BucketCount DEF Dealt
  <2> QED BY <1>5, <1>8, <2>1 DEF Today, Hash, Day
<1>11. Whole'
  BY <1>5, <1>7, <1>8, <1>9, <1>10 DEF CalInv, Whole, CalTake, rvars
<1>12. CalHeld'
  <2>1. UidsDiffer(held') /\ NoneBefore(held', given'.ts)
    BY <1>5, <1>7 DEF CalInv, CalHeld, UidsDiffer, NoneBefore
  <2> QED BY <1>5, <1>6, <1>7, <1>8, <2>1 DEF CalInv, CalHeld, CalTake
<1>13. CalContract!RemoveNext
  <2>1. given' = [ts |-> ev.ts, uid |-> ev.uid]
    BY <1>5, <1>7 DEF Key
  <2> QED BY <1>5, <1>7, <2>1
          DEF CalContract!RemoveNext, CalContract!IsEarliest, IsEarliest,
              CalContract!Less, Less
<1> QED
  BY <1>11, <1>12, <1>13 DEF CalInv, CalTake, CalContract!Next

\* Remove.
LEMMA CalRemoveKeeps ==
    ASSUME CalInv, NEW ev \in held, CalRemove(ev)
    PROVE  CalInv' /\ [CalContract!Next]_(CalContract!svars)
<1>1. PICK n : Dealt(cal, n, held)
  BY DEF CalInv, Whole, CalRemove
<1>2. PICK j, s : j = Hash(cal, ev.ts) /\ s = SortedRemove(cal.buckets[j], ev)
  OBVIOUS
<1>3. /\ IsCal(cal, n) /\ ev \in Key /\ j \in 0..(n - 1)
  BY <1>1, <1>2, BucketCount DEF Dealt, Key
<1>4. s \in Seq(Key)
  <2>1. InOrder(cal.buckets[j]) /\ ev \in Entries(cal.buckets[j])
    BY <1>1, <1>2, <1>3 DEF Dealt
  <2> QED BY <1>2, <2>1, RemoveKeepsOrder DEF InOrder
<1>5. IsFiniteSet(held') /\ Cardinality(held') = Cardinality(held) - 1
  BY FS_RemoveElement DEF CalInv, CalHeld, CalRemove
<1>6. held' \in SUBSET Key /\ Cardinality(held') \in Nat /\ held' = held \ {ev}
  BY <1>5, FS_CardinalityType DEF CalInv, CalHeld, CalRemove
<1>7. /\ IsCal(cal', n) /\ cal'.buckets = [cal.buckets EXCEPT ![j] = s]
      /\ cal'.width = cal.width /\ cal'.lastPrio = cal.lastPrio
      /\ cal'.lastBucket = cal.lastBucket
      /\ cal'.bucketTop = cal.bucketTop /\ cal'.qSize = cal.qSize - 1
  <2>1. PICK b : b = [cal.buckets EXCEPT ![j] = s]
    OBVIOUS
  <2>2. b \in [0..(n - 1) -> Seq(Key)]
    <3>1. cal.buckets \in [0..(n - 1) -> Seq(Key)]
      BY <1>3 DEF IsCal
    <3> QED BY <1>3, <1>4, <2>1, <3>1
  <2>3. cal' = [cal EXCEPT !.buckets = b, !.qSize = cal.qSize - 1]
    BY <1>2, <2>1 DEF CalRemove
  <2>4. cal.qSize - 1 \in Nat
    BY <1>5, <1>6 DEF CalInv, CalHeld
  <2>5. /\ IsCal(cal', n) /\ cal'.buckets = b
        /\ cal'.width = cal.width /\ cal'.lastPrio = cal.lastPrio
        /\ cal'.lastBucket = cal.lastBucket
        /\ cal'.bucketTop = cal.bucketTop /\ cal'.qSize = cal.qSize - 1
    BY <1>3, <2>2, <2>3, <2>4 DEF IsCal
  <2> QED BY <2>1, <2>5
<1>8. Dealt(cal', n, held')
  <2>1. Dealt(cal', n, held \ {ev})
    BY <1>1, <1>2, <1>7, DealtRemove
  <2> QED BY <1>6, <2>1
<1>9. Today(cal')
  <2>1. NBuckets(cal) = n /\ NBuckets(cal') = n
    BY <1>3, <1>7, BucketCount
  <2> QED BY <1>7, <2>1 DEF CalInv, Whole, CalRemove, Today, Hash, Day
<1>10. Whole'
  BY <1>7, <1>8, <1>9 DEF CalInv, Whole, CalRemove, rvars
<1>11. CalHeld'
  <2>1. UidsDiffer(held') /\ NoneBefore(held', given'.ts)
    BY <1>6 DEF CalInv, CalHeld, CalRemove, UidsDiffer, NoneBefore
  <2> QED BY <1>5, <1>6, <1>7, <2>1 DEF CalInv, CalHeld, CalRemove
<1>12. CalContract!Remove
  BY DEF CalRemove, CalContract!Remove
<1> QED
  BY <1>10, <1>11, <1>12 DEF CalInv, CalRemove, CalContract!Next

\* The samples, one more or one less.
LEMMA OneSampleMore ==
    ASSUME NEW s, Proper(s), NEW ev \in Key, \A f \in Entries(s) : f.uid # ev.uid,
           NEW t, t = Append(s, ev)
    PROVE  Proper(t) /\ Entries(t) = Entries(s) \cup {ev} /\ Len(t) = Len(s) + 1
<1>1. PICK n : n = Len(s)
  OBVIOUS
<1>2. /\ n \in Nat /\ DOMAIN s = 1..n /\ t \in Seq(Key) /\ DOMAIN t = 1..(n + 1)
      /\ Len(t) = n + 1 /\ t[n + 1] = ev /\ \A i \in 1..n : t[i] = s[i]
  BY <1>1 DEF Proper
<1>3. \A i \in 1..(n + 1) : i \in 1..n \/ i = n + 1
  BY <1>2
<1>4. \A i \in 1..n : i \in 1..(n + 1) /\ s[i] \in Entries(s)
  BY <1>2 DEF Entries
<1>5. Entries(t) = Entries(s) \cup {ev}
  <2>1. n + 1 \in 1..(n + 1)
    BY <1>2
  <2> QED BY <1>2, <1>3, <1>4, <2>1 DEF Entries
<1>6. \A i, j \in DOMAIN t : t[i].uid = t[j].uid => i = j
  <2> SUFFICES ASSUME NEW i \in 1..(n + 1), NEW j \in 1..(n + 1), t[i].uid = t[j].uid
               PROVE  i = j
    BY <1>2
  <2> QED BY <1>2, <1>3, <1>4 DEF Proper
<1> QED BY <1>1, <1>2, <1>5, <1>6 DEF Proper

\* The front goes back.
LEMMA OneSampleLess ==
    ASSUME NEW s, Proper(s), s # <<>>, NEW t, t = Tail(s)
    PROVE  /\ Proper(t) /\ Entries(t) = Entries(s) \ {Head(s)}
           /\ Head(s) \in Entries(s)
<1>1. PICK n : n = Len(s)
  OBVIOUS
<1>2. /\ n \in Nat \ {0} /\ DOMAIN s = 1..n /\ t \in Seq(Key) /\ DOMAIN t = 1..(n - 1)
      /\ Head(s) = s[1] /\ \A i \in 1..(n - 1) : t[i] = s[i + 1]
  BY <1>1 DEF Proper
<1>3. \A i \in 1..(n - 1) : i + 1 \in 1..n /\ i + 1 # 1
  BY <1>2
<1>4. \A k \in 1..n : k # 1 => k - 1 \in 1..(n - 1) /\ (k - 1) + 1 = k
  BY <1>2
<1>5. 1 \in 1..n
  BY <1>2
<1>6. \A k \in 1..n : k # 1 => s[k] # s[1]
  BY <1>2, <1>5 DEF Proper
<1>7. Entries(t) \subseteq Entries(s) \ {s[1]}
  BY <1>2, <1>3, <1>6 DEF Entries
<1>8. Entries(s) \ {s[1]} \subseteq Entries(t)
  <2> SUFFICES ASSUME NEW k \in 1..n, s[k] # s[1]
               PROVE  s[k] \in Entries(t)
    BY <1>2 DEF Entries
  <2>1. k # 1
    OBVIOUS
  <2>2. k - 1 \in 1..(n - 1) /\ t[k - 1] = s[k]
    BY <1>2, <1>4, <2>1
  <2> QED BY <1>2, <2>2 DEF Entries
<1>9. \A i, j \in DOMAIN t : t[i].uid = t[j].uid => i = j
  <2> SUFFICES ASSUME NEW i \in 1..(n - 1), NEW j \in 1..(n - 1), t[i].uid = t[j].uid
               PROVE  i = j
    BY <1>2
  <2>1. i + 1 = j + 1
    BY <1>2, <1>3 DEF Proper
  <2> QED BY <2>1
<1> QED BY <1>2, <1>5, <1>7, <1>8, <1>9 DEF Proper, Entries

\* There are always as many events as samples are wanted.
LEMMA EnoughSamples ==
    ASSUME NEW c, c.qSize \in Nat
    PROVE  NSamples(c) \in Nat /\ NSamples(c) <= c.qSize
<1>1. PICK q, m : q = c.qSize /\ m = IF q <= 5 THEN q ELSE 5 + q \div 10
  OBVIOUS
<1>2. m \in Nat /\ m <= q
  BY <1>1
<1>3. {25, m} \in SUBSET Nat /\ {25, m} # {}
  BY <1>2
<1>4. Min({25, m}) \in {25, m} /\ Min({25, m}) <= m
  BY <1>3, MinIsLeast
<1>5. NSamples(c) = Min({25, m})
  BY <1>1 DEF NSamples
<1> QED BY <1>1, <1>2, <1>3, <1>4, <1>5

\* ResizeUp and ResizeDown.
LEMMA CalResizeKeeps ==
    ASSUME CalInv, CalResize
    PROVE  CalInv'
<1>1. /\ UNCHANGED <<cal, given, held, samples>>
      /\ call \in {"up", "down"}
      /\ \/ call' = "none"
         \/ /\ call' = "sample" /\ saved' = cal
            /\ \/ newSize' = 2 * NBuckets(cal)
               \/ newSize' = NBuckets(cal) \div 2 /\ cal.qSize < NBuckets(cal) \div 2
  BY DEF CalResize, BeginResize, NoResize, Underfull, rvars
<1>2. CalHeld /\ Whole /\ CalHeld'
  BY <1>1 DEF CalInv, CalHeld
<1>3. CASE call' = "none"
  <2>1. Whole'
    BY <1>1, <1>2 DEF Whole
  <2> QED BY <1>2, <1>3, <2>1 DEF CalInv
<1>4. CASE call' = "sample"
  <2>1. PICK n : Dealt(cal, n, held)
    BY <1>2 DEF Whole
  <2>2. n \in Nat \ {0} /\ NBuckets(cal) = n /\ cal.qSize \in Nat
    BY <2>1, BucketCount DEF Dealt, IsCal
  <2>3. newSize' \in Nat \ {0} /\ saved'.lastPrio = given'.ts /\ saved' = cal
    BY <1>1, <1>2, <1>4, <2>2 DEF Whole
  <2>4. samples' = <<>> /\ Entries(samples') = {} /\ Proper(samples') /\ Len(samples') = 0
    BY <1>1, <1>2 DEF Whole, Entries, Proper
  <2>5. held' \ Entries(samples') = held
    BY <1>1, <2>4
  <2>6. Dealt(cal', n, held' \ Entries(samples'))
    BY <1>1, <2>1, <2>5
  <2>7. Sampled'
    <3>1. /\ Dealt(saved', n, held') /\ saved'.width = cal'.width
          /\ saved'.qSize = cal'.qSize
      BY <1>1, <2>1, <2>3
    <3> QED BY <2>3, <2>4, <2>6, <3>1 DEF Sampled
  <2>8. Cardinality(held) \in Nat /\ IsFiniteSet(held)
    BY <1>2, FS_CardinalityType DEF CalHeld
  <2>9. Sampling'
    <3>1. Today(cal') /\ NoneBefore(held, cal'.lastPrio)
      BY <1>1, <1>2 DEF Whole, CalHeld
    <3>2. Cardinality(held' \ Entries(samples')) = Cardinality(held') - Len(samples')
      <4>1. Cardinality(held' \ Entries(samples')) = Cardinality(held)
        BY <2>5
      <4>2. Cardinality(held') = Cardinality(held)
        BY <1>1
      <4> QED BY <2>4, <2>8, <4>1, <4>2
    <3> QED BY <2>5, <2>8, <3>1, <3>2 DEF Sampling
  <2> QED BY <1>2, <1>4, <2>7, <2>9 DEF CalInv
<1> QED BY <1>1, <1>3, <1>4

\* One event more is taken as a sample.
LEMMA TakeSampleKeeps ==
    ASSUME CalInv, TakeSample
    PROVE  CalInv'
<1>1. CalHeld /\ Sampled /\ Sampling
  BY DEF CalInv, TakeSample
<1>2. PICK S : S = held \ Entries(samples)
  OBVIOUS
<1>3. PICK n : Dealt(cal, n, S) /\ Dealt(saved, n, held)
  BY <1>1, <1>2 DEF Sampled
<1>4. CASE ~(cal.qSize >= 2 /\ Len(samples) < NSamples(cal))
  <2>1. UNCHANGED <<cal, samples, newSize, saved, given, held>> /\ call' = "putBack"
    BY <1>4 DEF TakeSample
  <2>2. CalHeld' /\ Sampled'
    BY <1>1, <2>1 DEF CalHeld, Sampled
  <2> QED BY <2>1, <2>2 DEF CalInv
<1>5. CASE cal.qSize >= 2 /\ Len(samples) < NSamples(cal)
  <2>1. PICK ev, m : ev = PeekNext(cal) /\ m = Len(samples)
    OBVIOUS
  <2>2. /\ cal' = DoRemoveNext(cal) /\ samples' = Append(samples, ev)
        /\ UNCHANGED <<newSize, saved, given, held>> /\ call' = "sample"
    BY <1>5, <2>1 DEF TakeSample
  <2>3. m \in Nat /\ cal.qSize \in Nat /\ m < cal.qSize
    <3>1. cal.qSize \in Nat
      BY <1>3 DEF Dealt, IsCal
    <3>2. m \in Nat
      BY <1>1, <2>1 DEF Sampled, Proper
    <3> QED BY <1>5, <2>1, <3>1, <3>2, EnoughSamples
  <2>4. IsFiniteSet(S) /\ Cardinality(S) = cal.qSize - m
    BY <1>1, <1>2, <2>1 DEF Sampling, CalHeld
  <2>5. S # {}
    BY <2>3, <2>4, FS_EmptySet
  <2>6. /\ ev \in S /\ ev \in Key
        /\ Dealt(cal', n, S \ {ev}) /\ Today(cal') /\ cal'.lastPrio = ev.ts
        /\ NoneBefore(S, ev.ts) /\ cal'.qSize = cal.qSize /\ cal'.width = cal.width
    <3>1. Today(cal) /\ NoneBefore(S, cal.lastPrio)
      BY <1>1, <1>2 DEF Sampling
    <3> QED BY <1>3, <2>1, <2>2, <2>5, <3>1, DealtNext
  <2>7. /\ Proper(samples') /\ Entries(samples') = Entries(samples) \cup {ev}
        /\ Len(samples') = m + 1
    <3>1. ev \in held /\ ev \notin Entries(samples)
      BY <1>2, <2>6
    <3>2. \A f \in Entries(samples) : f.uid # ev.uid
      BY <1>1, <3>1 DEF Sampled, CalHeld, UidsDiffer
    <3>3. Proper(samples)
      BY <1>1 DEF Sampled
    <3> QED BY <2>1, <2>2, <2>6, <3>2, <3>3, OneSampleMore
  <2>8. held' \ Entries(samples') = S \ {ev}
    BY <1>2, <2>2, <2>7
  <2>9. Sampled'
    <3>1. Dealt(cal', n, held' \ Entries(samples')) /\ Dealt(saved', n, held')
      BY <1>3, <2>2, <2>6, <2>8
    <3>2. Entries(samples') \in SUBSET held'
      BY <1>1, <1>2, <2>2, <2>6, <2>7 DEF Sampled
    <3> QED BY <1>1, <2>2, <2>6, <2>7, <3>1, <3>2 DEF Sampled
  <2>10. Sampling'
    <3>1. IsFiniteSet(S \ {ev}) /\ Cardinality(S \ {ev}) = cal.qSize - m - 1
      BY <2>4, <2>6, FS_RemoveElement
    <3>2. Cardinality(held') = cal.qSize
      BY <1>1, <2>2 DEF CalHeld
    <3>3. Cardinality(held' \ Entries(samples')) = Cardinality(held') - Len(samples')
      <4>1. Cardinality(held' \ Entries(samples')) = cal.qSize - m - 1
        BY <2>8, <3>1
      <4>2. Len(samples') = m + 1
        BY <2>7
      <4> QED BY <2>3, <3>2, <4>1, <4>2
    <3>4. NoneBefore(S \ {ev}, cal'.lastPrio)
      BY <2>6 DEF NoneBefore
    <3> QED BY <2>6, <2>8, <3>1, <3>3, <3>4 DEF Sampling
  <2>11. CalHeld'
    BY <1>1, <2>2, <2>6 DEF CalHeld
  <2> QED BY <2>2, <2>9, <2>10, <2>11 DEF CalInv
<1> QED BY <1>4, <1>5

\* One sample is put back.
LEMMA PutBackKeeps ==
    ASSUME CalInv, PutBack
    PROVE  CalInv'
<1>1. CalHeld /\ Sampled
  BY DEF CalInv, PutBack
<1>2. PICK ev, S : ev = Head(samples) /\ S = held \ Entries(samples)
  OBVIOUS
<1>3. PICK n : Dealt(cal, n, S) /\ Dealt(saved, n, held)
  BY <1>1, <1>2 DEF Sampled
<1>4. /\ cal' = DoInsert(cal, ev) /\ samples' = Tail(samples) /\ samples # <<>>
      /\ UNCHANGED <<newSize, saved, given, held>> /\ call' = "putBack"
  BY <1>2 DEF PutBack
<1>5. /\ Proper(samples') /\ Entries(samples') = Entries(samples) \ {ev}
      /\ ev \in Entries(samples)
  BY <1>1, <1>2, <1>4, OneSampleLess DEF Sampled
<1>6. ev \in held /\ ev \in Key /\ \A f \in S : f.uid # ev.uid
  <2>1. ev \in held /\ ev \in Key
    BY <1>1, <1>5 DEF Sampled, CalHeld
  <2> QED BY <1>1, <1>2, <1>5, <2>1 DEF CalHeld, UidsDiffer
<1>7. Dealt(cal', n, S \cup {ev}) /\ cal'.qSize = cal.qSize /\ cal'.width = cal.width
  BY <1>3, <1>4, <1>6, DealtInsert
<1>8. held' \ Entries(samples') = S \cup {ev}
  BY <1>2, <1>4, <1>5, <1>6
<1>9. Sampled'
  <2>1. Dealt(cal', n, held' \ Entries(samples')) /\ Dealt(saved', n, held')
    BY <1>3, <1>4, <1>7, <1>8
  <2>2. Entries(samples') \in SUBSET held'
    BY <1>1, <1>4, <1>5 DEF Sampled
  <2> QED BY <1>1, <1>4, <1>5, <1>7, <2>1, <2>2 DEF Sampled
<1>10. CalHeld'
  BY <1>1, <1>4, <1>7 DEF CalHeld
<1> QED BY <1>4, <1>9, <1>10 DEF CalInv

\* DoResize begins.
LEMMA SetAsideKeeps ==
    ASSUME CalInv, SetAside
    PROVE  CalInv'
<1>1. CalHeld /\ Sampled
  BY DEF CalInv, SetAside
<1>2. PICK width \in Nat \ {0} : cal' = 
                 NewCalendar(newSize, width, saved.lastPrio, cal.qSize)
  BY DEF SetAside
<1>3. /\ call' = "deal" /\ old' = cal.buckets /\ samples' = <<>> /\ samples = <<>>
      /\ UNCHANGED <<given, held>>
  BY DEF SetAside
<1>4. PICK n : Dealt(cal, n, held)
  <2>1. held \ Entries(samples) = held
    BY <1>3 DEF Entries
  <2> QED BY <1>1, <2>1 DEF Sampled
<1>5. /\ IsCal(cal, n) /\ held \in SUBSET Key /\ DOMAIN cal.buckets = 0..(n - 1)
      /\ \A i \in 0..(n - 1) :
          /\ InOrder(cal.buckets[i])
          /\ Entries(cal.buckets[i]) = {ev \in held : Hash(cal, ev.ts) = i}
      /\ \A ev \in held : Hash(cal, ev.ts) \in 0..(n - 1)
  BY <1>4, BucketCount DEF Dealt, IsCal, Key
<1>6. /\ \A i \in DOMAIN old' : InOrder(old'[i]) /\ Entries(old'[i]) \in SUBSET held'
      /\ \A i, j \in DOMAIN old' : i # j => Entries(old'[i]) \cap Entries(old'[j]) = {}
  BY <1>3, <1>5
<1>7. InOld' = held
  BY <1>3, <1>5 DEF InOld
<1>8. /\ Dealt(cal', newSize, {}) /\ Today(cal') /\ cal'.lastPrio = saved.lastPrio
      /\ cal'.qSize = cal.qSize
  <2>1. newSize \in Nat \ {0} /\ saved.lastPrio \in Nat /\ cal.qSize \in Nat
    BY <1>1, <1>5 DEF Sampled, CalHeld, Key, IsCal
  <2> QED BY <1>2, <2>1, DealtNew
<1>9. held' \ InOld' = {}
  BY <1>3, <1>7
<1>10. Dealing'
  BY <1>1, <1>3, <1>6, <1>8, <1>9 DEF Dealing, Sampled
<1>11. CalHeld'
  BY <1>1, <1>3, <1>8 DEF CalHeld
<1> QED BY <1>3, <1>10, <1>11 DEF CalInv

\* One event is dealt to its new bucket.
LEMMA DealKeeps ==
    ASSUME CalInv, Deal
    PROVE  CalInv'
<1>1. CalHeld /\ Dealing
  BY DEF CalInv, Deal
<1>2. PICK i \in DOMAIN old : /\ old[i] # <<>>
                              /\ cal' = DoInsert(cal, Head(old[i]))
                              /\ old' = [old EXCEPT ![i] = Tail(@)]
  BY DEF Deal
<1>3. PICK ev, S : ev = Head(old[i]) /\ S = held \ InOld
  OBVIOUS
<1>4. PICK n : Dealt(cal, n, S)
  BY <1>1, <1>3 DEF Dealing
<1>5. call' = "deal" /\ samples' = samples /\ UNCHANGED <<given, held>>
  BY DEF Deal
<1>6. /\ InOrder(Tail(old[i])) /\ Entries(Tail(old[i])) = Entries(old[i]) \ {ev}
      /\ ev \in Entries(old[i])
  <2>1. InOrder(old[i])
    BY <1>1 DEF Dealing
  <2>2. ev \in Entries(old[i])
    BY <1>2, <1>3, <2>1 DEF InOrder, Entries
  <2> QED BY <1>2, <1>3, <2>1, <2>2, TailKeepsOrder
<1>7. ev \in InOld /\ ev \in held /\ ev \in Key /\ \A f \in S : f.uid # ev.uid
  <2>1. ev \in InOld /\ ev \in held /\ ev \in Key
    BY <1>1, <1>6 DEF InOld, Dealing, CalHeld
  <2> QED BY <1>1, <1>3, <2>1 DEF CalHeld, UidsDiffer
<1>8. /\ Dealt(cal', n, S \cup {ev}) /\ cal'.width = cal.width
      /\ cal'.lastPrio = cal.lastPrio /\ cal'.lastBucket = cal.lastBucket
      /\ cal'.bucketTop = cal.bucketTop /\ cal'.qSize = cal.qSize
  <2>1. cal' = DoInsert(cal, ev) /\ ev \in Key /\ \A f \in S : f.uid # ev.uid
    BY <1>2, <1>3, <1>7
  <2> QED BY <1>4, <2>1, DealtInsert
<1>9. /\ DOMAIN old' = DOMAIN old /\ Entries(old'[i]) = Entries(old[i]) \ {ev}
      /\ InOrder(old'[i])
      /\ \A j \in DOMAIN old : j # i => old'[j] = old[j] /\ ev \notin Entries(old[j])
  BY <1>1, <1>2, <1>6 DEF Dealing
<1>10. InOld' = InOld \ {ev}
  <2>1. \A j \in DOMAIN old : Entries(old'[j]) = Entries(old[j]) \ {ev}
    BY <1>9
  <2> QED BY <1>9, <2>1 DEF InOld
<1>11. held' \ InOld' = S \cup {ev}
  BY <1>3, <1>5, <1>7, <1>10
<1>12. \A j \in DOMAIN old' : InOrder(old'[j]) /\ Entries(old'[j]) \in SUBSET held'
  BY <1>1, <1>5, <1>9 DEF Dealing
<1>13. \A j, k \in DOMAIN old' : j # k => Entries(old'[j]) \cap Entries(old'[k]) = {}
  <2>1. \A j \in DOMAIN old : Entries(old'[j]) \subseteq Entries(old[j])
    BY <1>9
  <2> QED BY <1>1, <1>9, <2>1 DEF Dealing
<1>14. Today(cal')
  <2>1. NBuckets(cal) = n /\ NBuckets(cal') = n
    BY <1>4, <1>8, BucketCount DEF Dealt
  <2> QED BY <1>1, <1>8, <2>1 DEF Dealing, Today, Hash, Day
<1>15. Dealing'
  BY <1>1, <1>5, <1>8, <1>11, <1>12, <1>13, <1>14 DEF Dealing
<1>16. CalHeld'
  BY <1>1, <1>5, <1>8 DEF CalHeld
<1> QED BY <1>5, <1>15, <1>16 DEF CalInv

\* All events are dealt.
LEMMA EndDealKeeps ==
    ASSUME CalInv, EndDeal
    PROVE  CalInv'
<1>1. CalHeld /\ Dealing
  BY DEF CalInv, EndDeal
<1>2. call' = "none" /\ UNCHANGED <<cal, samples, given, held>>
  BY DEF EndDeal
<1>3. held \ InOld = held
  BY DEF EndDeal, InOld, Entries
<1>4. Whole'
  BY <1>1, <1>2, <1>3 DEF Dealing, Whole
<1>5. CalHeld'
  BY <1>1, <1>2 DEF CalHeld
<1> QED BY <1>2, <1>4, <1>5 DEF CalInv

\* Every step keeps the invariant, and is a step of Scheduler or none.
LEMMA CalKept ==
    CalInv /\ [CalNext]_cvars => CalInv' /\ [CalContract!Next]_(CalContract!svars)
<1> SUFFICES ASSUME CalInv, [CalNext]_cvars
             PROVE  CalInv' /\ [CalContract!Next]_(CalContract!svars)
  OBVIOUS
<1>1. CASE \E ts, uid \in Nat : CalInsert([ts |-> ts, uid |-> uid])
  BY <1>1, CalInsertKeeps
<1>2. CASE CalTake
  BY <1>2, CalTakeKeeps
<1>3. CASE \E ev \in held : CalRemove(ev)
  BY <1>3, CalRemoveKeeps
<1>4. CASE CalResize
  BY <1>4, CalResizeKeeps DEF CalResize, CalContract!svars
<1>5. CASE TakeSample
  BY <1>5, TakeSampleKeeps DEF TakeSample, CalContract!svars
<1>6. CASE PutBack
  BY <1>6, PutBackKeeps DEF PutBack, CalContract!svars
<1>7. CASE SetAside
  BY <1>7, SetAsideKeeps DEF SetAside, CalContract!svars
<1>8. CASE Deal
  BY <1>8, DealKeeps DEF Deal, CalContract!svars
<1>9. CASE EndDeal
  BY <1>9, EndDealKeeps DEF EndDeal, CalContract!svars
<1>10. CASE UNCHANGED cvars
  <2>1. UNCHANGED <<cal, call, newSize, saved, samples, old, given, held>>
    BY <1>10 DEF cvars, rvars
  <2>2. InOld' = InOld
    BY <2>1 DEF InOld
  <2>3. CalInv'
    BY <2>1, <2>2 DEF CalInv, CalHeld, Whole, Sampled, Sampling, Dealing
  <2> QED BY <2>1, <2>3 DEF CalContract!svars
<1> QED
  BY <1>1, <1>2, <1>3, <1>4, <1>5, <1>6, <1>7, <1>8, <1>9, <1>10 DEF CalNext

\* The invariant, along every behaviour.
LEMMA CalAlways == CalSpec => []CalInv
  BY CalStarts, CalKept, PTL DEF CalSpec

\* Between two calls every event is in the bucket of its day, in order, the
\* counter is right and the search starts at the right day: after any calls, any
\* number of resizes and whatever width these settle on.
THEOREM CalendarRests == CalSpec => []Rested
<1>1. CalInv => Rested
  <2> SUFFICES ASSUME CalInv, call = "none"
               PROVE  /\ UNION {{cal.buckets[i][j] : j \in DOMAIN cal.buckets[i]} :
                                   i \in DOMAIN cal.buckets} = held
                      /\ cal.qSize = Cardinality(held)
                      /\ cal.lastBucket = Hash(cal, given.ts)
                      /\ cal.bucketTop = Day(cal, given.ts)
                      /\ \A i \in DOMAIN cal.buckets :
                            /\ IsSorted(cal.buckets[i])
                            /\ \A j \in DOMAIN cal.buckets[i] :
                                  /\ Hash(cal, cal.buckets[i][j].ts) = i
                                  /\ cal.buckets[i][j].ts >= given.ts
    BY DEF Rested
  <2>1. CalHeld /\ Whole
    BY DEF CalInv
  <2>2. PICK n : Dealt(cal, n, held)
    BY <2>1 DEF Whole
  <2>3. /\ IsCal(cal, n) /\ held \in SUBSET Key /\ DOMAIN cal.buckets = 0..(n - 1)
        /\ \A i \in 0..(n - 1) :
            /\ InOrder(cal.buckets[i])
            /\ Entries(cal.buckets[i]) = {ev \in held : Hash(cal, ev.ts) = i}
        /\ \A ev \in held : Hash(cal, ev.ts) \in 0..(n - 1)
    BY <2>2, BucketCount DEF Dealt, IsCal, Key
  <2>4. UNION {Entries(cal.buckets[i]) : i \in DOMAIN cal.buckets} = held
    BY <2>3
  <2>5. ASSUME NEW i \in DOMAIN cal.buckets
        PROVE  /\ IsSorted(cal.buckets[i])
               /\ \A j \in DOMAIN cal.buckets[i] :
                     /\ Hash(cal, cal.buckets[i][j].ts) = i
                     /\ cal.buckets[i][j].ts >= given.ts
    <3>1. IsSorted(cal.buckets[i])
      BY <2>3 DEF InOrder, IsSorted
    <3>2. ASSUME NEW j \in DOMAIN cal.buckets[i]
          PROVE  /\ Hash(cal, cal.buckets[i][j].ts) = i
                 /\ cal.buckets[i][j].ts >= given.ts
      <4>1. PICK ev : ev = cal.buckets[i][j]
        OBVIOUS
      <4>2. ev \in held /\ Hash(cal, ev.ts) = i
        BY <2>3, <4>1 DEF Entries
      <4>3. ev.ts >= given.ts
        BY <2>1, <4>2 DEF CalHeld, NoneBefore, Key
      <4> QED BY <4>1, <4>2, <4>3
    <3> QED BY <3>1, <3>2
  <2> QED BY <2>1, <2>4, <2>5 DEF CalHeld, Whole, Today, Entries
<1> QED BY <1>1, CalAlways, PTL

\* When all samples are back every bucket is again what it was, and so is the
\* calendar: CalculateNewWidth has no effect but the width it returns.
THEOREM SamplesRestored == CalSpec => []Restored
<1>1. CalInv => Restored
  <2> SUFFICES ASSUME CalInv, call = "putBack", samples = <<>>
               PROVE  [cal EXCEPT !.lastPrio   = saved.lastPrio,
                                  !.lastBucket = saved.lastBucket,
                                  !.bucketTop  = saved.bucketTop] = saved
    BY DEF Restored
  <2>1. Sampled /\ Entries(samples) = {}
    BY DEF CalInv, Entries
  <2>2. held \ Entries(samples) = held
    BY <2>1
  <2>3. PICK n : Dealt(cal, n, held) /\ Dealt(saved, n, held)
    BY <2>1, <2>2 DEF Sampled
  <2>4. /\ cal.buckets = saved.buckets
        /\ saved.width = cal.width /\ saved.qSize = cal.qSize
    BY <2>1, <2>3, SameDeal DEF Sampled
  <2>5. IsCal(cal, n) /\ IsCal(saved, n)
    BY <2>3 DEF Dealt
  <2> QED BY <2>4, <2>5 DEF IsCal
<1> QED BY <1>1, CalAlways, PTL

\* The calendar keeps the contract of the event list, for any number of events.
THEOREM CalendarImplementsScheduler == CalSpec => CalContract!Spec
<1>1. CalInit => CalContract!Init
  BY DEF CalInit, CalContract!Init
<1> QED
  BY <1>1, CalAlways, CalKept, PTL DEF CalSpec, CalContract!Spec
=============================================================================
