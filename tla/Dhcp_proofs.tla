----------------------------- MODULE Dhcp_proofs -----------------------------
(***************************************************************************)
(* Proofs about Dhcp, for every number of clients, every pool, every loss  *)
(* and every choice of times (of one holder, within the margins below).    *)
(***************************************************************************)
EXTENDS Dhcp, Subsequences_proofs
-----------------------------------------------------------------------------
(* The assumptions of the theorems. *)

\* No entry was added before the start.
NoStatic == DOMAIN Static = {}

\* How the times of server and client must fit together.
Margins ==
    /\ Collect >= 2
    /\ Rebind + 2 <= Lease
    /\ NextOffer + Collect + 2 <= Lease
    /\ NextOffer + 2 <= Lease - Renew
    /\ NextOffer + 2 <= Lease - Rebind \/ NextOffer > Lease - Rebind
-----------------------------------------------------------------------------
(* Types. *)

Everyone == Client \cup Other

Event == [what : Kinds, left : Nat, known : BOOLEAN]

Record ==
    [running : BOOLEAN, stopped : BOOLEAN,
     state : {"NONE", "WAIT_OFFER", "WAIT_ACK", "REFRESH_LEASE"},
     offered : BOOLEAN, offers : Seq(Address),
     my : MaybeAddress, req : MaybeAddress, iface : MaybeAddress,
     events : Seq(Event)]

Entry == [addr : Address, left : Nat]

\* Only addresses of the pool are offered.
Answer == {m \in Message : m.type = "OFFER" => m.addr \in Address}

TypeInv ==
    /\ available \in Seq(Address)
    /\ DOMAIN leased \subseteq Everyone
    /\ leased \in [DOMAIN leased -> Entry]
    /\ expired \in Seq(Everyone)
    /\ toServer \in [Everyone -> Seq(Message)]
    /\ toClient \in [Everyone -> Seq(Answer)]
    /\ client \in [Client -> Record]
    /\ time \in 0..MaxTime /\ timerDue \in BOOLEAN /\ lost \in 0..MaxLost
    /\ others \in 0..MaxOther
    /\ asked \in [Other -> 0..(MaxTime + 1)]
    /\ started \in [Client -> 0..(MaxTime + 1)]
-----------------------------------------------------------------------------
(* The pool. *)

Pooled ==
    /\ \A i, j \in DOMAIN available : available[i] = available[j] => i = j
    /\ \A c, d \in DOMAIN leased : leased[c].addr = leased[d].addr => c = d
    /\ \A c \in DOMAIN leased : leased[c].addr \notin ToSet(available)
    /\ \A a \in Address : \/ a \in ToSet(available)
                          \/ \E c \in DOMAIN leased : leased[c].addr = a
    /\ RanOut \subseteq ToSet(expired)

Listed ==
    /\ ToSet(expired) \cap Client \subseteq RanOut
    /\ \A i, j \in DOMAIN expired :
         expired[i] = expired[j] /\ expired[i] \in Client => i = j
-----------------------------------------------------------------------------
(* Sequences and the sets of their elements. *)

\* The last element taken off.
LEMMA SetFront ==
    ASSUME NEW S, NEW seq \in Seq(S), seq # <<>>
    PROVE  /\ Len(seq) \in DOMAIN seq /\ seq[Len(seq)] \in S
           /\ SubSeq(seq, 1, Len(seq) - 1) \in Seq(S)
           /\ DOMAIN SubSeq(seq, 1, Len(seq) - 1) = DOMAIN seq \ {Len(seq)}
           /\ \A i \in DOMAIN SubSeq(seq, 1, Len(seq) - 1) :
                SubSeq(seq, 1, Len(seq) - 1)[i] = seq[i]
<1>1. Len(seq) \in Nat \ {0} /\ DOMAIN seq = 1..Len(seq)
  BY EmptySeq
<1> DEFINE n == Len(seq) - 1
           front == SubSeq(seq, 1, n)
<1>2. n \in Nat /\ n <= Len(seq)
  BY <1>1
<1>3. /\ front \in Seq(S) /\ Len(front) = n
      /\ \A i \in 1..n : front[i] = seq[i]
  <2> HIDE DEF n
  <2> QED BY <1>1, <1>2
<1>4. seq[Len(seq)] \in S
  BY <1>1
<1>5. 1..n = 1..Len(seq) \ {Len(seq)}
  BY <1>1
<1>6. DOMAIN front = 1..n
  BY <1>3
<1> HIDE DEF front
<1> QED BY <1>1, <1>3, <1>4, <1>5, <1>6 DEF front

LEMMA SetConcat ==
    ASSUME NEW S, NEW s \in Seq(S), NEW t \in Seq(S)
    PROVE  /\ s \o t \in Seq(S)
           /\ ToSet(s \o t) = ToSet(s) \cup ToSet(t)
           /\ Len(s) \in Nat /\ DOMAIN s = 1..Len(s)
           /\ \A k \in DOMAIN (s \o t) :
                \/ k \in DOMAIN s /\ (s \o t)[k] = s[k]
                \/ /\ k \in Int /\ k > Len(s) /\ k - Len(s) \in DOMAIN t
                   /\ (s \o t)[k] = t[k - Len(s)]
<1> DEFINE u == s \o t
           n == Len(s)
<1>1. /\ u \in Seq(S) /\ n \in Nat /\ Len(t) \in Nat
      /\ DOMAIN u = 1..(n + Len(t)) /\ DOMAIN s = 1..n /\ DOMAIN t = 1..Len(t)
      /\ \A k \in 1..(n + Len(t)) : u[k] = IF k <= n THEN s[k] ELSE t[k - n]
  <2>1. /\ s \o t \in Seq(S) /\ Len(s \o t) = Len(s) + Len(t)
        /\ \A k \in 1..(Len(s) + Len(t)) :
             (s \o t)[k] = IF k <= Len(s) THEN s[k] ELSE t[k - Len(s)]
    BY ConcatProperties
  <2>2. DOMAIN u = 1..Len(u)
    BY <2>1
  <2> QED BY <2>1, <2>2
<1> HIDE DEF u, n
<1>2. ASSUME NEW k \in DOMAIN u
      PROVE  \/ k \in DOMAIN s /\ u[k] = s[k]
             \/ k \in Int /\ k > n /\ k - n \in DOMAIN t /\ u[k] = t[k - n]
  BY <1>1
<1>3. ToSet(u) \subseteq ToSet(s) \cup ToSet(t)
  BY <1>2 DEF ToSet
<1>4. ToSet(s) \subseteq ToSet(u)
  <2> SUFFICES ASSUME NEW k \in 1..n PROVE s[k] \in ToSet(u)
    BY <1>1 DEF ToSet
  <2>1. k \in DOMAIN u /\ u[k] = s[k]
    BY <1>1
  <2> QED BY <2>1 DEF ToSet
<1>5. ToSet(t) \subseteq ToSet(u)
  <2> SUFFICES ASSUME NEW k \in 1..Len(t) PROVE t[k] \in ToSet(u)
    BY <1>1 DEF ToSet
  <2>1. n + k \in DOMAIN u /\ u[n + k] = t[k]
    BY <1>1
  <2> QED BY <2>1 DEF ToSet
<1>6. ToSet(u) = ToSet(s) \cup ToSet(t)
  BY <1>3, <1>4, <1>5
<1> QED BY <1>1, <1>2, <1>6 DEF u, n

LEMMA SetKept ==
    ASSUME NEW S, NEW seq \in Seq(S), NEW I \in SUBSET (DOMAIN seq)
    PROVE  /\ Kept(seq, I) \in Seq(S)
           /\ ToSet(Kept(seq, I)) = {seq[i] : i \in I}
<1>1. DOMAIN seq = 1..Len(seq) /\ I \in SUBSET (1..Len(seq))
  OBVIOUS
<1> DEFINE q == Kept(seq, I)
<1>2. /\ q \in Seq(S)
      /\ \A i \in I : \E k \in 1..Len(q) : q[k] = seq[i]
      /\ \A k \in 1..Len(q) : \E i \in I : q[k] = seq[i]
  BY <1>1, KeptElements
<1> HIDE DEF q
<1>3. DOMAIN q = 1..Len(q)
  BY <1>2
<1>4. ToSet(q) = {seq[i] : i \in I}
  <2>1. ASSUME NEW k \in DOMAIN q PROVE q[k] \in {seq[i] : i \in I}
    BY <1>2, <1>3
  <2>2. ASSUME NEW i \in I PROVE seq[i] \in {q[k] : k \in DOMAIN q}
    BY <1>2, <1>3
  <2> QED BY <2>1, <2>2 DEF ToSet
<1> QED BY <1>2, <1>4 DEF q

\* One place taken out: the elements at the other places stay.
OthersStay(s, t, i) ==
    /\ \A k \in DOMAIN t : t[k] \in ToSet(s)
    /\ \A k \in DOMAIN s : k # i => s[k] \in ToSet(t)
    /\ \A A : (\A j, k \in DOMAIN s : s[j] \in A /\ s[k] \in A => j = k) =>
                /\ \A j, k \in DOMAIN t : t[j] \in A /\ t[k] \in A => j = k
                /\ s[i] \in A => \A k \in DOMAIN t : t[k] \notin A

LEMMA SetRemoveAt ==
    ASSUME NEW S, NEW s \in Seq(S), NEW i \in DOMAIN s
    PROVE  RemoveAt(s, i) \in Seq(S) /\ OthersStay(s, RemoveAt(s, i), i)
<1> DEFINE n == Len(s)
           a == SubSeq(s, 1, i - 1)
           b == SubSeq(s, i + 1, n)
           t == a \o b
<1>1. n \in Nat /\ DOMAIN s = 1..n /\ i \in 1..n /\ \A k \in 1..n : s[k] \in S
  OBVIOUS
<1>2. /\ a \in Seq(S) /\ Len(a) = i - 1
      /\ \A k \in 1..(i - 1) : a[k] = s[k]
  BY <1>1, SubSeqProperties
<1>3. /\ b \in Seq(S) /\ Len(b) = n - i
      /\ \A k \in 1..(n - i) : b[k] = s[i + k]
  <2>1. /\ b \in Seq(S) /\ Len(b) = n - i
        /\ \A k \in 1..(n - (i + 1) + 1) : b[k] = s[(i + 1) + k - 1]
    <3> DEFINE l == i + 1
    <3>1. l \in Int /\ n \in Int /\ \A k \in l..n : s[k] \in S
      BY <1>1
    <3>2. (IF l <= n THEN n - l + 1 ELSE 0) = n - i
      BY <1>1
    <3> HIDE DEF l
    <3>3. /\ SubSeq(s, l, n) \in Seq(S)
          /\ Len(SubSeq(s, l, n)) = IF l <= n THEN n - l + 1 ELSE 0
          /\ \A k \in 1..(n - l + 1) : SubSeq(s, l, n)[k] = s[l + k - 1]
      BY <3>1, SubSeqProperties
    <3> QED BY <3>2, <3>3 DEF l
  <2>2. ASSUME NEW k \in 1..(n - i) PROVE (i + 1) + k - 1 = i + k
    BY <1>1
  <2>3. n - (i + 1) + 1 = n - i
    BY <1>1
  <2> HIDE DEF b
  <2> QED BY <2>1, <2>2, <2>3
<1> HIDE DEF n, a, b
<1>4. /\ t \in Seq(S) /\ Len(t) = n - 1 /\ DOMAIN t = 1..(n - 1)
      /\ \A k \in 1..(n - 1) : t[k] = IF k <= i - 1 THEN a[k] ELSE b[k - (i - 1)]
  <2>1. /\ t \in Seq(S) /\ Len(t) = Len(a) + Len(b)
        /\ \A k \in 1..(Len(a) + Len(b)) :
             t[k] = IF k <= Len(a) THEN a[k] ELSE b[k - Len(a)]
    <3>1. a \in Seq(S) /\ b \in Seq(S)
      BY <1>2, <1>3
    <3> QED BY <3>1, ConcatProperties
  <2> HIDE DEF t
  <2>2. Len(a) = i - 1 /\ Len(a) + Len(b) = n - 1
    BY <1>1, <1>2, <1>3
  <2>3. DOMAIN t = 1..Len(t)
    BY <2>1
  <2> QED BY <2>1, <2>2, <2>3
<1> HIDE DEF t
<1> DEFINE at(k) == IF k < i THEN k ELSE k + 1
<1>5. ASSUME NEW k \in 1..(n - 1)
      PROVE  at(k) \in 1..n /\ at(k) # i /\ t[k] = s[at(k)]
  <2>1. CASE k < i
    <3>1. k <= i - 1 /\ k \in 1..(i - 1)
      BY <1>1, <2>1
    <3> QED BY <3>1, <1>1, <1>2, <1>4, <2>1
  <2>2. CASE ~(k < i)
    <3>1. ~(k <= i - 1) /\ k - (i - 1) \in 1..(n - i) /\ i + (k - (i - 1)) = k + 1
      BY <1>1, <2>2
    <3>2. t[k] = s[k + 1]
      BY <3>1, <1>3, <1>4
    <3> QED BY <3>2, <1>1, <2>2
  <2> QED BY <2>1, <2>2
<1>6. ASSUME NEW j \in 1..(n - 1), NEW k \in 1..(n - 1), at(j) = at(k)
      PROVE  j = k
  BY <1>1, <1>6
<1>7. ASSUME NEW m \in 1..n, m # i PROVE \E k \in 1..(n - 1) : m = at(k)
  <2>1. CASE m < i
    <3>1. m \in 1..(n - 1) /\ at(m) = m
      BY <1>1, <2>1
    <3> QED BY <3>1
  <2>2. CASE m > i
    <3>1. m - 1 \in 1..(n - 1) /\ at(m - 1) = m
      BY <1>1, <2>2
    <3> QED BY <3>1
  <2> QED BY <1>1, <1>7, <2>1, <2>2
<1> HIDE DEF at
<1>8. \A k \in DOMAIN t : t[k] \in ToSet(s)
  BY <1>1, <1>4, <1>5 DEF ToSet
<1>9. \A k \in DOMAIN s : k # i => s[k] \in ToSet(t)
  <2> SUFFICES ASSUME NEW m \in 1..n, m # i PROVE s[m] \in ToSet(t)
    BY <1>1
  <2>1. PICK k \in 1..(n - 1) : m = at(k)
    BY <1>7
  <2> QED BY <2>1, <1>4, <1>5 DEF ToSet
<1>10. ASSUME NEW A, \A j, k \in DOMAIN s : s[j] \in A /\ s[k] \in A => j = k
       PROVE  /\ \A j, k \in DOMAIN t : t[j] \in A /\ t[k] \in A => j = k
              /\ s[i] \in A => \A k \in DOMAIN t : t[k] \notin A
  <2>1. ASSUME NEW j \in 1..(n - 1), NEW k \in 1..(n - 1), t[j] \in A, t[k] \in A
        PROVE  j = k
    <3>1. at(j) = at(k)
      BY <2>1, <1>1, <1>5, <1>10
    <3> QED BY <3>1, <1>6
  <2>2. ASSUME s[i] \in A, NEW k \in 1..(n - 1), t[k] \in A PROVE FALSE
    BY <2>2, <1>1, <1>5, <1>10
  <2> QED BY <2>1, <2>2, <1>4
<1>11. OthersStay(s, t, i)
  BY <1>8, <1>9, <1>10 DEF OthersStay
<1>12. RemoveAt(s, i) = t
  BY DEF RemoveAt, t, a, b, n
<1> QED BY <1>4, <1>11, <1>12
-----------------------------------------------------------------------------
(* The scheduled calls of a client. *)

AtMostOne(ev, w) ==
    \A i, j \in DOMAIN ev : ev[i].what = w /\ ev[j].what = w => i = j

\* new is added to ev, and those of the same kind are forgotten.
Scheduled(ev, new, ev2) ==
    /\ ev2 \in Seq(Event)
    /\ new \in ToSet(ev2)
    /\ \A e \in ToSet(ev2) :
         \/ e = new
         \/ (e.what # new.what /\ e \in ToSet(ev))
         \/ /\ e.what = new.what /\ ~e.known
            /\ \E f \in ToSet(ev) : f.what = e.what /\ f.left = e.left
    /\ \A f \in ToSet(ev) : f.what # new.what => f \in ToSet(ev2)
    /\ \A w : AtMostOne(ev, w) /\ (new.what = w => \A e \in ToSet(ev) : e.what # w)
                => AtMostOne(ev2, w)

\* The known ones of the kinds whats are removed from ev.
Removed(ev, whats, ev2) ==
    /\ ev2 \in Seq(Event)
    /\ \A e \in ToSet(ev2) : e \in ToSet(ev) /\ ~(e.what \in whats /\ e.known)
    /\ \A e \in ToSet(ev) : (e.what \in whats /\ e.known) \/ e \in ToSet(ev2)
    /\ \A w : AtMostOne(ev, w) => AtMostOne(ev2, w)

\* e is taken out of ev.
Taken(ev, e, ev2) ==
    /\ ev2 \in Seq(Event)
    /\ \A f \in ToSet(ev2) : f \in ToSet(ev)
    /\ \A f \in ToSet(ev) : f # e => f \in ToSet(ev2)
    /\ \A w : AtMostOne(ev, w) =>
         AtMostOne(ev2, w) /\ (e.what = w => \A f \in ToSet(ev2) : f.what # w)

LEMMA SetMembers ==
    ASSUME NEW S, NEW seq \in Seq(S)
    PROVE  /\ \A i \in DOMAIN seq : seq[i] \in ToSet(seq)
           /\ \A x \in ToSet(seq) : x \in S /\ \E i \in DOMAIN seq : seq[i] = x
BY DEF ToSet

LEMMA ScheduleEvents ==
    ASSUME NEW ev \in Seq(Event), NEW what \in Kinds, NEW delay \in Nat
    PROVE  Scheduled(ev, [what |-> what, left |-> delay, known |-> TRUE],
                     Schedule(ev, what, delay))
<1> DEFINE new == [what |-> what, left |-> delay, known |-> TRUE]
           Old(i) == IF ev[i].what = what THEN [ev[i] EXCEPT !.known = FALSE]
                                          ELSE ev[i]
           old == [i \in DOMAIN ev |-> Old(i)]
           ev2 == Append(old, new)
<1>1. Len(ev) \in Nat /\ DOMAIN ev = 1..Len(ev) /\ \A i \in DOMAIN ev : ev[i] \in Event
  OBVIOUS
<1>2. \A i \in DOMAIN ev : /\ Old(i) \in Event
                           /\ Old(i).what = ev[i].what /\ Old(i).left = ev[i].left
                           /\ ev[i].what = what => ~Old(i).known
                           /\ ev[i].what # what => Old(i) = ev[i]
  BY <1>1 DEF Event
<1> HIDE DEF Old
<1>3. old \in Seq(Event) /\ Len(old) = Len(ev)
  <2>1. old \in [1..Len(ev) -> Event]
    BY <1>1, <1>2
  <2> HIDE DEF old
  <2> QED BY <2>1, <1>1, FunctionIsSeq
<1>4. \A i \in DOMAIN ev : old[i] = Old(i)
  OBVIOUS
<1>5. new \in Event /\ new.what = what /\ new.known
  BY DEF Event
<1> HIDE DEF old, new
<1>6. /\ ev2 \in Seq(Event) /\ DOMAIN ev2 = 1..(Len(ev) + 1)
      /\ \A i \in 1..Len(ev) : ev2[i] = old[i]
      /\ ev2[Len(ev) + 1] = new
  <2>1. /\ ev2 \in Seq(Event) /\ Len(ev2) = Len(old) + 1
        /\ \A i \in 1..Len(old) : ev2[i] = old[i]
        /\ ev2[Len(old) + 1] = new
    BY <1>3, <1>5, AppendProperties
  <2> HIDE DEF ev2
  <2> QED BY <2>1, <1>3
<1> HIDE DEF ev2
<1>7. \A i \in DOMAIN ev2 : (i \in DOMAIN ev /\ ev2[i] = Old(i))
                            \/ (i = Len(ev) + 1 /\ ev2[i] = new)
  BY <1>1, <1>4, <1>6
<1>8. new \in ToSet(ev2)
  BY <1>1, <1>6, SetMembers
<1>9. ASSUME NEW e \in ToSet(ev2)
      PROVE  \/ e = new
             \/ (e.what # new.what /\ e \in ToSet(ev))
             \/ /\ e.what = new.what /\ ~e.known
                /\ \E f \in ToSet(ev) : f.what = e.what /\ f.left = e.left
  <2>1. PICK i \in DOMAIN ev2 : ev2[i] = e
    BY <1>6, SetMembers
  <2>2. CASE i \in DOMAIN ev /\ ev2[i] = Old(i)
    <3>1. ev[i] \in ToSet(ev)
      BY <2>2, SetMembers
    <3> QED BY <3>1, <2>1, <2>2, <1>2, <1>5
  <2> QED BY <2>1, <2>2, <1>7
<1>10. ASSUME NEW f \in ToSet(ev), f.what # new.what PROVE f \in ToSet(ev2)
  <2>1. PICK i \in DOMAIN ev : ev[i] = f
    BY SetMembers
  <2>2. ev2[i] = f /\ i \in DOMAIN ev2
    BY <2>1, <1>1, <1>2, <1>4, <1>5, <1>6, <1>10
  <2> QED BY <2>2, <1>6, SetMembers
<1>11. ASSUME NEW w, AtMostOne(ev, w), new.what = w => \A e \in ToSet(ev) : e.what # w
       PROVE  AtMostOne(ev2, w)
  <2> SUFFICES ASSUME NEW i \in DOMAIN ev2, NEW j \in DOMAIN ev2,
                      ev2[i].what = w, ev2[j].what = w
               PROVE  i = j
    BY DEF AtMostOne
  <2>1. \A k \in DOMAIN ev : new.what = w => Old(k).what # w
    BY <1>2, <1>11, SetMembers
  <2>2. CASE i \in DOMAIN ev /\ j \in DOMAIN ev
    BY <2>2, <1>1, <1>2, <1>4, <1>6, <1>11 DEF AtMostOne
  <2> QED BY <2>1, <2>2, <1>7
<1>12. Scheduled(ev, new, ev2)
  BY <1>6, <1>8, <1>9, <1>10, <1>11 DEF Scheduled
<1> QED BY <1>12 DEF new, ev2, old, Old, Schedule

LEMMA RemoveEvents ==
    ASSUME NEW ev \in Seq(Event), NEW whats
    PROVE  Removed(ev, whats, RemoveKnownAll(ev, whats))
<1> DEFINE I == {i \in DOMAIN ev : ~(ev[i].what \in whats /\ ev[i].known)}
           ev2 == Kept(ev, I)
<1>1. I \in SUBSET (DOMAIN ev) /\ DOMAIN ev = 1..Len(ev)
  OBVIOUS
<1>2. \A i \in DOMAIN ev : i \in I <=> ~(ev[i].what \in whats /\ ev[i].known)
  OBVIOUS
<1>3. RemoveKnownAll(ev, whats) = ev2
  BY DEF RemoveKnownAll
<1> HIDE DEF I
<1>4. ev2 \in Seq(Event) /\ ToSet(ev2) = {ev[i] : i \in I}
  BY <1>1, SetKept
<1>5. ASSUME NEW w, AtMostOne(ev, w) PROVE AtMostOne(ev2, w)
  <2> DEFINE A == {e \in Event : e.what = w}
  <2>1. \A i, j \in I : ev[i] \in A /\ ev[j] \in A => i = j
    BY <1>1, <1>5 DEF AtMostOne
  <2>2. \A j \in DOMAIN ev2 : ev2[j].what = w => ev2[j] \in A
    BY <1>4
  <2> HIDE DEF A
  <2>3. \A j, k \in 1..Len(ev2) : ev2[j] \in A /\ ev2[k] \in A => j = k
    BY <1>1, <2>1, KeptOnce
  <2>4. DOMAIN ev2 = 1..Len(ev2)
    BY <1>4
  <2> HIDE DEF ev2
  <2> QED BY <2>2, <2>3, <2>4 DEF AtMostOne
<1> HIDE DEF ev2
<1>6. \A e \in ToSet(ev2) : e \in ToSet(ev) /\ ~(e.what \in whats /\ e.known)
  BY <1>1, <1>2, <1>4, SetMembers
<1>7. \A e \in ToSet(ev) : (e.what \in whats /\ e.known) \/ e \in ToSet(ev2)
  BY <1>2, <1>4, SetMembers
<1> QED BY <1>3, <1>4, <1>5, <1>6, <1>7 DEF Removed

LEMMA RemoveOneKind ==
    ASSUME NEW ev \in Seq(Event), NEW what
    PROVE  Removed(ev, {what}, RemoveKnown(ev, what))
<1>1. RemoveKnown(ev, what) = RemoveKnownAll(ev, {what})
  BY DEF RemoveKnown, RemoveKnownAll
<1> QED BY <1>1, RemoveEvents

LEMMA TakeEvent ==
    ASSUME NEW ev \in Seq(Event), NEW i \in DOMAIN ev
    PROVE  Taken(ev, ev[i], RemoveAt(ev, i))
<1> DEFINE ev2 == RemoveAt(ev, i)
<1>1. ev2 \in Seq(Event) /\ OthersStay(ev, ev2, i)
  BY SetRemoveAt
<1> HIDE DEF ev2
<1>2. \A f \in ToSet(ev2) : f \in ToSet(ev)
  BY <1>1, SetMembers DEF OthersStay
<1>3. \A f \in ToSet(ev) : f # ev[i] => f \in ToSet(ev2)
  BY <1>1, SetMembers DEF OthersStay
<1>4. ASSUME NEW w, AtMostOne(ev, w)
      PROVE  /\ AtMostOne(ev2, w)
             /\ ev[i].what = w => \A f \in ToSet(ev2) : f.what # w
  <2> DEFINE A == {e \in Event : e.what = w}
  <2>1. \A j \in DOMAIN ev : ev[j] \in A <=> ev[j].what = w
    OBVIOUS
  <2>2. \A j \in DOMAIN ev2 : ev2[j] \in A <=> ev2[j].what = w
    BY <1>1
  <2>3. \A j, k \in DOMAIN ev : ev[j] \in A /\ ev[k] \in A => j = k
    BY <1>4, <2>1 DEF AtMostOne
  <2> HIDE DEF A
  <2>4. /\ \A j, k \in DOMAIN ev2 : ev2[j] \in A /\ ev2[k] \in A => j = k
        /\ ev[i] \in A => \A k \in DOMAIN ev2 : ev2[k] \notin A
    BY <1>1, <2>3 DEF OthersStay
  <2>5. AtMostOne(ev2, w)
    BY <2>2, <2>4 DEF AtMostOne
  <2>6. ASSUME ev[i].what = w, NEW f \in ToSet(ev2) PROVE f.what # w
    <3>1. PICK k \in DOMAIN ev2 : ev2[k] = f
      BY <1>1, SetMembers
    <3> QED BY <3>1, <2>1, <2>2, <2>4, <2>6
  <2> QED BY <2>5, <2>6
<1>5. Taken(ev, ev[i], ev2)
  BY <1>1, <1>2, <1>3, <1>4 DEF Taken
<1> QED BY <1>5 DEF ev2
-----------------------------------------------------------------------------
(* Types. *)

LEMMA Constants ==
    /\ Rtrs \in Nat \ {0} /\ Collect \in Nat \ {0} /\ NextOffer \in Nat \ {0}
    /\ Renew \in Nat \ {0} /\ Rebind \in Nat \ {0} /\ Lease \in Nat \ {0}
    /\ Renew < Rebind /\ Rebind < Lease /\ Infinite \in Nat /\ Lease < Infinite
    /\ NoAddress \notin Address /\ Client \cap Other = {}
BY ServerAssumption, ClientAssumption DEF Address

ResultType == [client : Record, send : Seq(Message)]

LEMMA MessageSends ==
    ASSUME NEW r \in Record, NEW m \in Message
    PROVE  /\ Sends(r, m) \in ResultType /\ Sends(r, m).client = r
           /\ Sends(r, m).send = <<m>>
           /\ Silent(r) \in ResultType /\ Silent(r).client = r
           /\ Silent(r).send = <<>>
BY DEF Sends, Silent, ResultType

LEMMA MessageType ==
    ASSUME NEW a \in MaybeAddress
    PROVE  /\ Msg("DISCOVER", NoAddress) \in Message
           /\ Msg("DISCOVER", NoAddress).type = "DISCOVER"
           /\ Msg("REQ", a) \in Message /\ Msg("REQ", a).type = "REQ"
           /\ Msg("ACK", a) \in Answer /\ Msg("ACK", a).type = "ACK"
           /\ Msg("NACK", a) \in Answer /\ Msg("NACK", a).type = "NACK"
           /\ a \in Address => Msg("OFFER", a) \in Answer
           /\ Msg("OFFER", a).type = "OFFER" /\ Msg("OFFER", a).addr = a
BY DEF Msg, Message, Answer, MaybeAddress

\* What Boot makes of a record.
LEMMA BootType ==
    ASSUME NEW r \in Record
    PROVE  LET s == Boot(r).client IN
           /\ Boot(r) \in ResultType
           /\ Boot(r).send = <<Msg("DISCOVER", NoAddress)>>
           /\ s.running = r.running /\ s.stopped = r.stopped
           /\ s.state = "WAIT_OFFER" /\ ~s.offered /\ s.offers = r.offers
           /\ s.my = r.my /\ s.req = r.req /\ s.iface = r.iface
           /\ Scheduled(r.events, [what |-> "Boot", left |-> Rtrs, known |-> TRUE],
                        s.events)
<1> DEFINE ev == Schedule(r.events, "Boot", Rtrs)
           s == [r EXCEPT !.state = "WAIT_OFFER", !.offered = FALSE, !.events = ev]
           m == Msg("DISCOVER", NoAddress)
<1>1. /\ Scheduled(r.events, [what |-> "Boot", left |-> Rtrs, known |-> TRUE], ev)
      /\ ev \in Seq(Event)
  <2>1. r.events \in Seq(Event) /\ "Boot" \in Kinds /\ Rtrs \in Nat
    BY Constants DEF Record, Kinds
  <2>2. Scheduled(r.events, [what |-> "Boot", left |-> Rtrs, known |-> TRUE], ev)
    BY <2>1, ScheduleEvents
  <2> QED BY <2>2 DEF Scheduled
<1>2. Boot(r) = Sends(s, m)
  BY DEF Boot
<1>3. m \in Message
  BY MessageType DEF MaybeAddress
<1> HIDE DEF ev, m
<1>4. /\ s \in Record
      /\ s.running = r.running /\ s.stopped = r.stopped
      /\ s.state = "WAIT_OFFER" /\ ~s.offered /\ s.offers = r.offers
      /\ s.my = r.my /\ s.req = r.req /\ s.iface = r.iface
      /\ s.events = ev
  BY <1>1 DEF Record
<1> HIDE DEF s
<1>5. Boot(r) \in ResultType /\ Boot(r).client = s /\ Boot(r).send = <<m>>
  BY <1>2, <1>3, <1>4, MessageSends
<1> QED BY <1>1, <1>4, <1>5 DEF m

LEMMA StartType ==
    ASSUME NEW r \in Record
    PROVE  LET s == StartApplication(r).client IN
           /\ StartApplication(r) \in ResultType
           /\ StartApplication(r).send = <<Msg("DISCOVER", NoAddress)>>
           /\ s.running /\ s.stopped = r.stopped
           /\ s.state = "WAIT_OFFER" /\ ~s.offered /\ s.offers = r.offers
           /\ s.my = NoAddress /\ s.req = r.req /\ s.iface = r.iface
           /\ Scheduled(r.events, [what |-> "Boot", left |-> Rtrs, known |-> TRUE],
                        s.events)
<1> DEFINE t == [r EXCEPT !.running = TRUE, !.my = NoAddress]
<1>1. /\ t \in Record /\ t.running /\ t.stopped = r.stopped
      /\ t.offers = r.offers /\ t.my = NoAddress /\ t.req = r.req
      /\ t.iface = r.iface /\ t.events = r.events
  BY DEF Record, MaybeAddress
<1>2. StartApplication(r) = Boot(t)
  BY DEF StartApplication
<1> HIDE DEF t
<1> QED BY <1>1, <1>2, BootType

\* The boots are off and the choice among the offers is scheduled.
Gathers(ev, ev2) ==
    \E mid \in Seq(Event) :
        /\ Removed(ev, {"Boot"}, mid)
        /\ ev2 = Append(mid, [what |-> "Select", left |-> Collect, known |-> FALSE])
        /\ ev2 \in Seq(Event)

LEMMA OfferType ==
    ASSUME NEW r \in Record, NEW a \in Address
    PROVE  LET s == OfferHandler(r, a).client IN
           /\ OfferHandler(r, a) \in ResultType
           /\ OfferHandler(r, a).send = <<>>
           /\ s.running = r.running /\ s.stopped = r.stopped
           /\ s.state = r.state /\ s.offered /\ s.offers = Append(r.offers, a)
           /\ s.my = r.my /\ s.req = r.req /\ s.iface = r.iface
           /\ r.offered => s.events = r.events
           /\ ~r.offered => Gathers(r.events, s.events)
<1> DEFINE ev == RemoveKnown(r.events, "Boot")
           new == [what |-> "Select", left |-> Collect, known |-> FALSE]
           offers == Append(r.offers, a)
           ev2 == Append(ev, new)
           s1 == [r EXCEPT !.offers = offers]
           s2 == [r EXCEPT !.offers = offers, !.offered = TRUE, !.events = ev2]
<1>1. ev \in Seq(Event) /\ Removed(r.events, {"Boot"}, ev)
  <2>1. Removed(r.events, {"Boot"}, ev)
    BY RemoveOneKind DEF Record
  <2> QED BY <2>1 DEF Removed
<1>2. new \in Event
  BY Constants DEF Event, Kinds
<1>3. offers \in Seq(Address)
  BY AppendProperties DEF Record
<1>4. OfferHandler(r, a) = Silent(IF r.offered THEN s1 ELSE s2)
  BY DEF OfferHandler, ScheduleUnknown
<1> HIDE DEF ev
<1>5. ev2 \in Seq(Event)
  <2> HIDE DEF new
  <2> QED BY <1>1, <1>2, AppendProperties
<1>6. Gathers(r.events, ev2)
  <2> HIDE DEF ev2
  <2>1. ev2 = Append(ev, [what |-> "Select", left |-> Collect, known |-> FALSE])
    BY DEF ev2
  <2> QED BY <1>1, <1>5, <2>1 DEF Gathers
<1> HIDE DEF ev2, offers, new
<1>7. /\ s1 \in Record
      /\ s1.running = r.running /\ s1.stopped = r.stopped
      /\ s1.state = r.state /\ s1.offered = r.offered /\ s1.offers = offers
      /\ s1.my = r.my /\ s1.req = r.req /\ s1.iface = r.iface
      /\ s1.events = r.events
  BY <1>3 DEF Record
<1>8. /\ s2 \in Record
      /\ s2.running = r.running /\ s2.stopped = r.stopped
      /\ s2.state = r.state /\ s2.offered /\ s2.offers = offers
      /\ s2.my = r.my /\ s2.req = r.req /\ s2.iface = r.iface
      /\ s2.events = ev2
  BY <1>3, <1>5 DEF Record
<1> HIDE DEF s1, s2
<1>9. CASE r.offered
  <2>1. OfferHandler(r, a) = Silent(s1)
    BY <1>4, <1>9
  <2>2. OfferHandler(r, a) \in ResultType /\ OfferHandler(r, a).client = s1
        /\ OfferHandler(r, a).send = <<>>
    BY <1>7, <2>1, MessageSends, MessageType, EmptySeq DEF MaybeAddress
  <2> QED BY <1>7, <1>9, <2>2 DEF offers
<1>10. CASE ~r.offered
  <2>1. OfferHandler(r, a) = Silent(s2)
    BY <1>4, <1>10
  <2>2. OfferHandler(r, a) \in ResultType /\ OfferHandler(r, a).client = s2
        /\ OfferHandler(r, a).send = <<>>
    BY <1>8, <2>1, MessageSends, MessageType, EmptySeq DEF MaybeAddress
  <2> QED BY <1>6, <1>8, <1>10, <2>2 DEF offers
<1> QED BY <1>9, <1>10

LEMMA AskType ==
    ASSUME NEW r \in Record, r.state # "REFRESH_LEASE"
    PROVE  LET s == Request(r).client
               new == [what |-> "NextOffer", left |-> NextOffer, known |-> TRUE]
           IN
           /\ Request(r) \in ResultType
           /\ Request(r).send = <<Msg("REQ", r.req)>>
           /\ s.running = r.running /\ s.stopped = r.stopped
           /\ s.state = "WAIT_ACK" /\ s.offered = r.offered /\ s.offers = r.offers
           /\ s.my = r.my /\ s.req = r.req /\ s.iface = r.iface
           /\ Scheduled(r.events, new, s.events)
<1> DEFINE new == [what |-> "NextOffer", left |-> NextOffer, known |-> TRUE]
           ev == Schedule(r.events, "NextOffer", NextOffer)
           s == [r EXCEPT !.state = "WAIT_ACK", !.events = ev]
           m == Msg("REQ", r.req)
<1>1. Scheduled(r.events, new, ev) /\ ev \in Seq(Event)
  <2>1. r.events \in Seq(Event) /\ "NextOffer" \in Kinds /\ NextOffer \in Nat
    BY Constants DEF Record, Kinds
  <2>2. Scheduled(r.events, new, ev)
    BY <2>1, ScheduleEvents
  <2> QED BY <2>2 DEF Scheduled
<1>2. Request(r) = Sends(s, m)
  BY DEF Request
<1>3. m \in Message
  BY MessageType DEF Record
<1> HIDE DEF ev, m, new
<1>4. /\ s \in Record
      /\ s.running = r.running /\ s.stopped = r.stopped
      /\ s.state = "WAIT_ACK" /\ s.offered = r.offered /\ s.offers = r.offers
      /\ s.my = r.my /\ s.req = r.req /\ s.iface = r.iface /\ s.events = ev
  BY <1>1 DEF Record
<1> HIDE DEF s
<1>5. Request(r) \in ResultType /\ Request(r).client = s /\ Request(r).send = <<m>>
  BY <1>2, <1>3, <1>4, MessageSends
<1> QED BY <1>1, <1>4, <1>5 DEF m, new

LEMMA RefreshType ==
    ASSUME NEW r \in Record, r.state = "REFRESH_LEASE"
    PROVE  LET s == Request(r).client IN
           /\ Request(r) \in ResultType
           /\ Request(r).send = <<Msg("REQ", r.my)>>
           /\ s.running = r.running /\ s.stopped = r.stopped
           /\ s.state = "WAIT_ACK" /\ s.offered = r.offered /\ s.offers = r.offers
           /\ s.my = r.my /\ s.req = r.my /\ s.iface = r.iface
           /\ s.events = r.events
<1> DEFINE s == [r EXCEPT !.state = "WAIT_ACK", !.req = r.my]
           m == Msg("REQ", r.my)
<1>1. Request(r) = Sends(s, m)
  BY DEF Request
<1>2. m \in Message
  BY MessageType DEF Record
<1> HIDE DEF m
<1>3. /\ s \in Record
      /\ s.running = r.running /\ s.stopped = r.stopped
      /\ s.state = "WAIT_ACK" /\ s.offered = r.offered /\ s.offers = r.offers
      /\ s.my = r.my /\ s.req = r.my /\ s.iface = r.iface /\ s.events = r.events
  BY DEF Record
<1> HIDE DEF s
<1> QED BY <1>1, <1>2, <1>3, MessageSends DEF m

\* The record with which Select makes its request.
Chosen(r) == [r EXCEPT !.req = Head(r.offers), !.offers = <<>>, !.offered = FALSE]

LEMMA ChosenType ==
    ASSUME NEW r \in Record, r.offers # <<>>
    PROVE  LET s == Chosen(r) IN
           /\ Select(r) = Request(s)
           /\ s \in Record
           /\ s.running = r.running /\ s.stopped = r.stopped /\ s.state = r.state
           /\ ~s.offered /\ s.offers = <<>>
           /\ s.my = r.my /\ s.req = Head(r.offers) /\ s.iface = r.iface
           /\ s.events = r.events
           /\ Head(r.offers) \in ToSet(r.offers) /\ Head(r.offers) \in Address
<1> DEFINE h == Head(r.offers)
           s == [r EXCEPT !.req = h, !.offers = <<>>, !.offered = FALSE]
<1>1. h \in ToSet(r.offers) /\ h \in Address
  BY SetTail DEF Record
<1>2. Select(r) = Request(s) /\ Chosen(r) = s
  BY DEF Select, Chosen
<1> HIDE DEF h
<1>3. <<>> \in Seq(Address) /\ h \in MaybeAddress
  BY <1>1 DEF MaybeAddress
<1>4. /\ s \in Record
      /\ s.running = r.running /\ s.stopped = r.stopped /\ s.state = r.state
      /\ ~s.offered /\ s.offers = <<>>
      /\ s.my = r.my /\ s.req = h /\ s.iface = r.iface
      /\ s.events = r.events
  BY <1>3 DEF Record
<1> HIDE DEF s
<1> QED BY <1>1, <1>2, <1>4 DEF h

LEMMA SelectType ==
    ASSUME NEW r \in Record
    PROVE  Select(r) \in ResultType /\ Request(r) \in ResultType
<1>1. \A q \in Record : Request(q) \in ResultType
  BY AskType, RefreshType
<1>2. CASE r.offers = <<>>
  <2>1. Select(r) = Boot(r)
    BY <1>2 DEF Select
  <2> QED BY <2>1, <1>1, BootType
<1>3. CASE r.offers # <<>>
  BY <1>1, <1>3, ChosenType
<1> QED BY <1>2, <1>3

OfLease == {"Renew", "Rebind", "Timeout"}

Call(what, left) == [what |-> what, left |-> left, known |-> TRUE]

\* The calls of a lease that was acknowledged just now.
Fresh == {Call("Renew", Renew), Call("Rebind", Rebind), Call("Timeout", Lease)}

Renewed(ev, ev2) ==
    (\A e \in ToSet(ev) : e.what \in OfLease => e.known) =>
        /\ \A e \in ToSet(ev2) :
             e \in Fresh \/ (e.what \notin OfLease /\ e \in ToSet(ev))
        /\ \A e \in ToSet(ev) : e.what \notin OfLease => e \in ToSet(ev2)
        /\ Call("Timeout", Lease) \in ToSet(ev2)
        /\ AtMostOne(ev2, "Rebind")

LEMMA CallType ==
    ASSUME NEW what \in Kinds, NEW left \in Nat
    PROVE  /\ Call(what, left) \in Event /\ Call(what, left).what = what
           /\ Call(what, left).left = left /\ Call(what, left).known
BY DEF Call, Event

\* ev2 is ev with one call of a kind that ev does not have.
LEMMA ScheduleFirst ==
    ASSUME NEW ev \in Seq(Event), NEW what \in Kinds, NEW left \in Nat,
           NEW ev2, ev2 = Schedule(ev, what, left),
           \A e \in ToSet(ev) : e.what # what
    PROVE  /\ ev2 \in Seq(Event)
           /\ Call(what, left) \in ToSet(ev2)
           /\ \A e \in ToSet(ev2) : e = Call(what, left) \/ e \in ToSet(ev)
           /\ \A e \in ToSet(ev) : e \in ToSet(ev2)
           /\ \A w : AtMostOne(ev, w) => AtMostOne(ev2, w)
<1> DEFINE new == Call(what, left)
<1>1. new.what = what
  BY CallType
<1>2. Scheduled(ev, new, ev2)
  BY ScheduleEvents DEF Call
<1> HIDE DEF new
<1>3. ASSUME NEW e \in ToSet(ev2) PROVE e = new \/ e \in ToSet(ev)
  BY <1>1, <1>2 DEF Scheduled
<1>4. \A e \in ToSet(ev) : e \in ToSet(ev2)
  BY <1>1, <1>2 DEF Scheduled
<1>5. \A w : AtMostOne(ev, w) => AtMostOne(ev2, w)
  BY <1>1, <1>2 DEF Scheduled
<1>6. ev2 \in Seq(Event) /\ new \in ToSet(ev2)
  BY <1>2 DEF Scheduled
<1> QED BY <1>3, <1>4, <1>5, <1>6 DEF new

LEMMA NoneAtMostOne ==
    ASSUME NEW ev \in Seq(Event), NEW w, \A e \in ToSet(ev) : e.what # w
    PROVE  AtMostOne(ev, w)
BY SetMembers DEF AtMostOne

LEMMA ScheduleLeaseCalls ==
    ASSUME NEW ev \in Seq(Event)
    PROVE  LET ev2 == Schedule(Schedule(Schedule(RemoveKnownAll(ev, OfLease),
                          "Renew", Renew), "Rebind", Rebind), "Timeout", Lease)
           IN  ev2 \in Seq(Event) /\ Renewed(ev, ev2)
<1> DEFINE e0 == RemoveKnownAll(ev, OfLease)
           e1 == Schedule(e0, "Renew", Renew)
           e2 == Schedule(e1, "Rebind", Rebind)
           e3 == Schedule(e2, "Timeout", Lease)
<1>1. Removed(ev, OfLease, e0) /\ e0 \in Seq(Event)
  BY RemoveEvents DEF Removed
<1>2. /\ Renew \in Nat /\ Rebind \in Nat /\ Lease \in Nat
      /\ "Renew" \in Kinds /\ "Rebind" \in Kinds /\ "Timeout" \in Kinds
  BY Constants DEF Kinds
<1> HIDE DEF e0
<1>3. e3 \in Seq(Event)
  <2>1. e1 \in Seq(Event)
    BY <1>1, <1>2, ScheduleEvents DEF Scheduled
  <2> HIDE DEF e1
  <2>2. e2 \in Seq(Event)
    BY <2>1, <1>2, ScheduleEvents DEF Scheduled
  <2> HIDE DEF e2
  <2> QED BY <2>2, <1>2, ScheduleEvents DEF Scheduled
<1>4. ASSUME \A e \in ToSet(ev) : e.what \in OfLease => e.known
      PROVE  /\ \A e \in ToSet(e3) :
                  e \in Fresh \/ (e.what \notin OfLease /\ e \in ToSet(ev))
             /\ \A e \in ToSet(ev) : e.what \notin OfLease => e \in ToSet(e3)
             /\ Call("Timeout", Lease) \in ToSet(e3)
             /\ AtMostOne(e3, "Rebind")
  <2>1. /\ \A e \in ToSet(e0) : e.what \notin OfLease /\ e \in ToSet(ev)
        /\ \A e \in ToSet(ev) : e.what \notin OfLease => e \in ToSet(e0)
    BY <1>1, <1>4 DEF Removed
  <2> DEFINE renew == Call("Renew", Renew)
             rebind == Call("Rebind", Rebind)
             end == Call("Timeout", Lease)
  <2>2. renew.what = "Renew" /\ rebind.what = "Rebind" /\ end.what = "Timeout"
    BY <1>2, CallType
  <2>3. \A e \in ToSet(e0) : e.what # "Renew" /\ e.what # "Rebind" /\ e.what # "Timeout"
    BY <2>1 DEF OfLease
  <2>4. AtMostOne(e0, "Rebind")
    BY <1>1, <2>3, NoneAtMostOne
  <2>5. /\ e1 \in Seq(Event)
        /\ \A e \in ToSet(e1) : e = renew \/ e \in ToSet(e0)
        /\ \A e \in ToSet(e0) : e \in ToSet(e1)
    <3> HIDE DEF renew
    <3> QED BY <1>1, <1>2, <2>3, ScheduleFirst DEF renew
  <2> HIDE DEF renew, rebind, end, e1
  <2>6. \A e \in ToSet(e1) : e.what # "Rebind" /\ e.what # "Timeout"
    BY <2>2, <2>3, <2>5
  <2>7. /\ e2 \in Seq(Event)
        /\ \A e \in ToSet(e2) : e = rebind \/ e \in ToSet(e1)
        /\ \A e \in ToSet(e1) : e \in ToSet(e2)
    BY <1>2, <2>5, <2>6, ScheduleFirst DEF rebind
  <2>8. AtMostOne(e2, "Rebind")
    <3>1. Scheduled(e1, rebind, e2)
      BY <1>2, <2>5, ScheduleEvents DEF rebind, Call
    <3>2. AtMostOne(e1, "Rebind")
      BY <2>5, <2>6, NoneAtMostOne
    <3> QED BY <3>1, <3>2, <2>2, <2>6 DEF Scheduled
  <2> HIDE DEF e2
  <2>9. \A e \in ToSet(e2) : e.what # "Timeout"
    BY <2>2, <2>6, <2>7
  <2>10. /\ end \in ToSet(e3)
         /\ \A e \in ToSet(e3) : e = end \/ e \in ToSet(e2)
         /\ \A e \in ToSet(e2) : e \in ToSet(e3)
         /\ AtMostOne(e3, "Rebind")
    BY <1>2, <2>7, <2>8, <2>9, ScheduleFirst DEF end
  <2> HIDE DEF e3
  <2>11. Fresh = {renew, rebind, end}
    BY DEF Fresh, renew, rebind, end
  <2>12. ASSUME NEW e \in ToSet(e3)
         PROVE  e \in Fresh \/ (e.what \notin OfLease /\ e \in ToSet(ev))
    BY <2>1, <2>5, <2>7, <2>10, <2>11
  <2>13. ASSUME NEW e \in ToSet(ev), e.what \notin OfLease PROVE e \in ToSet(e3)
    BY <2>1, <2>5, <2>7, <2>10, <2>13
  <2>14. Call("Timeout", Lease) \in ToSet(e3)
    BY <2>10 DEF end
  <2> QED BY <2>10, <2>12, <2>13, <2>14
<1>5. Renewed(ev, e3)
  <2> HIDE DEF e3
  <2> QED BY <1>4 DEF Renewed
<1> QED BY <1>3, <1>5 DEF e0, e1, e2, e3

LEMMA AcceptType ==
    ASSUME NEW r \in Record
    PROVE  LET s == AcceptAck(r).client IN
           /\ AcceptAck(r) \in ResultType
           /\ AcceptAck(r).send = <<>>
           /\ s.running = r.running /\ s.stopped = r.stopped
           /\ s.state = "REFRESH_LEASE" /\ s.offered = r.offered /\ s.offers = <<>>
           /\ s.my = r.req /\ s.req = r.req /\ s.iface = r.req
           /\ Renewed(r.events, s.events)
<1> DEFINE ev == Schedule(Schedule(Schedule(
                    RemoveKnownAll(r.events, {"Rebind", "Renew", "Timeout"}),
                    "Renew", Renew), "Rebind", Rebind), "Timeout", Lease)
           s == [r EXCEPT !.my = r.req, !.iface = r.req, !.offers = <<>>,
                          !.state = "REFRESH_LEASE", !.events = ev]
<1>1. ev \in Seq(Event) /\ Renewed(r.events, ev)
  <2>1. {"Rebind", "Renew", "Timeout"} = OfLease
    BY DEF OfLease
  <2> QED BY <2>1, ScheduleLeaseCalls DEF Record
<1>2. AcceptAck(r) = Silent(s)
  BY DEF AcceptAck
<1> HIDE DEF ev
<1>3. <<>> \in Seq(Address)
  OBVIOUS
<1>4. /\ s \in Record
      /\ s.running = r.running /\ s.stopped = r.stopped
      /\ s.state = "REFRESH_LEASE" /\ s.offered = r.offered /\ s.offers = <<>>
      /\ s.my = r.req /\ s.req = r.req /\ s.iface = r.req /\ s.events = ev
  BY <1>1, <1>3 DEF Record
<1> HIDE DEF s
<1>5. /\ AcceptAck(r) \in ResultType /\ AcceptAck(r).client = s
      /\ AcceptAck(r).send = <<>>
  <2>1. Msg("DISCOVER", NoAddress) \in Message
    BY MessageType DEF MaybeAddress
  <2> QED BY <2>1, <1>2, <1>4, MessageSends
<1> QED BY <1>1, <1>4, <1>5

\* The calls that the end of the lease cancels.
Cancelled == {"NextOffer", "Renew", "Rebind", "Timeout"}

LEMMA RestartType ==
    ASSUME NEW r \in Record
    PROVE  LET s == RemoveAndStart(r).client IN
           /\ RemoveAndStart(r) \in ResultType
           /\ RemoveAndStart(r).send = <<Msg("DISCOVER", NoAddress)>>
           /\ s.running /\ s.stopped = r.stopped
           /\ s.state = "WAIT_OFFER" /\ ~s.offered /\ s.offers = r.offers
           /\ s.req = r.req /\ s.iface = NoAddress
           /\ \E ev \in Seq(Event) : /\ Removed(r.events, Cancelled, ev)
                                     /\ Scheduled(ev, Call("Boot", Rtrs), s.events)
<1> DEFINE ev == RemoveKnownAll(r.events, Cancelled)
           t == [r EXCEPT !.iface = NoAddress, !.events = ev]
<1>1. Removed(r.events, Cancelled, ev) /\ ev \in Seq(Event)
  BY RemoveEvents DEF Record, Removed
<1>2. RemoveAndStart(r) = StartApplication(t)
  BY DEF RemoveAndStart, Cancelled
<1> HIDE DEF ev
<1>3. /\ t \in Record /\ t.stopped = r.stopped /\ t.offers = r.offers
      /\ t.req = r.req /\ t.iface = NoAddress /\ t.events = ev
  BY <1>1 DEF Record, MaybeAddress
<1> HIDE DEF t
<1>4. Scheduled(ev, Call("Boot", Rtrs), StartApplication(t).client.events)
  BY <1>3, StartType DEF Call
<1> QED BY <1>1, <1>2, <1>3, <1>4, StartType

LEMMA ForgetType ==
    ASSUME NEW r \in Record, NEW ev \in Seq(Event)
    PROVE  LET s == [r EXCEPT !.events = ev] IN
           /\ s \in Record
           /\ s.running = r.running /\ s.stopped = r.stopped
           /\ s.state = r.state /\ s.offered = r.offered /\ s.offers = r.offers
           /\ s.my = r.my /\ s.req = r.req /\ s.iface = r.iface /\ s.events = ev
BY DEF Record

LEMMA StopType ==
    ASSUME NEW r \in Record, NEW ev \in Seq(Event)
    PROVE  LET s == [r EXCEPT !.stopped = TRUE, !.iface = NoAddress, !.events = ev]
           IN
           /\ s \in Record
           /\ s.running = r.running /\ s.stopped
           /\ s.state = r.state /\ s.offered = r.offered /\ s.offers = r.offers
           /\ s.my = r.my /\ s.req = r.req /\ s.iface = NoAddress /\ s.events = ev
BY DEF Record, MaybeAddress

LEMMA HandleType ==
    ASSUME NEW r \in Record, NEW m \in Answer
    PROVE  Handle(r, m) \in ResultType
<1> DEFINE t == [r EXCEPT !.events = RemoveKnown(r.events, "NextOffer")]
<1>1. t \in Record
  <2>1. RemoveKnown(r.events, "NextOffer") \in Seq(Event)
    BY RemoveOneKind DEF Record, Removed
  <2> QED BY <2>1, ForgetType
<1>2. CASE r.state = "WAIT_OFFER" /\ m.type = "OFFER"
  <2>1. m.addr \in Address /\ Handle(r, m) = OfferHandler(r, m.addr)
    BY <1>2 DEF Handle, Answer
  <2> QED BY <2>1, OfferType
<1>3. CASE r.state = "WAIT_ACK" /\ m.type = "ACK"
  <2>1. Handle(r, m) = AcceptAck(t)
    BY <1>3 DEF Handle
  <2> HIDE DEF t
  <2> QED BY <2>1, <1>1, AcceptType
<1>4. CASE r.state = "WAIT_ACK" /\ m.type = "NACK"
  <2>1. Handle(r, m) = Boot(t)
    BY <1>4 DEF Handle
  <2> HIDE DEF t
  <2> QED BY <2>1, <1>1, BootType
<1>5. CASE /\ ~(r.state = "WAIT_OFFER" /\ m.type = "OFFER")
           /\ ~(r.state = "WAIT_ACK" /\ m.type \in {"ACK", "NACK"})
  <2>1. Handle(r, m) = Silent(r)
    BY <1>5 DEF Handle
  <2> QED BY <2>1, MessageSends, MessageType DEF MaybeAddress
<1> QED BY <1>2, <1>3, <1>4, <1>5

LEMMA FireType ==
    ASSUME NEW r \in Record, NEW what \in Kinds
    PROVE  Fire(r, what) \in ResultType
<1>1. CASE what = "Boot"
  BY <1>1, BootType DEF Fire
<1>2. CASE what \in {"Select", "NextOffer"}
  BY <1>2, SelectType DEF Fire
<1>3. CASE what \in {"Renew", "Rebind"}
  BY <1>3, SelectType DEF Fire
<1>4. CASE what = "Timeout"
  BY <1>4, RestartType DEF Fire
<1> QED BY <1>1, <1>2, <1>3, <1>4 DEF Kinds
-----------------------------------------------------------------------------
(* The map of the leases. *)

LEMMA WithoutValue ==
    ASSUME NEW f, NEW c, NEW g, g = Without(f, c)
    PROVE  /\ DOMAIN g = DOMAIN f \ {c}
           /\ \A d \in DOMAIN f \ {c} : g[d] = f[d]
BY DEF Without

LEMMA NewLeaseType ==
    ASSUME NEW a \in Address
    PROVE  NewLease(a) \in Entry /\ NewLease(a).addr = a /\ NewLease(a).left = Lease
BY Constants DEF NewLease, Entry

\* The leases after an address went to a new client.
LEMMA WithType ==
    ASSUME NEW f, NEW D, f \in [D -> Entry], D \subseteq Everyone,
           NEW c \in Everyone, NEW a \in Address,
           NEW g, g = With(f, c, NewLease(a))
    PROVE  /\ DOMAIN g = D \cup {c} /\ DOMAIN g \subseteq Everyone
           /\ g \in [DOMAIN g -> Entry]
BY NewLeaseType DEF With

LEMMA WithoutType ==
    ASSUME NEW f, NEW D, f \in [D -> Entry], D \subseteq Everyone, NEW c,
           NEW g, g = Without(f, c)
    PROVE  /\ DOMAIN g = D \ {c} /\ DOMAIN g \subseteq Everyone
           /\ g \in [DOMAIN g -> Entry]
BY DEF Without
-----------------------------------------------------------------------------
(* Type correctness. *)

LEMMA AppendTo ==
    ASSUME NEW S, NEW T, NEW f \in [S -> Seq(T)], NEW c \in S, NEW x \in T,
           NEW g, g = [f EXCEPT ![c] = Append(@, x)]
    PROVE  /\ g \in [S -> Seq(T)] /\ g[c] = Append(f[c], x)
           /\ \A d \in S : d # c => g[d] = f[d]
<1>1. Append(f[c], x) \in Seq(T)
  BY AppendProperties
<1> QED BY <1>1

LEMMA TailOf ==
    ASSUME NEW S, NEW T, NEW f \in [S -> Seq(T)], NEW c \in S, f[c] # <<>>,
           NEW g, g = [f EXCEPT ![c] = Tail(@)]
    PROVE  /\ g \in [S -> Seq(T)] /\ g[c] = Tail(f[c])
           /\ \A d \in S : d # c => g[d] = f[d]
           /\ Head(f[c]) \in T
<1>1. Tail(f[c]) \in Seq(T) /\ Head(f[c]) \in T
  BY SetTail
<1> QED BY <1>1

LEMMA ConcatTo ==
    ASSUME NEW S, NEW T, NEW f \in [S -> Seq(T)], NEW c \in S, NEW s \in Seq(T),
           NEW g, g = [f EXCEPT ![c] = @ \o s]
    PROVE  /\ g \in [S -> Seq(T)] /\ g[c] = f[c] \o s
           /\ \A d \in S : d # c => g[d] = f[d]
<1>1. f[c] \o s \in Seq(T)
  BY ConcatProperties
<1> QED BY <1>1

\* The types of what the server keeps and of the messages to the clients.
ServerType ==
    /\ available \in Seq(Address)
    /\ DOMAIN leased \subseteq Everyone
    /\ leased \in [DOMAIN leased -> Entry]
    /\ expired \in Seq(Everyone)
    /\ toClient \in [Everyone -> Seq(Answer)]

LEMMA OfferKnownType ==
    ASSUME ServerType, NEW c \in Everyone, OfferKnown(c)
    PROVE  ServerType'
<1> USE DEF ServerType
<1>1. leased[c] \in Entry /\ leased[c].addr \in Address
  BY DEF OfferKnown, Known, Entry
<1>2. leased' = [leased EXCEPT ![c] = NewLease(leased[c].addr)]
  BY DEF OfferKnown
<1>3. DOMAIN leased' \subseteq Everyone /\ leased' \in [DOMAIN leased' -> Entry]
  BY <1>1, <1>2, NewLeaseType
<1>4. expired' \in Seq(Everyone)
  BY WithinType DEF OfferKnown, Everyone
<1>5. toClient' \in [Everyone -> Seq(Answer)]
  <2> DEFINE m == Msg("OFFER", leased[c].addr)
  <2>1. m \in Answer
    BY <1>1, MessageType DEF MaybeAddress
  <2>2. toClient' = [toClient EXCEPT ![c] = Append(@, m)]
    BY DEF OfferKnown
  <2> HIDE DEF m
  <2> QED BY <2>1, <2>2, AppendTo
<1> QED BY <1>3, <1>4, <1>5 DEF OfferKnown

LEMMA OfferNewType ==
    ASSUME ServerType, NEW c \in Everyone, OfferNew(c)
    PROVE  ServerType'
<1> USE DEF ServerType
<1> DEFINE a == Head(available)
           m == Msg("OFFER", a)
<1>1. available # <<>> /\ available' = Tail(available) /\ expired' = expired
      /\ leased' = With(leased, c, NewLease(a))
      /\ toClient' = [toClient EXCEPT ![c] = Append(@, m)]
  BY DEF OfferNew
<1>2. a \in Address /\ available' \in Seq(Address)
  BY <1>1, SetTail
<1>3. m \in Answer
  BY <1>2, MessageType DEF MaybeAddress
<1> HIDE DEF a, m
<1>4. DOMAIN leased' \subseteq Everyone /\ leased' \in [DOMAIN leased' -> Entry]
  BY <1>1, <1>2, WithType
<1>5. toClient' \in [Everyone -> Seq(Answer)]
  BY <1>1, <1>3, AppendTo
<1> QED BY <1>1, <1>2, <1>4, <1>5

LEMMA OfferOldType ==
    ASSUME ServerType, NEW c \in Everyone, OfferOld(c)
    PROVE  ServerType'
<1> USE DEF ServerType
<1> DEFINE oldest == expired[Len(expired)]
           a == leased[oldest].addr
           m == Msg("OFFER", a)
           rest == Without(leased, oldest)
<1>1. /\ expired # <<>> /\ available' = available
      /\ expired' = SubSeq(expired, 1, Len(expired) - 1)
      /\ \/ /\ Known(oldest)
            /\ leased' = With(rest, c, NewLease(a))
            /\ toClient' = [toClient EXCEPT ![c] = Append(@, m)]
         \/ /\ ~Known(oldest)
            /\ UNCHANGED <<leased, toClient>>
  BY DEF OfferOld
<1>2. expired' \in Seq(Everyone)
  BY <1>1, SetFront
<1>3. CASE ~Known(oldest)
  BY <1>1, <1>2, <1>3
<1>4. CASE Known(oldest)
  <2>1. a \in Address
    BY <1>4 DEF Known, Entry
  <2>2. m \in Answer
    BY <2>1, MessageType DEF MaybeAddress
  <2>3. /\ leased' = With(rest, c, NewLease(a))
        /\ toClient' = [toClient EXCEPT ![c] = Append(@, m)]
    BY <1>1, <1>4
  <2>4. rest \in [DOMAIN rest -> Entry] /\ DOMAIN rest \subseteq Everyone
    <3>1. leased \in [DOMAIN leased -> Entry] /\ DOMAIN leased \subseteq Everyone
      OBVIOUS
    <3> HIDE DEF ServerType, oldest
    <3>2. rest = Without(leased, oldest)
      OBVIOUS
    <3> HIDE DEF rest
    <3> QED BY <3>1, <3>2, WithoutType
  <2> HIDE DEF oldest, a, m, rest
  <2>5. DOMAIN leased' \subseteq Everyone /\ leased' \in [DOMAIN leased' -> Entry]
    BY <2>1, <2>3, <2>4, WithType
  <2>6. toClient' \in [Everyone -> Seq(Answer)]
    BY <2>2, <2>3, AppendTo
  <2> QED BY <1>1, <1>2, <2>5, <2>6
<1> QED BY <1>3, <1>4

LEMMA SendAckType ==
    ASSUME ServerType, NEW c \in Everyone, NEW a \in Address, SendAck(c, a)
    PROVE  ServerType'
<1> USE DEF ServerType
<1>1. Msg("ACK", a) \in Answer /\ Msg("NACK", a) \in Answer
  BY MessageType DEF MaybeAddress
<1>2. toClient' \in [Everyone -> Seq(Answer)]
  <2>1. ASSUME NEW m \in Answer, toClient' = [toClient EXCEPT ![c] = Append(@, m)]
        PROVE  toClient' \in [Everyone -> Seq(Answer)]
    BY <2>1, AppendTo
  <2> QED BY <1>1, <2>1 DEF SendAck
<1>3. CASE Known(c)
  <2>1. leased[c] \in Entry
    BY <1>3 DEF Known
  <2> DEFINE e == leased[c]
             v == [e EXCEPT !.left = Extended(e.left)]
  <2>2. v \in Entry
    <3>1. e \in Entry /\ Lease \in Nat
      BY <2>1, Constants
    <3> HIDE DEF e, ServerType
    <3>2. Extended(e.left) \in Nat
      BY <3>1 DEF Entry, Extended
    <3> QED BY <3>1, <3>2 DEF Entry
  <2>3. leased' = [leased EXCEPT ![c] = v]
    BY <1>3 DEF SendAck
  <2> HIDE DEF v
  <2>4. DOMAIN leased' \subseteq Everyone /\ leased' \in [DOMAIN leased' -> Entry]
    BY <2>2, <2>3
  <2> QED BY <1>2, <2>4 DEF SendAck
<1>4. CASE ~Known(c)
  BY <1>2, <1>4 DEF SendAck
<1> QED BY <1>3, <1>4

LEMMA ServerReceivesType ==
    ASSUME TypeInv, NEW c \in Everyone, ServerReceives(c)
    PROVE  ServerType' /\ toServer' \in [Everyone -> Seq(Message)]
<1>1. ServerType
  BY DEF TypeInv, ServerType
<1>2. toServer' \in [Everyone -> Seq(Message)]
  BY TailOf DEF TypeInv, ServerReceives
<1>3. CASE SendOffer(c)
  <2>1. CASE OfferNone(c)
    <3>1. UNCHANGED <<available, leased, expired, toClient>>
      BY <2>1 DEF OfferNone, server
    <3> QED BY <1>1, <1>2, <3>1 DEF ServerType
  <2> QED BY <1>1, <1>2, <1>3, <2>1, OfferKnownType, OfferNewType, OfferOldType
          DEF SendOffer
<1>4. CASE \E a \in Address : SendAck(c, a)
  BY <1>1, <1>2, <1>4, SendAckType
<1>5. CASE UNCHANGED <<server, toClient>>
  BY <1>1, <1>2, <1>5 DEF server, ServerType
<1> QED BY <1>3, <1>4, <1>5 DEF ServerReceives

\* What the timer makes of the leases and of the list of those that ran out.
Timed(order) ==
    /\ order \in Seq(Ending) /\ ToSet(order) = Ending
    /\ \A i, j \in DOMAIN order : order[i] = order[j] => i = j
    /\ expired' = order \o expired
    /\ DOMAIN leased' = DOMAIN leased
    /\ \A c \in DOMAIN leased :
         /\ leased'[c] \in Entry /\ leased'[c].addr = leased[c].addr
         /\ leased'[c].left = IF leased[c].left \in {0, Infinite}
                              THEN leased[c].left ELSE leased[c].left - 1

LEMMA EntryLess ==
    ASSUME NEW e \in Entry, e.left # 0
    PROVE  /\ [e EXCEPT !.left = @ - 1] \in Entry
           /\ [e EXCEPT !.left = @ - 1].addr = e.addr
           /\ [e EXCEPT !.left = @ - 1].left = e.left - 1
<1>1. e.left - 1 \in Nat
  BY DEF Entry
<1> QED BY <1>1 DEF Entry

LEMMA TimerEffect ==
    ASSUME ServerType, TimerHandler
    PROVE  /\ \E order : Timed(order)
           /\ leased' \in [DOMAIN leased' -> Entry]
           /\ UNCHANGED <<available, toServer, toClient>>
<1>1. /\ DOMAIN leased' = DOMAIN leased
      /\ \A c \in DOMAIN leased :
           leased'[c] = IF c \in Running THEN [leased[c] EXCEPT !.left = @ - 1]
                                         ELSE leased[c]
      /\ UNCHANGED <<available, toServer, toClient>>
  BY DEF TimerHandler
<1>2. ASSUME NEW c \in DOMAIN leased
      PROVE  /\ leased'[c] \in Entry /\ leased'[c].addr = leased[c].addr
             /\ leased'[c].left = IF leased[c].left \in {0, Infinite}
                                  THEN leased[c].left ELSE leased[c].left - 1
  <2>1. leased[c] \in Entry
    BY DEF ServerType
  <2>2. c \in Running <=> leased[c].left \notin {0, Infinite}
    BY DEF Running
  <2> QED BY <1>1, <2>1, <2>2, EntryLess
<1>3. PICK order \in SetToSeqs(Ending) : expired' = order \o expired
  BY DEF TimerHandler
<1> DEFINE n == Cardinality(Ending)
<1>4. /\ order \in [1..n -> Ending]
      /\ \A i, j \in 1..n : i # j => order[i] # order[j]
  BY <1>3 DEF SetToSeqs
<1>5. IsFiniteSet(Ending) /\ n \in Nat
  <2>1. Ending \in SUBSET Everyone
    BY DEF Ending, Running, ServerType
  <2>2. IsFiniteSet(Everyone)
    BY FS_Union, ServerAssumption DEF Everyone
  <2> QED BY <2>1, <2>2, FS_Subset, FS_CardinalityType
<1>6. ToSet(order) = Ending
  <2>1. order \in Injection(1..n, Ending)
    BY <1>4 DEF Injection, IsInjective
  <2>2. IsFiniteSet(1..n) /\ Cardinality(1..n) = n
    BY <1>5, FS_Interval
  <2>3. order \in Surjection(1..n, Ending)
    BY <1>5, <2>1, <2>2, FS_Injection
  <2> QED BY <1>4, <2>3 DEF Surjection, ToSet
<1> HIDE DEF n
<1>7. order \in Seq(Ending) /\ DOMAIN order = 1..n
  BY <1>4, <1>5, FunctionIsSeq
<1>8. \A i, j \in DOMAIN order : order[i] = order[j] => i = j
  BY <1>4, <1>7
<1>9. Timed(order)
  BY <1>1, <1>2, <1>3, <1>6, <1>7, <1>8 DEF Timed
<1>10. leased' \in [DOMAIN leased' -> Entry]
  BY <1>1, <1>2 DEF TimerHandler
<1> QED BY <1>1, <1>9, <1>10

LEMMA TimerType ==
    ASSUME ServerType, TimerHandler
    PROVE  ServerType'
<1>1. PICK order : Timed(order)
  BY TimerEffect
<1>2. order \in Seq(Everyone)
  <2>1. Ending \in SUBSET Everyone
    BY DEF Ending, Running, ServerType
  <2> QED BY <1>1, <2>1 DEF Timed
<1>3. expired' \in Seq(Everyone)
  <2>1. expired \in Seq(Everyone)
    BY DEF ServerType
  <2>2. order \o expired \in Seq(Everyone)
    BY <1>2, <2>1, ConcatProperties
  <2> QED BY <1>1, <2>2 DEF Timed
<1> QED BY <1>1, <1>3, TimerEffect DEF ServerType, Timed

\* Taken from a record, the event at place i leaves a record.
LEMMA WithoutEvent ==
    ASSUME NEW r \in Record, NEW i \in DOMAIN r.events, NEW s,
           s = [r EXCEPT !.events = RemoveAt(@, i)]
    PROVE  /\ s \in Record
           /\ s.running = r.running /\ s.stopped = r.stopped
           /\ s.state = r.state /\ s.offered = r.offered /\ s.offers = r.offers
           /\ s.my = r.my /\ s.req = r.req /\ s.iface = r.iface
           /\ Taken(r.events, r.events[i], s.events)
           /\ r.events[i] \in Event /\ r.events[i] \in ToSet(r.events)
<1>1. Taken(r.events, r.events[i], RemoveAt(r.events, i))
  BY TakeEvent DEF Record
<1>2. RemoveAt(r.events, i) \in Seq(Event)
  BY <1>1 DEF Taken
<1>3. r.events[i] \in Event /\ r.events[i] \in ToSet(r.events)
  <2>1. r.events \in Seq(Event)
    BY DEF Record
  <2> QED BY <2>1, SetMembers
<1> QED BY <1>1, <1>2, <1>3, ForgetType

\* The first event due.
First(c, i) ==
    /\ i \in Due(c) /\ \A j \in Due(c) : i <= j
    /\ i = CHOOSE k \in Due(c) : \A j \in Due(c) : k <= j

LEMMA FirstDue ==
    ASSUME NEW c, client[c] \in Record, Due(c) # {}
    PROVE  \E i \in DOMAIN client[c].events :
             First(c, i) /\ client[c].events[i].left = 0
<1> DEFINE ev == client[c].events
<1>1. ev \in Seq(Event) /\ Len(ev) \in Nat /\ DOMAIN ev = 1..Len(ev)
  BY DEF Record
<1>2. Due(c) \in SUBSET (1..Len(ev))
  BY <1>1 DEF Due
<1> HIDE DEF ev
<1>3. \E k \in Due(c) : \A j \in Due(c) : k <= j
  BY <1>1, <1>2, Least
<1> DEFINE i == CHOOSE k \in Due(c) : \A j \in Due(c) : k <= j
<1>4. i \in Due(c) /\ \A j \in Due(c) : i <= j
  BY <1>3
<1>5. First(c, i)
  BY <1>4 DEF First
<1> HIDE DEF i
<1>6. i \in DOMAIN client[c].events /\ client[c].events[i].left = 0
  BY <1>4 DEF Due
<1> QED BY <1>5, <1>6

\* A client event is the call of one event due, taken from the others.
Calls(c, i, s) ==
    /\ i \in DOMAIN client[c].events
    /\ client[c].events[i].left = 0
    /\ s = [client[c] EXCEPT !.events = RemoveAt(@, i)]
    /\ Take(c, Fire(s, client[c].events[i].what))

LEMMA EventCalls ==
    ASSUME NEW c, client[c] \in Record, ClientEvent(c)
    PROVE  (\E i, s : Calls(c, i, s)) /\ UNCHANGED <<server, toClient>>
<1> DEFINE i == CHOOSE k \in Due(c) : \A j \in Due(c) : k <= j
           s == [client[c] EXCEPT !.events = RemoveAt(@, i)]
<1>1. PICK k \in DOMAIN client[c].events :
        First(c, k) /\ client[c].events[k].left = 0
  BY FirstDue DEF ClientEvent
<1>2. k = i
  BY <1>1 DEF First
<1>3. /\ Take(c, Fire(s, client[c].events[i].what))
      /\ UNCHANGED <<server, toClient>>
  BY DEF ClientEvent
<1> HIDE DEF i, s
<1>4. s = [client[c] EXCEPT !.events = RemoveAt(@, i)]
  BY DEF s
<1>5. Calls(c, i, s)
  BY <1>1, <1>2, <1>3, <1>4 DEF Calls
<1> QED BY <1>3, <1>5

LEMMA TakeType ==
    ASSUME TypeInv, NEW c \in Client, NEW result \in ResultType, Take(c, result)
    PROVE  /\ client' \in [Client -> Record]
           /\ toServer' \in [Everyone -> Seq(Message)]
<1>1. result.client \in Record /\ result.send \in Seq(Message)
  BY DEF ResultType
<1>2. client' \in [Client -> Record]
  BY <1>1 DEF Take, TypeInv
<1>3. c \in Everyone /\ toServer \in [Everyone -> Seq(Message)]
  BY DEF Everyone, TypeInv
<1>4. CASE result.client.stopped
  BY <1>2, <1>3, <1>4 DEF Take
<1>5. CASE ~result.client.stopped
  <2> DEFINE send == result.send
  <2>1. toServer' = [toServer EXCEPT ![c] = @ \o send]
    BY <1>5 DEF Take
  <2>2. send \in Seq(Message)
    BY <1>1
  <2> HIDE DEF send
  <2> QED BY <1>2, <1>3, <2>1, <2>2, ConcatTo
<1> QED BY <1>4, <1>5

\* What a client's step keeps of the other types.
LEMMA ClientType ==
    ASSUME TypeInv, NEW c \in Client,
           \/ ClientStarts(c) \/ ClientStops(c) \/ ClientReceives(c) \/ ClientEvent(c)
    PROVE  /\ client' \in [Client -> Record]
           /\ toServer' \in [Everyone -> Seq(Message)]
           /\ toClient' \in [Everyone -> Seq(Answer)]
           /\ UNCHANGED server
<1>1. client[c] \in Record /\ c \in Everyone
  BY DEF TypeInv, Everyone
<1>2. CASE ClientStarts(c)
  <2>1. StartApplication(client[c]) \in ResultType
    BY <1>1, StartType
  <2> QED BY <1>2, <2>1, TakeType DEF ClientStarts, TypeInv
<1>3. CASE ClientStops(c)
  <2> DEFINE r == client[c]
             ev == RemoveKnownAll(r.events, {"Boot", "Renew", "Rebind",
                                             "Timeout", "NextOffer"})
             s == [r EXCEPT !.stopped = TRUE, !.iface = NoAddress, !.events = ev]
  <2>1. ev \in Seq(Event)
    BY <1>1, RemoveEvents DEF Record, Removed
  <2>2. client' = [client EXCEPT ![c] = s]
    BY <1>3 DEF ClientStops
  <2> HIDE DEF ev
  <2>3. s \in Record
    BY <1>1, <2>1, StopType
  <2> HIDE DEF s
  <2>4. client' \in [Client -> Record]
    BY <2>2, <2>3 DEF TypeInv
  <2> QED BY <1>3, <2>4 DEF ClientStops, TypeInv
<1>4. CASE ClientReceives(c)
  <2>1. /\ toClient' \in [Everyone -> Seq(Answer)]
        /\ Head(toClient[c]) \in Answer
    BY <1>1, <1>4, TailOf DEF ClientReceives, TypeInv
  <2>2. Handle(client[c], Head(toClient[c])) \in ResultType
    BY <1>1, <2>1, HandleType
  <2>3. CASE client[c].stopped
    BY <1>4, <2>1, <2>3 DEF ClientReceives, TypeInv
  <2>4. CASE ~client[c].stopped
    BY <1>4, <2>1, <2>2, <2>4, TakeType DEF ClientReceives
  <2> QED BY <2>3, <2>4
<1>5. CASE ClientEvent(c)
  <2>1. PICK i, s : Calls(c, i, s)
    BY <1>1, <1>5, EventCalls
  <2>2. s \in Record /\ client[c].events[i] \in Event
    BY <1>1, <2>1, WithoutEvent DEF Calls
  <2>3. Fire(s, client[c].events[i].what) \in ResultType
    BY <2>2, FireType DEF Event
  <2>4. UNCHANGED <<server, toClient>>
    BY <1>5 DEF ClientEvent
  <2> QED BY <2>1, <2>3, <2>4, TakeType DEF Calls, TypeInv
<1> QED BY <1>2, <1>3, <1>4, <1>5

LEMMA Bounds == /\ MaxTime \in Nat /\ MaxLost \in Nat
                /\ MaxStops \in Nat /\ MaxOther \in Nat
BY BoundsAssumption

LEMMA NewClientType == NewClient \in Record
<1>1. <<>> \in Seq(Address) /\ <<>> \in Seq(Event) /\ NoAddress \in MaybeAddress
  BY DEF MaybeAddress
<1> QED BY <1>1 DEF NewClient, Record

LEMMA InitTypeInv == Init => TypeInv
<1> SUFFICES ASSUME Init PROVE TypeInv
  OBVIOUS
<1> USE DEF Init, ServerInit
<1>1. available \in Seq(Address)
  BY ServerAssumption DEF Address
<1>2. DOMAIN leased \subseteq Everyone /\ leased \in [DOMAIN leased -> Entry]
  <2>1. ASSUME NEW c \in DOMAIN Static
        PROVE  [addr |-> Static[c], left |-> Infinite] \in Entry /\ c \in Everyone
    BY ServerAssumption, Constants DEF Entry, Everyone, Address
  <2> QED BY <2>1
<1>3. /\ expired \in Seq(Everyone)
      /\ toServer \in [Everyone -> Seq(Message)]
      /\ toClient \in [Everyone -> Seq(Answer)]
  BY DEF Everyone
<1>4. client \in [Client -> Record]
  BY NewClientType
<1>5. /\ time \in 0..MaxTime /\ lost \in 0..MaxLost
      /\ others \in 0..MaxOther
      /\ asked \in [Other -> 0..(MaxTime + 1)]
      /\ started \in [Client -> 0..(MaxTime + 1)]
  BY Bounds
<1>6. timerDue \in BOOLEAN
  BY Zenon
<1> QED BY <1>1, <1>2, <1>3, <1>4, <1>5, <1>6 DEF TypeInv

\* The types of the model's own counters.
RestType ==
    /\ time \in 0..MaxTime /\ timerDue \in BOOLEAN /\ lost \in 0..MaxLost
    /\ others \in 0..MaxOther
    /\ asked \in [Other -> 0..(MaxTime + 1)]
    /\ started \in [Client -> 0..(MaxTime + 1)]

LEMMA TypeParts ==
    TypeInv <=> /\ ServerType /\ RestType
                /\ toServer \in [Everyone -> Seq(Message)]
                /\ client \in [Client -> Record]
BY DEF TypeInv, ServerType, RestType

\* The second that Tick adds is taken from every event.
Earlier(ev, ev2) ==
    /\ ev2 \in Seq(Event) /\ DOMAIN ev2 = DOMAIN ev
    /\ \A i \in DOMAIN ev :
         /\ ev2[i].what = ev[i].what /\ ev2[i].known = ev[i].known
         /\ ev2[i].left = ev[i].left - 1

LEMMA TickEvents ==
    ASSUME NEW r \in Record, \A e \in ToSet(r.events) : e.left # 0,
           NEW s, s = [r EXCEPT !.events = [i \in DOMAIN @ |-> Sooner(@[i])]]
    PROVE  /\ s \in Record /\ Earlier(r.events, s.events)
           /\ s.running = r.running /\ s.stopped = r.stopped
           /\ s.state = r.state /\ s.offered = r.offered /\ s.offers = r.offers
           /\ s.my = r.my /\ s.req = r.req /\ s.iface = r.iface
<1> DEFINE ev == r.events
           ev2 == [i \in DOMAIN ev |-> Sooner(ev[i])]
<1>1. ev \in Seq(Event) /\ Len(ev) \in Nat /\ DOMAIN ev = 1..Len(ev)
  BY DEF Record
<1>2. s = [r EXCEPT !.events = ev2]
  OBVIOUS
<1>3. \A e \in Event : e.left # 0 =>
        /\ Sooner(e) \in Event /\ Sooner(e).what = e.what
        /\ Sooner(e).known = e.known /\ Sooner(e).left = e.left - 1
  BY DEF Event, Sooner
<1>4. \A i \in DOMAIN ev : ev[i] \in Event /\ ev[i].left # 0
  BY <1>1, SetMembers
<1> HIDE DEF ev
<1>5. ev2 \in [1..Len(ev) -> Event]
  BY <1>1, <1>3, <1>4
<1>6. \A i \in DOMAIN ev : ev2[i] = Sooner(ev[i])
  OBVIOUS
<1> HIDE DEF ev2
<1>7. ev2 \in Seq(Event) /\ DOMAIN ev2 = DOMAIN ev
  BY <1>1, <1>5, FunctionIsSeq
<1>8. Earlier(ev, ev2)
  BY <1>3, <1>4, <1>6, <1>7 DEF Earlier
<1>9. /\ s \in Record
      /\ s.running = r.running /\ s.stopped = r.stopped
      /\ s.state = r.state /\ s.offered = r.offered /\ s.offers = r.offers
      /\ s.my = r.my /\ s.req = r.req /\ s.iface = r.iface /\ s.events = ev2
  <2> DEFINE t == [r EXCEPT !.events = ev2]
  <2>1. /\ t \in Record
        /\ t.running = r.running /\ t.stopped = r.stopped
        /\ t.state = r.state /\ t.offered = r.offered /\ t.offers = r.offers
        /\ t.my = r.my /\ t.req = r.req /\ t.iface = r.iface /\ t.events = ev2
    <3> HIDE DEF ev2
    <3> QED BY <1>7 DEF Record
  <2>2. s = t
    BY <1>2
  <2> HIDE DEF t
  <2> QED BY <2>1, <2>2
<1>10. Earlier(r.events, s.events)
  BY <1>8, <1>9 DEF ev
<1> QED BY <1>9, <1>10

LEMMA TickType ==
    ASSUME TypeInv, Tick
    PROVE  client' \in [Client -> Record]
<1>1. ASSUME NEW c \in Client
      PROVE  [client[c] EXCEPT !.events =
                [i \in DOMAIN @ |-> Sooner(@[i])]] \in Record
  <2>1. client[c] \in Record /\ client[c].events \in Seq(Event)
    BY DEF TypeInv, Record
  <2>2. \A e \in ToSet(client[c].events) : e.left # 0
    BY DEF Tick, Quiet, Due, ToSet
  <2> QED BY <2>1, <2>2, TickEvents
<1> QED BY <1>1 DEF Tick

LEMMA LoseType ==
    ASSUME TypeInv, NEW c \in Everyone, LoseOne(c)
    PROVE  TypeInv'
<1>1. /\ toServer' \in [Everyone -> Seq(Message)]
      /\ toClient' \in [Everyone -> Seq(Answer)]
  <2>1. CASE /\ toServer[c] # <<>>
             /\ toServer' = [toServer EXCEPT ![c] = Tail(@)]
             /\ UNCHANGED toClient
    BY <2>1, TailOf DEF TypeInv
  <2>2. CASE /\ toClient[c] # <<>>
             /\ toClient' = [toClient EXCEPT ![c] = Tail(@)]
             /\ UNCHANGED toServer
    BY <2>2, TailOf DEF TypeInv
  <2> QED BY <2>1, <2>2 DEF LoseOne
<1>2. lost' \in 0..MaxLost
  BY Bounds DEF TypeInv, LoseOne
<1> QED BY <1>1, <1>2 DEF TypeInv, LoseOne, server

LEMMA OtherType ==
    ASSUME TypeInv, NEW c \in Other,
           \/ OtherReceives(c) /\ Same
           \/ OtherSends(c)
    PROVE  TypeInv'
<1>1. c \in Everyone
  BY DEF Everyone
<1>2. CASE OtherReceives(c) /\ Same
  <2>1. toClient' \in [Everyone -> Seq(Answer)]
    BY <1>1, <1>2, TailOf DEF OtherReceives, TypeInv
  <2> QED BY <1>2, <2>1 DEF OtherReceives, Same, TypeInv, server
<1>3. CASE OtherSends(c)
  <2>1. others' \in 0..MaxOther
    BY <1>3, Bounds DEF TypeInv, OtherSends
  <2>2. CASE OtherDiscovers(c)
    <3> DEFINE m == Msg("DISCOVER", NoAddress)
    <3>1. toServer' = [toServer EXCEPT ![c] = Append(@, m)]
      BY <2>2 DEF OtherDiscovers
    <3>2. m \in Message
      BY MessageType DEF MaybeAddress
    <3> HIDE DEF m
    <3>3. toServer' \in [Everyone -> Seq(Message)]
      BY <1>1, <3>1, <3>2, AppendTo DEF TypeInv
    <3>4. asked' \in [Other -> 0..(MaxTime + 1)]
      BY <2>2, Bounds DEF OtherDiscovers, TypeInv
    <3> QED BY <1>3, <2>1, <3>3, <3>4 DEF OtherSends, TypeInv, server
  <2>3. ASSUME NEW a \in MaybeAddress, OtherRequests(c, a)
        PROVE  TypeInv'
    <3> DEFINE m == Msg("REQ", a)
    <3>1. toServer' = [toServer EXCEPT ![c] = Append(@, m)] /\ UNCHANGED asked
      BY <2>3 DEF OtherRequests
    <3>2. m \in Message
      BY MessageType
    <3> HIDE DEF m
    <3>3. toServer' \in [Everyone -> Seq(Message)]
      BY <1>1, <3>1, <3>2, AppendTo DEF TypeInv
    <3> QED BY <1>3, <2>1, <3>1, <3>3 DEF OtherSends, TypeInv, server
  <2> QED BY <1>3, <2>2, <2>3 DEF OtherSends, MaybeAddress
<1> QED BY <1>2, <1>3

LEMMA TypeStep == TypeInv /\ [Next]_vars => TypeInv'
<1> SUFFICES ASSUME TypeInv, [Next]_vars PROVE TypeInv'
  OBVIOUS
<1>0. /\ ServerType /\ RestType /\ toServer \in [Everyone -> Seq(Message)]
      /\ client \in [Client -> Record]
  BY TypeParts
<1> SUFFICES /\ ServerType' /\ RestType' /\ toServer' \in [Everyone -> Seq(Message)]
             /\ client' \in [Client -> Record]
  BY DEF TypeInv, ServerType, RestType
<1>1. ASSUME NEW c \in Client, ClientStarts(c) \/ ClientStops(c)
                               \/ ClientReceives(c) \/ ClientEvent(c)
      PROVE  /\ ServerType' /\ toServer' \in [Everyone -> Seq(Message)]
             /\ client' \in [Client -> Record]
  BY <1>0, <1>1, ClientType DEF ServerType, server
<1>2. Same => RestType'
  BY <1>0 DEF Same, RestType
<1>3. CASE \E c \in Client : Start(c)
  <2> PICK c \in Client : Start(c)
    BY <1>3
  <2>1. ClientStarts(c) /\ started' = [started EXCEPT ![c] = time]
        /\ UNCHANGED <<time, timerDue, lost, others, asked>>
    BY DEF Start
  <2>2. RestType'
    BY <1>0, <2>1, Bounds DEF RestType
  <2> QED BY <1>1, <2>1, <2>2
<1>4. CASE \E c \in Client : Stop(c)
  BY <1>1, <1>2, <1>4 DEF Stop
<1>5. CASE \E c \in Client : (ClientReceives(c) \/ ClientEvent(c)) /\ Same
  BY <1>1, <1>2, <1>5
<1>6. CASE \E c \in Other : (OtherReceives(c) /\ Same) \/ OtherSends(c)
  BY <1>6, OtherType DEF TypeInv, ServerType, RestType
<1>7. CASE \E c \in Everyone : ServerReceives(c) /\ UNCHANGED client /\ Same
  BY <1>0, <1>2, <1>7, ServerReceivesType
<1>8. CASE \E c \in Everyone : LoseOne(c)
  BY <1>8, LoseType DEF TypeInv, ServerType, RestType
<1>9. CASE ServerTimer
  <2>1. ServerType' /\ UNCHANGED toServer
    BY <1>0, <1>9, TimerType DEF ServerTimer, TimerHandler
  <2>2. RestType'
    BY <1>0, <1>9 DEF ServerTimer, RestType
  <2> QED BY <1>0, <1>9, <2>1, <2>2 DEF ServerTimer
<1>10. CASE Tick
  <2>1. RestType'
    BY <1>0, <1>10, Bounds DEF Tick, RestType
  <2>2. ServerType'
    BY <1>0, <1>10 DEF Tick, ServerType, server
  <2> QED BY <1>0, <1>10, <2>1, <2>2, TickType DEF Tick
<1>11. CASE UNCHANGED vars
  BY <1>0, <1>11 DEF vars, server, ServerType, RestType
<1> QED BY <1>3, <1>4, <1>5, <1>6, <1>7, <1>8, <1>9, <1>10, <1>11
        DEF Next, Everyone

LEMMA TypeAlways == Spec => []TypeInv
BY InitTypeInv, TypeStep, PTL DEF Spec

\* What the server, the clients and the network keep has its type, for any
\* times and any number of clients.
THEOREM TypeCorrect == Spec => []TypeOK
<1>1. TypeInv => TypeOK
  <2> SUFFICES ASSUME TypeInv PROVE TypeOK
    OBVIOUS
  <2>1. \A c \in DOMAIN leased : leased[c] \in [addr : Address, left : Nat]
    BY DEF TypeInv, Entry
  <2>2. toClient \in [Client \cup Other -> Seq(Message)]
    <3>1. Seq(Answer) \subseteq Seq(Message)
      BY DEF Answer
    <3> QED BY <3>1 DEF TypeInv, Everyone
  <2>3. ASSUME NEW c \in Client
        PROVE  LET r == client[c] IN
               /\ r.running \in BOOLEAN /\ r.stopped \in BOOLEAN
               /\ r.state \in {"NONE", "WAIT_OFFER", "WAIT_ACK", "REFRESH_LEASE"}
               /\ r.offered \in BOOLEAN /\ r.offers \in Seq(Address)
               /\ {r.my, r.req, r.iface} \subseteq MaybeAddress
               /\ r.events \in Seq([what : Kinds, left : Nat, known : BOOLEAN])
    BY DEF TypeInv, Record, Event
  <2>4. /\ available \in Seq(Address) /\ DOMAIN leased \subseteq Client \cup Other
        /\ expired \in Seq(Client \cup Other)
        /\ toServer \in [Client \cup Other -> Seq(Message)]
        /\ RestType
    BY DEF TypeInv, Everyone, RestType
  <2> QED BY <2>1, <2>2, <2>3, <2>4 DEF TypeOK, RestType
<1> QED BY <1>1, TypeAlways, PTL
-----------------------------------------------------------------------------
(* Every address has one place. *)

SameAddresses ==
    /\ available' = available /\ DOMAIN leased' = DOMAIN leased
    /\ \A c \in DOMAIN leased : leased'[c].addr = leased[c].addr

LEMMA WithinSet ==
    ASSUME NEW S, NEW seq \in Seq(S), NEW K
    PROVE  /\ Within(seq, K) \in Seq(S)
           /\ ToSet(Within(seq, K)) = {x \in ToSet(seq) : x \in K}
<1> DEFINE I == {i \in DOMAIN seq : seq[i] \in K}
<1>1. I \in SUBSET (DOMAIN seq)
  OBVIOUS
<1>2. \A i \in DOMAIN seq : i \in I <=> seq[i] \in K
  OBVIOUS
<1>3. Within(seq, K) = Kept(seq, I)
  BY DEF Within
<1> HIDE DEF I
<1>4. /\ Kept(seq, I) \in Seq(S)
      /\ ToSet(Kept(seq, I)) = {seq[i] : i \in I}
  BY <1>1, SetKept
<1>5. {seq[i] : i \in I} = {x \in ToSet(seq) : x \in K}
  BY <1>1, <1>2, SetMembers
<1> QED BY <1>3, <1>4, <1>5

\* The part of Pooled about the addresses, and the part about the list.
Placed ==
    /\ \A i, j \in DOMAIN available : available[i] = available[j] => i = j
    /\ \A c, d \in DOMAIN leased : leased[c].addr = leased[d].addr => c = d
    /\ \A c \in DOMAIN leased : leased[c].addr \notin ToSet(available)
    /\ \A a \in Address : \/ a \in ToSet(available)
                          \/ \E c \in DOMAIN leased : leased[c].addr = a

LEMMA PooledParts == /\ Pooled <=> Placed /\ RanOut \subseteq ToSet(expired)
                     /\ Pooled' <=> Placed' /\ RanOut' \subseteq ToSet(expired')
BY DEF Pooled, Placed

LEMMA SamePlaces ==
    ASSUME Placed, SameAddresses
    PROVE  Placed'
BY DEF Placed, SameAddresses

LEMMA OfferKnownPooled ==
    ASSUME ServerType, Pooled, NEW c \in Everyone, OfferKnown(c)
    PROVE  Pooled' /\ SameAddresses
<1> DEFINE v == NewLease(leased[c].addr)
<1>1. /\ c \in DOMAIN leased /\ available' = available
      /\ leased' = [leased EXCEPT ![c] = v]
      /\ expired' = Within(expired, Everyone \ {c})
  BY DEF OfferKnown, Known, Everyone
<1>2. leased[c].addr \in Address
  BY <1>1 DEF ServerType, Entry
<1>3. v.addr = leased[c].addr /\ v.left # 0
  BY <1>2, NewLeaseType, Constants
<1> HIDE DEF v
<1>4. /\ DOMAIN leased' = DOMAIN leased
      /\ leased'[c] = v /\ \A d \in DOMAIN leased : d # c => leased'[d] = leased[d]
  BY <1>1 DEF ServerType
<1>5. SameAddresses
  BY <1>1, <1>3, <1>4 DEF SameAddresses
<1>6. RanOut' \subseteq ToSet(expired')
  <2> SUFFICES ASSUME NEW d \in RanOut' PROVE d \in ToSet(expired')
    OBVIOUS
  <2>1. d \in DOMAIN leased /\ d # c /\ leased[d].left = 0
    BY <1>3, <1>4 DEF RanOut
  <2>2. d \in ToSet(expired) /\ d \in Everyone
    BY <2>1 DEF Pooled, RanOut, ServerType
  <2>3. ToSet(expired') = {x \in ToSet(expired) : x \in Everyone \ {c}}
    BY <1>1, WithinSet DEF ServerType
  <2> QED BY <2>1, <2>2, <2>3
<1> QED BY <1>5, <1>6, PooledParts, SamePlaces

LEMMA OfferNewPooled ==
    ASSUME ServerType, Pooled, NEW c \in Everyone, OfferNew(c)
    PROVE  Pooled'
<1> DEFINE a == Head(available)
           v == NewLease(a)
<1>1. /\ c \notin DOMAIN leased /\ available # <<>> /\ available \in Seq(Address)
      /\ available' = Tail(available) /\ expired' = expired
      /\ leased' = With(leased, c, v)
  BY DEF OfferNew, Known, ServerType
<1>2. /\ a \in Address /\ a \in ToSet(available)
      /\ ToSet(available) = {a} \cup ToSet(available')
  BY <1>1, SetTail
<1>3. v.addr = a /\ v.left # 0
  BY <1>2, NewLeaseType, Constants
<1>4. /\ DOMAIN available' = 1..(Len(available) - 1) /\ Len(available) \in Nat \ {0}
      /\ DOMAIN available = 1..Len(available)
      /\ a = available[1]
      /\ \A i \in DOMAIN available' : available'[i] = available[i + 1]
  BY <1>1, HeadTailProperties, EmptySeq
<1> HIDE DEF v, a
<1>5. /\ DOMAIN leased' = DOMAIN leased \cup {c} /\ leased'[c] = v
      /\ \A d \in DOMAIN leased : leased'[d] = leased[d]
  BY <1>1 DEF With
<1>6. a \notin ToSet(available')
  <2> SUFFICES ASSUME NEW i \in DOMAIN available', available'[i] = a PROVE FALSE
    BY DEF ToSet
  <2>1. i + 1 \in DOMAIN available /\ i + 1 # 1 /\ 1 \in DOMAIN available
    BY <1>4
  <2> QED BY <2>1, <1>4 DEF Pooled
<1>7. \A i, j \in DOMAIN available' : available'[i] = available'[j] => i = j
  <2> SUFFICES ASSUME NEW i \in DOMAIN available', NEW j \in DOMAIN available',
                      available'[i] = available'[j]
               PROVE  i = j
    OBVIOUS
  <2>1. i + 1 \in DOMAIN available /\ j + 1 \in DOMAIN available
    BY <1>4
  <2>2. i + 1 = j + 1
    BY <2>1, <1>4 DEF Pooled
  <2> QED BY <2>2, <1>4
<1>8. \A x, y \in DOMAIN leased' : leased'[x].addr = leased'[y].addr => x = y
  BY <1>2, <1>3, <1>5 DEF Pooled
<1>9. \A x \in DOMAIN leased' : leased'[x].addr \notin ToSet(available')
  BY <1>2, <1>3, <1>5, <1>6 DEF Pooled
<1>10. \A b \in Address : \/ b \in ToSet(available')
                          \/ \E x \in DOMAIN leased' : leased'[x].addr = b
  <2> SUFFICES ASSUME NEW b \in Address
               PROVE  \/ b \in ToSet(available')
                      \/ \E x \in DOMAIN leased' : leased'[x].addr = b
    OBVIOUS
  <2>1. CASE b = a
    BY <2>1, <1>3, <1>5
  <2>2. CASE b # a
    BY <2>2, <1>2, <1>5 DEF Pooled
  <2> QED BY <2>1, <2>2
<1>11. RanOut' \subseteq ToSet(expired')
  BY <1>1, <1>3, <1>5 DEF Pooled, RanOut
<1> QED BY <1>7, <1>8, <1>9, <1>10, <1>11 DEF Pooled

\* The leases once the address of the oldest went to c.
Passed(oldest, c) ==
    /\ oldest \in DOMAIN leased /\ oldest # c
    /\ DOMAIN leased' = (DOMAIN leased \ {oldest}) \cup {c}
    /\ leased'[c] = NewLease(leased[oldest].addr)
    /\ \A d \in DOMAIN leased \ {oldest} : leased'[d] = leased[d]

LEMMA OfferOldEffect ==
    ASSUME ServerType, NEW c \in Everyone, OfferOld(c)
    PROVE  LET oldest == expired[Len(expired)] IN
           /\ available' = available /\ c \notin DOMAIN leased
           /\ oldest \in Everyone /\ oldest \in ToSet(expired)
           /\ Len(expired) \in DOMAIN expired
           /\ expired' \in Seq(Everyone)
           /\ DOMAIN expired' = DOMAIN expired \ {Len(expired)}
           /\ \A i \in DOMAIN expired' : expired'[i] = expired[i]
           /\ \/ /\ Passed(oldest, c)
                 /\ toClient' = [toClient EXCEPT ![c] =
                                  Append(@, Msg("OFFER", leased[oldest].addr))]
              \/ oldest \notin DOMAIN leased /\ UNCHANGED <<leased, toClient>>
<1> DEFINE oldest == expired[Len(expired)]
           a == leased[oldest].addr
           rest == Without(leased, oldest)
<1>1. /\ expired # <<>> /\ expired \in Seq(Everyone) /\ available' = available
      /\ expired' = SubSeq(expired, 1, Len(expired) - 1) /\ c \notin DOMAIN leased
      /\ \/ /\ oldest \in DOMAIN leased
            /\ leased' = With(rest, c, NewLease(a))
            /\ toClient' = [toClient EXCEPT ![c] = Append(@, Msg("OFFER", a))]
         \/ /\ oldest \notin DOMAIN leased
            /\ UNCHANGED <<leased, toClient>>
  BY DEF OfferOld, Known, ServerType
<1>2. /\ Len(expired) \in DOMAIN expired /\ oldest \in Everyone
      /\ expired' \in Seq(Everyone)
      /\ DOMAIN expired' = DOMAIN expired \ {Len(expired)}
      /\ \A i \in DOMAIN expired' : expired'[i] = expired[i]
  BY <1>1, SetFront
<1>3. oldest \in ToSet(expired)
  BY <1>1, <1>2, SetMembers
<1>4. ASSUME oldest \in DOMAIN leased PROVE Passed(oldest, c)
  <2> HIDE DEF oldest, a
  <2>1. /\ DOMAIN rest = DOMAIN leased \ {oldest}
        /\ \A d \in DOMAIN leased \ {oldest} : rest[d] = leased[d]
    BY WithoutValue
  <2> HIDE DEF rest
  <2>2. /\ DOMAIN leased' = DOMAIN rest \cup {c} /\ leased'[c] = NewLease(a)
        /\ \A d \in DOMAIN rest : d # c => leased'[d] = rest[d]
    BY <1>1, <1>4 DEF With
  <2> QED BY <1>1, <1>4, <2>1, <2>2 DEF Passed, a
<1> QED BY <1>1, <1>2, <1>3, <1>4

LEMMA OfferOldPooled ==
    ASSUME ServerType, Pooled, NEW c \in Everyone, OfferOld(c)
    PROVE  Pooled'
<1> DEFINE oldest == expired[Len(expired)]
<1>1. /\ available' = available /\ c \notin DOMAIN leased
      /\ oldest \in ToSet(expired)
      /\ expired' \in Seq(Everyone) /\ expired \in Seq(Everyone)
      /\ DOMAIN expired' = DOMAIN expired \ {Len(expired)}
      /\ \A i \in DOMAIN expired' : expired'[i] = expired[i]
      /\ Passed(oldest, c) \/ (oldest \notin DOMAIN leased /\ leased' = leased)
  BY OfferOldEffect DEF ServerType
<1>2. \A d \in ToSet(expired) : d # oldest => d \in ToSet(expired')
  <2> SUFFICES ASSUME NEW i \in DOMAIN expired, expired[i] # oldest
               PROVE  expired[i] \in ToSet(expired')
    BY DEF ToSet
  <2>1. i \in DOMAIN expired' /\ expired'[i] = expired[i]
    BY <1>1
  <2> QED BY <2>1 DEF ToSet
<1> HIDE DEF oldest
<1>3. CASE oldest \notin DOMAIN leased /\ leased' = leased
  BY <1>1, <1>2, <1>3 DEF Pooled, RanOut
<1>4. CASE Passed(oldest, c)
  <2> DEFINE v == NewLease(leased[oldest].addr)
  <2>1. /\ oldest \in DOMAIN leased /\ oldest # c
        /\ DOMAIN leased' = (DOMAIN leased \ {oldest}) \cup {c}
        /\ leased'[c] = v
        /\ \A d \in DOMAIN leased \ {oldest} : leased'[d] = leased[d]
    BY <1>4 DEF Passed
  <2>2. leased[oldest].addr \in Address
    BY <2>1 DEF ServerType, Entry
  <2>3. v.addr = leased[oldest].addr /\ v.left # 0
    BY <2>2, NewLeaseType, Constants
  <2> HIDE DEF v
  <2>4. \A x, y \in DOMAIN leased' : leased'[x].addr = leased'[y].addr => x = y
    BY <2>1, <2>3 DEF Pooled
  <2>5. \A x \in DOMAIN leased' : leased'[x].addr \notin ToSet(available')
    BY <1>1, <2>1, <2>3 DEF Pooled
  <2>6. \A b \in Address : \/ b \in ToSet(available')
                           \/ \E x \in DOMAIN leased' : leased'[x].addr = b
    <3> SUFFICES ASSUME NEW b \in Address, b \notin ToSet(available')
                 PROVE  \E x \in DOMAIN leased' : leased'[x].addr = b
      OBVIOUS
    <3>1. PICK x \in DOMAIN leased : leased[x].addr = b
      BY <1>1 DEF Pooled
    <3>2. CASE x = oldest
      BY <3>1, <3>2, <2>1, <2>3
    <3>3. CASE x # oldest
      BY <3>1, <3>3, <2>1
    <3> QED BY <3>2, <3>3
  <2>7. RanOut' \subseteq ToSet(expired')
    <3> SUFFICES ASSUME NEW d \in RanOut' PROVE d \in ToSet(expired')
      OBVIOUS
    <3>1. d \in DOMAIN leased /\ d # oldest /\ leased[d].left = 0
      BY <2>1, <2>3 DEF RanOut
    <3> QED BY <3>1, <1>2 DEF Pooled, RanOut
  <2>8. \A i, j \in DOMAIN available' : available'[i] = available'[j] => i = j
    BY <1>1 DEF Pooled
  <2> QED BY <2>4, <2>5, <2>6, <2>7, <2>8 DEF Pooled
<1> QED BY <1>1, <1>3, <1>4

\* What an acknowledgement makes of the lease of c.
AckEffect(c) ==
    /\ available' = available /\ expired' = expired
    /\ DOMAIN leased' = DOMAIN leased
    /\ \A d \in DOMAIN leased :
         /\ leased'[d].addr = leased[d].addr
         /\ leased'[d].left = IF d = c THEN leased[d].left + Lease
                                       ELSE leased[d].left

LEMMA SendAckEffect ==
    ASSUME ServerType, NEW c \in Everyone, NEW a, SendAck(c, a)
    PROVE  AckEffect(c)
<1>1. available' = available /\ expired' = expired
  BY DEF SendAck
<1>2. CASE ~Known(c)
  BY <1>1, <1>2 DEF SendAck, AckEffect, Known
<1>3. CASE Known(c)
  <2> DEFINE e == leased[c]
             v == [e EXCEPT !.left = Extended(@)]
  <2>1. leased' = [leased EXCEPT ![c] = v]
    BY <1>3 DEF SendAck
  <2>2. e \in Entry
    BY <1>3 DEF Known, ServerType
  <2>3. v.addr = e.addr /\ v.left = e.left + Lease
    <3> HIDE DEF e
    <3> QED BY <2>2 DEF Entry, Extended
  <2> HIDE DEF v
  <2> QED BY <1>1, <2>1, <2>3 DEF AckEffect, ServerType
<1> QED BY <1>2, <1>3

LEMMA SendAckPooled ==
    ASSUME ServerType, Pooled, NEW c \in Everyone, NEW a, SendAck(c, a)
    PROVE  Pooled' /\ SameAddresses
<1>1. AckEffect(c)
  BY SendAckEffect
<1>2. SameAddresses
  BY <1>1 DEF AckEffect, SameAddresses
<1>3. RanOut' \subseteq ToSet(expired')
  <2> SUFFICES ASSUME NEW d \in RanOut' PROVE d \in ToSet(expired)
    BY <1>1 DEF AckEffect
  <2>1. d \in DOMAIN leased /\ leased'[d].left = 0
    BY <1>1 DEF RanOut, AckEffect
  <2>2. leased[d].left \in Nat
    BY <2>1 DEF ServerType, Entry
  <2>3. leased[d].left = 0
    BY <1>1, <2>1, <2>2, Constants DEF AckEffect
  <2> QED BY <2>1, <2>3 DEF Pooled, RanOut
<1> QED BY <1>2, <1>3, PooledParts, SamePlaces

LEMMA TimerPooled ==
    ASSUME ServerType, Pooled, TimerHandler
    PROVE  Pooled' /\ SameAddresses
<1>1. PICK order : Timed(order)
  BY TimerEffect
<1>2. SameAddresses
  BY <1>1, TimerEffect DEF Timed, SameAddresses
<1>3. /\ order \in Seq(Everyone) /\ expired \in Seq(Everyone)
      /\ expired' = order \o expired /\ ToSet(order) = Ending
  <2>1. Ending \in SUBSET Everyone
    BY DEF Ending, Running, ServerType
  <2> QED BY <1>1, <2>1 DEF Timed, ServerType
<1>4. ToSet(expired') = ToSet(order) \cup ToSet(expired)
  BY <1>3, SetConcat
<1>5. RanOut' \subseteq ToSet(expired')
  <2> SUFFICES ASSUME NEW d \in RanOut' PROVE d \in Ending \cup RanOut
    BY <1>3, <1>4 DEF Pooled
  <2>1. d \in DOMAIN leased /\ leased'[d].left = 0
    BY <1>1 DEF RanOut, Timed
  <2>2. leased[d].left \in Nat
    BY <2>1 DEF ServerType, Entry
  <2>3. leased[d].left = 0 \/ (leased[d].left = 1 /\ leased[d].left # Infinite)
    BY <1>1, <2>1, <2>2, Constants DEF Timed
  <2> QED BY <2>1, <2>3 DEF Ending, Running, RanOut
<1> QED BY <1>2, <1>5, PooledParts, SamePlaces

\* The steps of all but the server leave its leases alone.
LEMMA OthersSteps ==
    ASSUME Next
    PROVE  \/ UNCHANGED server
           \/ \E c \in Everyone : ServerReceives(c)
           \/ TimerHandler
<1>1. CASE \E c \in Client : \/ Start(c) \/ Stop(c)
                             \/ ClientReceives(c) /\ Same
                             \/ ClientEvent(c) /\ Same
  BY <1>1 DEF Start, Stop, ClientStarts, ClientStops, ClientReceives, ClientEvent
<1>2. CASE \E c \in Other : (OtherReceives(c) /\ Same) \/ OtherSends(c)
  BY <1>2 DEF OtherReceives, OtherSends
<1>3. CASE \E c \in Everyone : \/ ServerReceives(c) /\ UNCHANGED client /\ Same
                               \/ LoseOne(c)
  BY <1>3 DEF LoseOne
<1>4. CASE ServerTimer \/ Tick
  BY <1>4 DEF ServerTimer, Tick
<1> QED BY <1>1, <1>2, <1>3, <1>4 DEF Next, Everyone

LEMMA InitPooled ==
    ASSUME NoStatic, Init
    PROVE  Pooled /\ Listed
<1>1. /\ available = Pool /\ expired = <<>> /\ DOMAIN leased = {}
  BY DEF Init, ServerInit, NoStatic
<1>2. /\ \A i, j \in DOMAIN Pool : Pool[i] = Pool[j] => i = j
      /\ Address = ToSet(Pool)
  BY ServerAssumption DEF IsInjective, Address
<1>3. RanOut = {} /\ ToSet(expired) = {} /\ DOMAIN expired = {}
  BY <1>1 DEF RanOut, ToSet
<1> QED BY <1>1, <1>2, <1>3 DEF Pooled, Listed

LEMMA PooledStep == TypeInv /\ Pooled /\ [Next]_vars => Pooled'
<1> SUFFICES ASSUME TypeInv, Pooled, [Next]_vars PROVE Pooled'
  OBVIOUS
<1>1. ServerType
  BY TypeParts
<1>2. CASE UNCHANGED server
  BY <1>2 DEF server, Pooled, RanOut
<1>3. ASSUME NEW c \in Everyone, ServerReceives(c) PROVE Pooled'
  <2>1. CASE SendOffer(c)
    <3>1. CASE OfferNone(c)
      BY <3>1, <1>2 DEF OfferNone
    <3> QED BY <1>1, <2>1, <3>1, OfferKnownPooled, OfferNewPooled, OfferOldPooled
            DEF SendOffer
  <2>2. CASE \E a : SendAck(c, a)
    BY <1>1, <2>2, SendAckPooled
  <2>3. CASE UNCHANGED server
    BY <2>3, <1>2
  <2> QED BY <1>3, <2>1, <2>2, <2>3 DEF ServerReceives
<1>4. CASE TimerHandler
  BY <1>1, <1>4, TimerPooled
<1>5. UNCHANGED vars => UNCHANGED server
  BY DEF vars
<1> QED BY <1>2, <1>3, <1>4, <1>5, OthersSteps

LEMMA PooledAlways ==
    ASSUME NoStatic
    PROVE  Spec => [](TypeInv /\ Pooled)
<1>1. Init => TypeInv /\ Pooled
  BY InitTypeInv, InitPooled
<1>2. TypeInv /\ Pooled /\ [Next]_vars => (TypeInv /\ Pooled)'
  BY TypeStep, PooledStep
<1> QED BY <1>1, <1>2, PTL DEF Spec

\* The addresses of the pool, counted.
LEMMA PoolCounted ==
    ASSUME TypeInv, Pooled
    PROVE  /\ Address = ToSet(available) \cup {leased[c].addr : c \in DOMAIN leased}
           /\ Len(available) + Cardinality(DOMAIN leased) = Cardinality(Address)
<1> DEFINE A == ToSet(available)
           D == DOMAIN leased
           B == {leased[c].addr : c \in D}
           n == Len(available)
           f == [c \in D |-> leased[c].addr]
<1>1. /\ available \in Seq(Address) /\ n \in Nat /\ DOMAIN available = 1..n
      /\ available \in [1..n -> A]
  BY DEF TypeInv, ToSet
<1>2. /\ \A i, j \in 1..n : available[i] = available[j] => i = j
      /\ \A a \in A : \E i \in 1..n : available[i] = a
  BY <1>1 DEF Pooled, ToSet
<1>3. IsFiniteSet(D) /\ IsFiniteSet(1..n) /\ Cardinality(1..n) = n
  <2>1. IsFiniteSet(Everyone)
    BY FS_Union, ServerAssumption DEF Everyone
  <2>2. IsFiniteSet(D)
    BY <2>1, FS_Subset DEF TypeInv
  <2>3. IsFiniteSet(1..n) /\ Cardinality(1..n) = n
    BY <1>1, FS_Interval
  <2> QED BY <2>2, <2>3
<1>4. \A c \in D : leased[c].addr \in Address
  BY DEF TypeInv, Entry
<1>5. A \cap B = {}
  BY DEF Pooled
<1>6. Address = A \cup B
  <2>1. A \subseteq Address
    BY <1>1, SetMembers
  <2>2. B \subseteq Address
    BY <1>4
  <2>3. Address \subseteq A \cup B
    BY DEF Pooled
  <2> QED BY <2>1, <2>2, <2>3
<1>7. IsFiniteSet(A) /\ Cardinality(A) = n
  <2>1. available \in Bijection(1..n, A)
    BY <1>1, <1>2 DEF Bijection, Injection, Surjection, IsInjective
  <2>2. ExistsBijection(1..n, A)
    BY <2>1 DEF ExistsBijection
  <2> QED BY <2>2, <1>3, FS_Bijection
<1>8. IsFiniteSet(B) /\ Cardinality(B) = Cardinality(D)
  <2>1. f \in [D -> B] /\ \A c, d \in D : f[c] = f[d] => c = d
    BY DEF Pooled
  <2>2. \A b \in B : \E c \in D : f[c] = b
    OBVIOUS
  <2> HIDE DEF f, D, B
  <2>3. f \in Bijection(D, B)
    BY <2>1, <2>2 DEF Bijection, Injection, Surjection, IsInjective
  <2>4. ExistsBijection(D, B)
    BY <2>3 DEF ExistsBijection
  <2> QED BY <2>4, <1>3, FS_Bijection
<1>9. Cardinality(A \cup B) = Cardinality(A) + Cardinality(B)
  <2> HIDE DEF A, B, D
  <2>1. Cardinality(A \cup B) = Cardinality(A) + Cardinality(B) - Cardinality(A \cap B)
    BY <1>7, <1>8, FS_Union
  <2>2. Cardinality(A \cap B) = 0
    BY <1>5, FS_EmptySet
  <2>3. Cardinality(A) \in Nat /\ Cardinality(B) \in Nat
    BY <1>7, <1>8, FS_CardinalityType
  <2> QED BY <2>1, <2>2, <2>3
<1> HIDE DEF A, B, D, n
<1>10. n + Cardinality(D) = Cardinality(Address)
  BY <1>6, <1>7, <1>8, <1>9
<1> QED BY <1>6, <1>10 DEF A, B, D, n
-----------------------------------------------------------------------------
(* A client's hold on its address: the parts of the inductive invariant.   *)

Todo(r) == ToSet(r.events)

LEMMA TodoType ==
    ASSUME NEW r \in Record, NEW e \in Todo(r)
    PROVE  /\ e \in Event /\ e.left \in Nat /\ e.known \in BOOLEAN
           /\ e.what \in Kinds
<1>1. r.events \in Seq(Event)
  BY DEF Record
<1>2. e \in Event
  BY <1>1, SetMembers DEF Todo
<1> QED BY <1>2 DEF Event

\* 1 if the timer is still to count this second.
Pending == IF timerDue THEN 1 ELSE 0

\* The lease of c has n more seconds to run after this one.
Backed(c, n) == Known(c) /\ leased[c].left >= n + Pending

\* ... and it is the lease of a.
Secure(c, a, n) == Backed(c, n) /\ leased[c].addr = a

\* The lease cannot end before the Timeout e does.
Covered(e) == e.left + Pending >= 2

\* A client has an address while it runs and the end of the lease is scheduled.
Holding(r) ==
    r.iface # NoAddress => /\ r.running /\ ~r.stopped /\ r.my = r.iface
                           /\ \E e \in Todo(r) : e.what = "Timeout"

\* The calls of a lease are known, and are of the address it has.
Leasing(r) == \A e \in Todo(r) : e.what \in OfLease => e.known /\ r.iface # NoAddress

\* The lease at the server outlasts the client's.
Lasting(c, r) ==
    \A e \in Todo(r) : e.what = "Timeout" =>
        /\ e.left <= Lease
        /\ Covered(e) => Secure(c, r.iface, e.left - 1) /\ r.req = r.iface

\* Renew, Rebind and Timeout are as far apart as they were scheduled.
Aligned(r) ==
    /\ \A e, f \in Todo(r) : e.what = "Timeout" =>
         /\ f.what = "Renew" => e.left = f.left + Lease - Renew
         /\ f.what = "Rebind" => e.left = f.left + Lease - Rebind
    /\ AtMostOne(r.events, "Rebind")

\* Before the start nothing is scheduled.
Resting(r) == \/ r.running
              \/ /\ r.state = "NONE" /\ ~r.stopped /\ r.iface = NoAddress
                 /\ r.offers = <<>> /\ ~r.offered /\ r.events = <<>>

\* The event is removed before it can happen, by the end of the lease.
Outlived(r, e) ==
    /\ e.known /\ r.iface # NoAddress
    /\ \A f \in Todo(r) : f.what \notin {"Renew", "Rebind"}
    /\ \A f \in Todo(r) : f.what = "Timeout" => f.left < e.left

\* While a client collects offers the server keeps its address for it ...
Selecting(c, r) ==
    /\ \A e \in Todo(r) : e.what = "Select" =>
         e.left <= Collect /\ Backed(c, e.left + Lease - 1 - Collect)
    /\ r.offered \/ r.offers # <<>> => \E e \in Todo(r) : e.what = "Select"
    /\ \A a \in ToSet(r.offers) : a = leased[c].addr
    /\ r.state = "REFRESH_LEASE" => r.offers = <<>>

\* ... and while it waits for an acknowledgement.
Waiting(c, r) ==
    \A e \in Todo(r) : e.what = "NextOffer" =>
        e.left <= NextOffer /\ (Backed(c, e.left + 1) \/ Outlived(r, e))

Sound(c, r) == /\ Holding(r) /\ Leasing(r) /\ Lasting(c, r) /\ Aligned(r)
               /\ Resting(r) /\ Selecting(c, r) /\ Waiting(c, r)

Sent(type, seq) == \E i \in DOMAIN seq : seq[i].type = type

\* The messages on their way speak of the address the server keeps for c.
Messages(c) ==
    /\ \A i \in DOMAIN toClient[c] : toClient[c][i].type = "OFFER" =>
         Secure(c, toClient[c][i].addr, Lease - 1)
    /\ Sent("REQ", toServer[c]) => Secure(c, client[c].req, 1)
    /\ Sent("ACK", toClient[c]) => Secure(c, client[c].req, Lease - 1)

\* A client does not ask for an address in the next n seconds.
Patient(r, n) ==
    \A e \in Todo(r) : /\ e.what = "Select" => e.left > n
                       /\ e.what = "NextOffer" => Outlived(r, e)

\* A client d that was given the address of c before c has given it up does not
\* ask for it yet.
Apart(c, d) ==
    \A e \in Todo(client[c]) :
        e.what = "Timeout" /\ ~Covered(e) /\ c # d /\ Known(d)
            /\ leased[d].addr = client[c].iface =>
          /\ ~Sent("REQ", toServer[d]) /\ ~Sent("ACK", toClient[d])
          /\ Patient(client[d], e.left)

Safe ==
    /\ Listed
    /\ \A c \in Client : Sound(c, client[c]) /\ Messages(c)
    /\ \A c, d \in Client : Apart(c, d)
    /\ OneHolder
-----------------------------------------------------------------------------
(* What the steps of a client leave of its events. *)

LEMMA MarginFacts ==
    ASSUME Margins
    PROVE  /\ Lease \in Nat /\ Collect \in Nat /\ NextOffer \in Nat
           /\ Renew \in Nat /\ Rebind \in Nat /\ Renew < Rebind
           /\ Collect >= 2 /\ NextOffer >= 1 /\ Lease >= 2
           /\ Rebind + 2 <= Lease
           /\ NextOffer + Collect + 2 <= Lease
           /\ NextOffer + 2 <= Lease - Renew
           /\ NextOffer + 2 <= Lease - Rebind \/ NextOffer > Lease - Rebind
BY Constants DEF Margins

LEMMA LeaseOf ==
    ASSUME TypeInv
    PROVE  /\ Pending \in {0, 1}
           /\ \A c : Known(c) => /\ leased[c].left \in Nat
                                 /\ leased[c].addr \in Address
                                 /\ leased[c].addr # NoAddress
BY Constants DEF TypeInv, Pending, Known, Entry

LEMMA BackedLess ==
    ASSUME TypeInv, NEW c, NEW m \in Int, NEW n \in Int, m <= n, Backed(c, n)
    PROVE  Backed(c, m)
BY LeaseOf DEF Backed

\* The events of no kind of K are the same.
SameBut(K, ev, ev2) ==
    /\ \A e \in ToSet(ev) : e.what \notin K => e \in ToSet(ev2)
    /\ \A e \in ToSet(ev2) : e.what \notin K => e \in ToSet(ev)
    /\ AtMostOne(ev, "Rebind") => AtMostOne(ev2, "Rebind")

LEMMA SameButTwice ==
    ASSUME NEW K, NEW M, NEW N, NEW ev, NEW mid, NEW ev2,
           SameBut(K, ev, mid), SameBut(M, mid, ev2), K \cup M \subseteq N
    PROVE  SameBut(N, ev, ev2)
BY DEF SameBut

LEMMA ScheduledSame ==
    ASSUME NEW ev, NEW new, NEW ev2, Scheduled(ev, new, ev2), new.what # "Rebind"
    PROVE  SameBut({new.what}, ev, ev2)
BY DEF SameBut, Scheduled

LEMMA RemovedSame ==
    ASSUME NEW ev, NEW whats, NEW ev2, Removed(ev, whats, ev2)
    PROVE  SameBut(whats, ev, ev2)
BY DEF SameBut, Removed

LEMMA TakenSame ==
    ASSUME NEW ev, NEW e, NEW ev2, Taken(ev, e, ev2)
    PROVE  SameBut({e.what}, ev, ev2)
BY DEF SameBut, Taken

LEMMA GathersSame ==
    ASSUME NEW ev \in Seq(Event), NEW ev2, Gathers(ev, ev2)
    PROVE  /\ SameBut({"Boot", "Select"}, ev, ev2)
           /\ \A e \in ToSet(ev2) : e.what = "Select" =>
                                      e \in ToSet(ev) \/ e.left = Collect
           /\ \E e \in ToSet(ev2) : e.what = "Select"
<1> DEFINE new == [what |-> "Select", left |-> Collect, known |-> FALSE]
<1>1. PICK mid \in Seq(Event) : /\ Removed(ev, {"Boot"}, mid)
                                /\ ev2 = Append(mid, new)
  BY DEF Gathers
<1>2. new \in Event /\ new.what = "Select" /\ new.left = Collect
  BY Constants DEF Event, Kinds
<1> HIDE DEF new
<1>3. ToSet(ev2) = ToSet(mid) \cup {new}
  BY <1>1, <1>2, SetAppend
<1>4. AtMostOne(mid, "Rebind") => AtMostOne(ev2, "Rebind")
  <2>1. /\ DOMAIN mid = 1..Len(mid) /\ Len(mid) \in Nat
        /\ DOMAIN ev2 = 1..(Len(mid) + 1)
        /\ \A i \in 1..Len(mid) : ev2[i] = mid[i]
        /\ ev2[Len(mid) + 1] = new
    BY <1>1, <1>2, AppendProperties
  <2>2. \A i \in DOMAIN ev2 : ev2[i].what = "Rebind" =>
                                i \in DOMAIN mid /\ mid[i] = ev2[i]
    BY <2>1, <1>2
  <2> QED BY <2>2 DEF AtMostOne
<1>5. SameBut({"Boot", "Select"}, ev, ev2)
  BY <1>1, <1>2, <1>3, <1>4 DEF Removed, SameBut
<1>6. \A e \in ToSet(ev2) : e.what = "Select" => e \in ToSet(ev) \/ e.left = Collect
  BY <1>1, <1>2, <1>3 DEF Removed
<1> QED BY <1>2, <1>3, <1>5, <1>6
-----------------------------------------------------------------------------
(* What the handlers of a client keep. *)

\* s has the address and the lease of r.
SameLease(r, s) ==
    /\ s.running = r.running /\ s.stopped = r.stopped
    /\ s.my = r.my /\ s.iface = r.iface
    /\ \A e \in Todo(s) : e.what \in OfLease => e \in Todo(r)
    /\ \A e \in Todo(r) : e.what = "Timeout" => e \in Todo(s)
    /\ AtMostOne(r.events, "Rebind") => AtMostOne(s.events, "Rebind")

LEMMA LeaseKept ==
    ASSUME NEW c, NEW r, NEW s, Sound(c, r), r.running, SameLease(r, s),
           s.req \in {r.req, leased[c].addr}
    PROVE  /\ Holding(s) /\ Leasing(s) /\ Lasting(c, s) /\ Aligned(s) /\ Resting(s)
           /\ \A e \in Todo(s) : e.what = "Timeout" => e \in Todo(r)
<1>1. /\ s.running = r.running /\ s.stopped = r.stopped
      /\ s.my = r.my /\ s.iface = r.iface
      /\ \A e \in Todo(s) : e.what \in {"Renew", "Rebind", "Timeout"} => e \in Todo(r)
      /\ \A e \in Todo(r) : e.what = "Timeout" => e \in Todo(s)
      /\ AtMostOne(r.events, "Rebind") => AtMostOne(s.events, "Rebind")
  BY DEF SameLease, OfLease
<1>2. Holding(s)
  BY <1>1 DEF Sound, Holding
<1>3. Leasing(s)
  BY <1>1 DEF Sound, Leasing, OfLease
<1>4. Lasting(c, s)
  <2> SUFFICES ASSUME NEW e \in Todo(s), e.what = "Timeout"
               PROVE  /\ e.left <= Lease
                      /\ Covered(e) => /\ Secure(c, s.iface, e.left - 1)
                                       /\ s.req = s.iface
    BY DEF Lasting
  <2>1. /\ e.left <= Lease
        /\ Covered(e) => Secure(c, r.iface, e.left - 1) /\ r.req = r.iface
    BY <1>1 DEF Sound, Lasting
  <2> QED BY <1>1, <2>1 DEF Secure
<1>5. Aligned(s)
  BY <1>1 DEF Sound, Aligned
<1>6. Resting(s)
  BY <1>1 DEF Resting
<1> QED BY <1>1, <1>2, <1>3, <1>4, <1>5, <1>6

\* No address and no calls of a lease: what is left to hold.
LEMMA Unheld ==
    ASSUME NEW c, NEW s \in Record, s.iface = NoAddress, s.running,
           \A e \in Todo(s) : e.what \notin OfLease
    PROVE  /\ Holding(s) /\ Leasing(s) /\ Lasting(c, s) /\ Aligned(s) /\ Resting(s)
           /\ \A e \in Todo(s) : e.what # "Timeout"
<1>1. \A e \in Todo(s) : e.what # "Renew" /\ e.what # "Rebind" /\ e.what # "Timeout"
  BY DEF OfLease
<1>2. AtMostOne(s.events, "Rebind")
  BY <1>1, NoneAtMostOne DEF Record, Todo
<1> QED BY <1>1, <1>2 DEF Holding, Leasing, Lasting, Aligned, Resting

\* s asks no sooner than r.
NoSooner(r, s) ==
    /\ \A e \in Todo(s) : e.what = "Select" => e \in Todo(r) \/ e.left = Collect
    /\ \A e \in Todo(s) : e.what = "NextOffer" => e \in Todo(r)
    /\ \/ \A e \in Todo(s) : e.what = "NextOffer" => ~e.known
       \/ /\ s.iface = r.iface
          /\ \A e \in Todo(s) : e.what \in OfLease => e \in Todo(r)

LEMMA WaitingKept ==
    ASSUME NEW c, NEW r, NEW s, Waiting(c, r), NoSooner(r, s)
    PROVE  /\ Waiting(c, s)
           /\ \A n \in Nat : n < Collect /\ Patient(r, n) => Patient(s, n)
<1>1. ASSUME NEW e \in Todo(s), e.what = "NextOffer", Outlived(r, e)
      PROVE  Outlived(s, e)
  BY <1>1 DEF NoSooner, Outlived, OfLease
<1>2. Waiting(c, s)
  BY <1>1 DEF Waiting, NoSooner
<1>3. ASSUME NEW n \in Nat, n < Collect, Patient(r, n)
      PROVE  Patient(s, n)
  BY <1>1, <1>3, Constants DEF NoSooner, Patient
<1> QED BY <1>2, <1>3

\* What a step of client c may make of its record, and what it sends.
Right(c, r, s, send) ==
    /\ Sound(c, s)
    /\ s.req \in {r.req, leased[c].addr}
    /\ Sent("REQ", send) => Secure(c, s.req, 1)
    /\ \A e \in Todo(s) : e.what = "Timeout" /\ ~Covered(e) =>
                            e \in Todo(r) /\ s.iface = r.iface
    /\ \A n \in Nat : n < Collect /\ leased[c].addr # r.iface /\ Patient(r, n) =>
                        Patient(s, n) /\ ~Sent("REQ", send)

LEMMA SentOne ==
    ASSUME NEW m, NEW type
    PROVE  /\ ~Sent(type, <<>>)
           /\ Sent(type, <<m>>) <=> m.type = type
<1>1. DOMAIN <<m>> = {1} /\ <<m>>[1] = m
  OBVIOUS
<1> QED BY <1>1 DEF Sent

LEMMA DiscoverSent == ~Sent("REQ", <<Msg("DISCOVER", NoAddress)>>)
<1>1. Msg("DISCOVER", NoAddress).type # "REQ"
  BY DEF Msg
<1> QED BY <1>1, SentOne

SameFields(r, t) ==
    /\ t.running = r.running /\ t.stopped = r.stopped /\ t.state = r.state
    /\ t.offered = r.offered /\ t.offers = r.offers
    /\ t.my = r.my /\ t.req = r.req /\ t.iface = r.iface

\* Those of the events that are no calls of a lease.
OfOffers == {"Boot", "Select", "NextOffer"}

\* A step that leaves the lease and schedules no sooner request is right.
LEMMA RightKept ==
    ASSUME NEW c, NEW r, NEW s, NEW send, Sound(c, r), r.running,
           SameLease(r, s), NoSooner(r, s), Selecting(c, s),
           s.req \in {r.req, leased[c].addr}, ~Sent("REQ", send)
    PROVE  Right(c, r, s, send)
<1>1. /\ Holding(s) /\ Leasing(s) /\ Lasting(c, s) /\ Aligned(s) /\ Resting(s)
      /\ \A e \in Todo(s) : e.what = "Timeout" => e \in Todo(r)
  BY LeaseKept
<1>2. /\ Waiting(c, s)
      /\ \A n \in Nat : n < Collect /\ Patient(r, n) => Patient(s, n)
  BY WaitingKept DEF Sound
<1>3. Sound(c, s)
  BY <1>1, <1>2 DEF Sound
<1>4. s.iface = r.iface
  BY DEF SameLease
<1> QED BY <1>1, <1>2, <1>3, <1>4 DEF Right

\* The lease is kept when only the events of offers change.
LEMMA SameLeaseEvents ==
    ASSUME NEW r, NEW s, SameBut(OfOffers, r.events, s.events),
           s.running = r.running, s.stopped = r.stopped,
           s.my = r.my, s.iface = r.iface
    PROVE  SameLease(r, s)
BY DEF SameBut, SameLease, OfOffers, OfLease, Todo

LEMMA BootRight ==
    ASSUME TypeInv, NEW c, NEW r, NEW t \in Record, Sound(c, r), r.running,
           SameFields(r, t), SameBut(OfOffers, r.events, t.events),
           \A e \in Todo(t) : e.what \in {"Select", "NextOffer"} => e \in Todo(r),
           \/ t.offers = <<>>
           \/ \A e \in Todo(r) : e.what = "Select" => e \in Todo(t)
    PROVE  LET s == Boot(t).client IN
           Right(c, r, s, Boot(t).send) /\ s.iface = r.iface
<1> DEFINE s == Boot(t).client
           send == Boot(t).send
           new == [what |-> "Boot", left |-> Rtrs, known |-> TRUE]
<1>1. /\ send = <<Msg("DISCOVER", NoAddress)>>
      /\ s.running = t.running /\ s.stopped = t.stopped
      /\ s.state = "WAIT_OFFER" /\ ~s.offered /\ s.offers = t.offers
      /\ s.my = t.my /\ s.req = t.req /\ s.iface = t.iface
      /\ Scheduled(t.events, new, s.events)
  BY BootType
<1> HIDE DEF s, send
<1>2. /\ s.running = r.running /\ s.stopped = r.stopped /\ s.offers = r.offers
      /\ s.my = r.my /\ s.req = r.req /\ s.iface = r.iface
  BY <1>1 DEF SameFields
<1>3. SameBut({"Boot"}, t.events, s.events)
  <2>1. new.what = "Boot"
    OBVIOUS
  <2> HIDE DEF new
  <2> QED BY <1>1, <2>1, ScheduledSame
<1>4. SameBut(OfOffers, r.events, s.events)
  <2>1. OfOffers \cup {"Boot"} \subseteq OfOffers
    BY DEF OfOffers
  <2> QED BY <1>3, <2>1, SameButTwice
<1>5. \A e \in Todo(s) : e.what \in {"Select", "NextOffer"} => e \in Todo(r)
  BY <1>3 DEF SameBut, Todo
<1>6. SameLease(r, s)
  BY <1>2, <1>4, SameLeaseEvents
<1>7. NoSooner(r, s)
  BY <1>2, <1>5, <1>6 DEF NoSooner, SameLease
<1>8. Selecting(c, s)
  <2>1. s.offers # <<>> => \E e \in Todo(s) : e.what = "Select"
    <3> SUFFICES ASSUME s.offers # <<>> PROVE \E e \in Todo(s) : e.what = "Select"
      OBVIOUS
    <3>1. PICK e \in Todo(r) : e.what = "Select"
      BY <1>2 DEF Sound, Selecting
    <3>2. e \in Todo(t)
      BY <3>1, <1>1
    <3> QED BY <3>1, <3>2, <1>3 DEF SameBut, Todo
  <2> QED BY <1>1, <1>2, <1>5, <2>1 DEF Sound, Selecting
<1>9. ~Sent("REQ", send)
  BY <1>1, DiscoverSent
<1>10. Right(c, r, s, send)
  BY <1>2, <1>6, <1>7, <1>8, <1>9, RightKept
<1> QED BY <1>2, <1>10 DEF s, send

LEMMA OfferRight ==
    ASSUME TypeInv, Margins, NEW c, NEW r \in Record, NEW a \in Address,
           Sound(c, r), r.running, r.state = "WAIT_OFFER", Secure(c, a, Lease - 1)
    PROVE  LET s == OfferHandler(r, a).client IN
           Right(c, r, s, OfferHandler(r, a).send) /\ s.iface = r.iface
<1> DEFINE s == OfferHandler(r, a).client
           send == OfferHandler(r, a).send
<1>1. /\ send = <<>>
      /\ s.running = r.running /\ s.stopped = r.stopped
      /\ s.state = r.state /\ s.offered /\ s.offers = Append(r.offers, a)
      /\ s.my = r.my /\ s.req = r.req /\ s.iface = r.iface
      /\ r.offered => s.events = r.events
      /\ ~r.offered => Gathers(r.events, s.events)
  BY OfferType
<1> HIDE DEF s, send
<1>2. r.offers \in Seq(Address) /\ r.events \in Seq(Event)
  BY DEF Record
<1>3. ToSet(s.offers) = ToSet(r.offers) \cup {a}
  BY <1>1, <1>2, SetAppend
<1>4. /\ SameBut({"Boot", "Select"}, r.events, s.events)
      /\ \A e \in Todo(s) : e.what = "Select" => e \in Todo(r) \/ e.left = Collect
      /\ \E e \in Todo(s) : e.what = "Select"
  <2>1. CASE r.offered
    <3>1. s.events = r.events
      BY <1>1, <2>1
    <3> QED BY <3>1, <2>1 DEF SameBut, Todo, Sound, Selecting
  <2>2. CASE ~r.offered
    BY <1>1, <1>2, <2>2, GathersSame DEF Todo
  <2> QED BY <2>1, <2>2
<1>5. SameBut(OfOffers, r.events, s.events)
  BY <1>4 DEF SameBut, OfOffers
<1>6. SameLease(r, s)
  BY <1>1, <1>5, SameLeaseEvents
<1>7. NoSooner(r, s)
  BY <1>1, <1>4, <1>6 DEF NoSooner, SameLease, SameBut, Todo
<1>8. Selecting(c, s)
  <2>1. Backed(c, Collect + Lease - 1 - Collect) /\ Collect <= Collect
    BY MarginFacts DEF Secure
  <2>2. \A e \in Todo(s) : e.what = "Select" =>
          e.left <= Collect /\ Backed(c, e.left + Lease - 1 - Collect)
    BY <1>4, <2>1 DEF Sound, Selecting
  <2>3. \A b \in ToSet(s.offers) : b = leased[c].addr
    BY <1>3 DEF Secure, Sound, Selecting
  <2> QED BY <1>1, <1>4, <2>2, <2>3 DEF Selecting
<1>9. Right(c, r, s, send)
  BY <1>1, <1>6, <1>7, <1>8, SentOne, RightKept
<1> QED BY <1>1, <1>9 DEF s, send

\* The calls of the choice and of the next offer: with offers they ask for the
\* first one.
LEMMA AskRight ==
    ASSUME TypeInv, Margins, NEW c, NEW r \in Record, NEW t \in Record,
           Sound(c, r), r.running, SameFields(r, t), r.offers # <<>>,
           NEW e \in Todo(r), e.what \in {"Select", "NextOffer"}, e.left = 0,
           Taken(r.events, e, t.events)
    PROVE  LET s == Select(t).client IN
           Right(c, r, s, Select(t).send) /\ s.iface = r.iface
<1> DEFINE u == Chosen(t)
           s == Select(t).client
           send == Select(t).send
           new == [what |-> "NextOffer", left |-> NextOffer, known |-> TRUE]
           a == leased[c].addr
<1>1. /\ Select(t) = Request(u) /\ u \in Record
      /\ u.running = r.running /\ u.stopped = r.stopped /\ u.state = r.state
      /\ ~u.offered /\ u.offers = <<>>
      /\ u.my = r.my /\ u.req \in ToSet(r.offers) /\ u.iface = r.iface
      /\ u.events = t.events
  <2>1. t.offers # <<>>
    BY DEF SameFields
  <2> HIDE DEF u
  <2> QED BY <2>1, ChosenType DEF SameFields, u
<1>2. u.req = a
  BY <1>1 DEF Sound, Selecting
<1>3. r.state # "REFRESH_LEASE"
  BY DEF Sound, Selecting
<1> HIDE DEF u
<1>4. /\ send = <<Msg("REQ", a)>>
      /\ s.running = r.running /\ s.stopped = r.stopped
      /\ s.state = "WAIT_ACK" /\ ~s.offered /\ s.offers = <<>>
      /\ s.my = r.my /\ s.req = a /\ s.iface = r.iface
      /\ Scheduled(t.events, new, s.events)
  <2> DEFINE q == Request(u)
  <2>1. /\ q.send = <<Msg("REQ", u.req)>>
        /\ q.client.running = u.running /\ q.client.stopped = u.stopped
        /\ q.client.state = "WAIT_ACK" /\ q.client.offered = u.offered
        /\ q.client.offers = u.offers /\ q.client.my = u.my
        /\ q.client.req = u.req /\ q.client.iface = u.iface
        /\ Scheduled(u.events, new, q.client.events)
    BY <1>1, <1>3, AskType
  <2>2. s = q.client /\ send = q.send
    BY <1>1
  <2> HIDE DEF q, s, send, new, a
  <2> QED BY <2>1, <2>2, <1>1, <1>2
<1> HIDE DEF s, send
<1>5. new.what = "NextOffer" /\ new.left = NextOffer
  OBVIOUS
<1> HIDE DEF new
<1>6. /\ SameBut({e.what}, r.events, t.events)
      /\ SameBut({"NextOffer"}, t.events, s.events)
  BY <1>4, <1>5, TakenSame, ScheduledSame
<1>7. SameBut(OfOffers, r.events, s.events)
  <2>1. {e.what} \cup {"NextOffer"} \subseteq OfOffers
    BY DEF OfOffers
  <2> QED BY <1>6, <2>1, SameButTwice
<1>8. /\ Holding(s) /\ Leasing(s) /\ Lasting(c, s) /\ Aligned(s) /\ Resting(s)
      /\ \A f \in Todo(s) : f.what = "Timeout" => f \in Todo(r)
  <2>1. SameLease(r, s)
    BY <1>4, <1>7, SameLeaseEvents
  <2> QED BY <1>4, <2>1, LeaseKept
\* The server keeps the address for as long as the answer may take.
<1>9. Backed(c, NextOffer + 1) /\ Backed(c, 1)
  <2>1. PICK f \in Todo(r) : f.what = "Select"
    BY DEF Sound, Selecting
  <2>2. f.left \in Nat /\ Backed(c, f.left + Lease - 1 - Collect)
    <3>1. f \in Event
      BY SetMembers DEF Todo, Record
    <3> QED BY <2>1, <3>1 DEF Sound, Selecting, Event
  <2>3. /\ NextOffer + 1 <= f.left + Lease - 1 - Collect
        /\ 1 <= f.left + Lease - 1 - Collect
        /\ f.left + Lease - 1 - Collect \in Int /\ NextOffer + 1 \in Int
    BY <2>2, MarginFacts
  <2> QED BY <2>2, <2>3, BackedLess
<1>10. \A f \in Todo(s) : f.what = "Select" => f \in Todo(r)
  BY <1>6 DEF SameBut, Todo, Taken
<1>11. \A f \in Todo(s) : f.what = "NextOffer" =>
         f.left \in Nat /\ f.left <= NextOffer
  <2> SUFFICES ASSUME NEW f \in Todo(s), f.what = "NextOffer"
               PROVE  f.left \in Nat /\ f.left <= NextOffer
    OBVIOUS
  <2>1. f.left \in Nat
    <3>1. f \in Event
      BY <1>4, SetMembers DEF Todo, Scheduled
    <3> QED BY <3>1 DEF Event
  <2>2. CASE f = new
    BY <2>1, <2>2, <1>5
  <2>3. CASE \E g \in ToSet(t.events) : g.what = f.what /\ g.left = f.left
    <3>1. PICK g \in Todo(r) : g.what = "NextOffer" /\ g.left = f.left
      BY <2>3 DEF Taken, Todo
    <3> QED BY <2>1, <3>1 DEF Sound, Waiting
  <2> QED BY <1>4, <1>5, <2>2, <2>3 DEF Scheduled, Todo
<1>12. Waiting(c, s)
  <2> SUFFICES ASSUME NEW f \in Todo(s), f.what = "NextOffer"
               PROVE  f.left <= NextOffer /\ Backed(c, f.left + 1)
    BY DEF Waiting
  <2>1. f.left \in Nat /\ f.left <= NextOffer
    BY <1>11
  <2>2. f.left + 1 \in Int /\ NextOffer + 1 \in Int /\ f.left + 1 <= NextOffer + 1
    BY <2>1, MarginFacts
  <2> QED BY <2>1, <2>2, <1>9, BackedLess
<1>13. Selecting(c, s)
  <2>1. ToSet(s.offers) = {}
    BY <1>4 DEF ToSet
  <2> QED BY <1>4, <1>10, <2>1 DEF Sound, Selecting
<1>14. Sound(c, s)
  BY <1>8, <1>12, <1>13 DEF Sound
\* A patient client would not have been called.
<1>15. ASSUME NEW n \in Nat, Patient(r, n) PROVE FALSE
  <2>1. CASE e.what = "Select"
    BY <2>1, <1>15 DEF Patient
  <2>2. CASE e.what = "NextOffer"
    <3>1. Outlived(r, e)
      BY <2>2, <1>15 DEF Patient
    <3>2. PICK f \in Todo(r) : f.what = "Timeout"
      BY <3>1 DEF Outlived, Sound, Holding
    <3>3. f \in Event
      BY SetMembers DEF Todo, Record
    <3> QED BY <3>1, <3>2, <3>3 DEF Outlived, Event
  <2> QED BY <2>1, <2>2
<1>16. Secure(c, s.req, 1)
  BY <1>4, <1>9 DEF Secure
<1>17. Right(c, r, s, send)
  BY <1>4, <1>8, <1>14, <1>15, <1>16 DEF Right
<1> QED BY <1>4, <1>17 DEF s, send

LEMMA SelectRight ==
    ASSUME TypeInv, Margins, NEW c, NEW r \in Record, NEW t \in Record,
           Sound(c, r), r.running, SameFields(r, t),
           NEW e \in Todo(r), e.what \in {"Select", "NextOffer"}, e.left = 0,
           Taken(r.events, e, t.events)
    PROVE  LET s == Select(t).client IN
           Right(c, r, s, Select(t).send) /\ s.iface = r.iface
<1>1. CASE r.offers # <<>>
  BY <1>1, AskRight
<1>2. CASE r.offers = <<>>
  <2>1. t.offers = <<>> /\ Select(t) = Boot(t)
    BY <1>2 DEF SameFields, Select
  <2>2. SameBut(OfOffers, r.events, t.events)
    <3>1. SameBut({e.what}, r.events, t.events) /\ SameBut({}, t.events, t.events)
      BY TakenSame DEF SameBut
    <3>2. {e.what} \cup {} \subseteq OfOffers
      BY DEF OfOffers
    <3> QED BY <3>1, <3>2, SameButTwice
  <2>3. \A f \in Todo(t) : f \in Todo(r)
    BY DEF Taken, Todo
  <2> QED BY <2>1, <2>2, <2>3, BootRight
<1> QED BY <1>1, <1>2

\* The calls of the renewal: the lease runs long enough for the answer.
LEMMA RenewRight ==
    ASSUME TypeInv, Margins, NEW c, NEW r \in Record, NEW t \in Record,
           Sound(c, r), r.running, SameFields(r, t),
           NEW e \in Todo(r), e.what \in {"Renew", "Rebind"}, e.left = 0,
           Taken(r.events, e, t.events)
    PROVE  LET s == Request(t).client IN
           Right(c, r, s, Request(t).send) /\ s.iface = r.iface
<1> DEFINE s == Request(t).client
           send == Request(t).send
           new == [what |-> "NextOffer", left |-> NextOffer, known |-> TRUE]
           a == r.iface
           rest == IF e.what = "Renew" THEN Lease - Renew ELSE Lease - Rebind
<1>1. e.known /\ a # NoAddress /\ r.my = a
  BY DEF Sound, Leasing, Holding, OfLease
<1>2. PICK end \in Todo(r) : end.what = "Timeout"
  BY <1>1 DEF Sound, Holding
<1>3. \A f \in Todo(r) : f.what = "Timeout" => f.left = rest
  BY MarginFacts DEF Sound, Aligned
<1>4. rest \in Nat /\ rest >= 2 /\ (rest >= NextOffer + 2 \/ e.what = "Rebind")
  BY MarginFacts
<1>5. Secure(c, a, rest - 1) /\ r.req = a
  <2>1. Covered(end)
    BY <1>2, <1>3, <1>4, LeaseOf DEF Covered
  <2>2. Secure(c, r.iface, end.left - 1) /\ r.req = r.iface
    BY <2>1, <1>2 DEF Sound, Lasting
  <2> QED BY <2>2, <1>2, <1>3
<1>6. Secure(c, a, 1)
  <2>1. 1 <= rest - 1 /\ rest - 1 \in Int /\ 1 \in Int
    BY <1>4
  <2>2. Backed(c, rest - 1)
    BY <1>5 DEF Secure
  <2>3. Backed(c, 1)
    BY <2>1, <2>2, BackedLess
  <2> QED BY <2>3, <1>5 DEF Secure
<1>7. leased[c].addr = r.iface
  BY <1>5 DEF Secure
<1>8. /\ s.running = r.running /\ s.stopped = r.stopped
      /\ s.state = "WAIT_ACK" /\ s.offered = r.offered /\ s.offers = r.offers
      /\ s.my = r.my /\ s.req = a /\ s.iface = r.iface
      /\ s.events = t.events \/ Scheduled(t.events, new, s.events)
  <2>1. CASE t.state = "REFRESH_LEASE"
    BY <2>1, <1>1, RefreshType DEF SameFields
  <2>2. CASE t.state # "REFRESH_LEASE"
    BY <2>2, <1>5, AskType DEF SameFields
  <2> QED BY <2>1, <2>2
<1>9. new.what = "NextOffer" /\ new.left = NextOffer /\ new.known
  OBVIOUS
<1> HIDE DEF s, send, new, rest
<1>10. /\ SameBut({e.what}, r.events, t.events)
       /\ SameBut({"NextOffer"}, t.events, s.events)
  <2>1. SameBut({"NextOffer"}, t.events, t.events)
    BY DEF SameBut
  <2> QED BY <2>1, <1>8, <1>9, TakenSame, ScheduledSame
<1>11. SameLease(r, s)
  <2>1. \A f \in Todo(s) : f.what \in OfLease => f \in Todo(r)
    BY <1>10 DEF SameBut, Taken, Todo, OfLease
  <2>2. \A f \in Todo(r) : f.what = "Timeout" => f \in Todo(s)
    BY <1>10 DEF SameBut, Todo
  <2> QED BY <2>1, <2>2, <1>8, <1>10 DEF SameLease, SameBut
<1>12. /\ Holding(s) /\ Leasing(s) /\ Lasting(c, s) /\ Aligned(s) /\ Resting(s)
       /\ \A f \in Todo(s) : f.what = "Timeout" => f \in Todo(r)
  BY <1>5, <1>8, <1>11, LeaseKept
<1>13. Selecting(c, s)
  <2>1. /\ \A f \in Todo(s) : f.what = "Select" => f \in Todo(r)
        /\ \A f \in Todo(r) : f.what = "Select" => f \in Todo(s)
    BY <1>10 DEF SameBut, Todo
  <2> QED BY <2>1, <1>8 DEF Sound, Selecting
\* No call of a renewal is left but those of this one.
<1>14. ASSUME e.what = "Rebind", NEW f \in Todo(s)
       PROVE  f.what \notin {"Renew", "Rebind"}
  <2>1. \A g \in Todo(t) : g.what # "Rebind"
    BY <1>14 DEF Sound, Aligned, Taken, Todo
  <2>2. f.what # "Rebind"
    BY <2>1, <1>10 DEF SameBut, Todo
  <2>3. ASSUME f.what = "Renew" PROVE FALSE
    <3>1. f \in Todo(r)
      BY <2>3, <1>11 DEF SameLease, OfLease
    <3>2. f.left \in Nat
      BY <3>1, TodoType
    <3>3. end.left = f.left + Lease - Renew /\ end.left = Lease - Rebind
      BY <3>1, <2>3, <1>2, <1>3, <1>14 DEF Sound, Aligned, rest
    <3> QED BY <3>2, <3>3, MarginFacts
  <2> QED BY <2>2, <2>3
<1>15. Backed(c, NextOffer + 1) \/ Outlived(s, new)
  <2>1. CASE rest >= NextOffer + 2
    <3>1. NextOffer + 1 <= rest - 1 /\ NextOffer + 1 \in Int /\ rest - 1 \in Int
      BY <2>1, <1>4, MarginFacts
    <3>2. Backed(c, rest - 1)
      BY <1>5 DEF Secure
    <3> QED BY <3>1, <3>2, BackedLess
  <2>2. CASE ~(rest >= NextOffer + 2)
    <3>1. e.what = "Rebind" /\ rest = Lease - Rebind
      BY <2>2, <1>4 DEF rest
    <3>2. rest < NextOffer
      BY <2>2, <3>1, MarginFacts
    <3>3. \A f \in Todo(s) : f.what \notin {"Renew", "Rebind"}
      BY <3>1, <1>14
    <3>4. \A f \in Todo(s) : f.what = "Timeout" => f.left < new.left
      BY <3>2, <1>3, <1>9, <1>12
    <3> QED BY <3>3, <3>4, <1>1, <1>8, <1>9 DEF Outlived
  <2> QED BY <2>1, <2>2
<1>16. \A f \in Todo(r) : f.what = "NextOffer" =>
          f.left <= NextOffer /\ Backed(c, f.left + 1)
  <2>1. \A f \in Todo(r) : ~Outlived(r, f)
    BY DEF Outlived
  <2> QED BY <2>1 DEF Sound, Waiting
<1>17. Waiting(c, s)
  <2> SUFFICES ASSUME NEW f \in Todo(s), f.what = "NextOffer"
               PROVE  f.left <= NextOffer /\ (Backed(c, f.left + 1) \/ Outlived(s, f))
    BY DEF Waiting
  <2>1. CASE \E g \in Todo(r) : g.what = "NextOffer" /\ g.left = f.left
    BY <2>1, <1>16
  <2>2. CASE f = new
    BY <2>2, <1>9, <1>15, MarginFacts
  <2>3. \A g \in Todo(t) : g \in Todo(r)
    BY DEF Taken, Todo
  <2>4. CASE s.events = t.events
    BY <2>1, <2>3, <2>4 DEF Todo
  <2>5. CASE Scheduled(t.events, new, s.events)
    <3>1. f = new \/ \E g \in Todo(t) : g.what = f.what /\ g.left = f.left
      BY <2>5 DEF Scheduled, Todo
    <3> QED BY <3>1, <2>1, <2>2, <2>3
  <2> QED BY <1>8, <2>4, <2>5
<1>18. Sound(c, s)
  BY <1>12, <1>13, <1>17 DEF Sound
<1>19. Right(c, r, s, send)
  BY <1>6, <1>7, <1>8, <1>12, <1>18 DEF Right
<1> QED BY <1>8, <1>19 DEF s, send

\* The acknowledgement: the new lease.
LEMMA AckRight ==
    ASSUME TypeInv, Margins, NEW c, NEW r \in Record, NEW t \in Record,
           Sound(c, r), r.running, ~r.stopped, SameFields(r, t),
           Removed(r.events, {"NextOffer"}, t.events),
           Secure(c, r.req, Lease - 1)
    PROVE  LET s == AcceptAck(t).client IN
           /\ Right(c, r, s, AcceptAck(t).send)
           /\ s.iface = leased[c].addr
<1> DEFINE s == AcceptAck(t).client
           send == AcceptAck(t).send
           a == r.req
<1>1. /\ send = <<>>
      /\ s.running = r.running /\ s.stopped = r.stopped
      /\ s.state = "REFRESH_LEASE" /\ s.offered = r.offered /\ s.offers = <<>>
      /\ s.my = a /\ s.req = a /\ s.iface = a
      /\ Renewed(t.events, s.events)
  BY AcceptType DEF SameFields
<1> HIDE DEF s, send
<1>2. /\ \A e \in Todo(t) : e \in Todo(r) /\ ~(e.what = "NextOffer" /\ e.known)
      /\ \A e \in Todo(r) : e.what # "NextOffer" => e \in Todo(t)
  BY DEF Removed, Todo
<1>3. /\ \A e \in Todo(s) : e \in Fresh \/ (e.what \notin OfLease /\ e \in Todo(t))
      /\ \A e \in Todo(t) : e.what \notin OfLease => e \in Todo(s)
      /\ Call("Timeout", Lease) \in Todo(s)
      /\ AtMostOne(s.events, "Rebind")
  <2>1. \A e \in Todo(t) : e.what \in OfLease => e.known
    BY <1>2 DEF Sound, Leasing
  <2> QED BY <2>1, <1>1 DEF Renewed, Todo
<1>4. a # NoAddress /\ leased[c].addr = a
  BY LeaseOf DEF Secure, Backed
<1>5. \A e \in Fresh :
        /\ e.known /\ e.what \in OfLease
        /\ e.what = "Renew" => e.left = Renew
        /\ e.what = "Rebind" => e.left = Rebind
        /\ e.what = "Timeout" => e.left = Lease
  BY DEF Fresh, Call, OfLease
<1>6. \A e \in Todo(s) : e.what \in OfLease => e \in Fresh
  BY <1>3
<1>7. Holding(s)
  <2>1. Call("Timeout", Lease).what = "Timeout"
    BY DEF Call
  <2> QED BY <2>1, <1>1, <1>3 DEF Holding
<1>8. Leasing(s)
  BY <1>1, <1>4, <1>5, <1>6 DEF Leasing
<1>9. \A e \in Todo(s) : e.what = "Timeout" => e.left = Lease
  BY <1>5, <1>6 DEF OfLease
<1>10. Lasting(c, s)
  BY <1>1, <1>9, MarginFacts DEF Lasting
<1>11. Aligned(s)
  <2>1. \A f \in Todo(s) : /\ f.what = "Renew" => f.left = Renew
                           /\ f.what = "Rebind" => f.left = Rebind
    BY <1>5, <1>6 DEF OfLease
  <2> QED BY <2>1, <1>3, <1>9, MarginFacts DEF Aligned
<1>12. \A e \in Todo(s) : e.what \in {"Select", "NextOffer"} =>
          e \in Todo(r) /\ (e.what = "NextOffer" => ~e.known)
  BY <1>2, <1>3, <1>5 DEF OfLease
<1>13. NoSooner(r, s)
  BY <1>12 DEF NoSooner
<1>14. /\ Waiting(c, s)
       /\ \A n \in Nat : n < Collect /\ Patient(r, n) => Patient(s, n)
  BY <1>13, WaitingKept DEF Sound
<1>15. Selecting(c, s)
  <2>1. s.offered => \E e \in Todo(s) : e.what = "Select"
    <3> SUFFICES ASSUME s.offered PROVE \E e \in Todo(s) : e.what = "Select"
      OBVIOUS
    <3>1. PICK e \in Todo(r) : e.what = "Select"
      BY <1>1 DEF Sound, Selecting
    <3> QED BY <3>1, <1>2, <1>3 DEF OfLease
  <2>2. ToSet(s.offers) = {}
    BY <1>1 DEF ToSet
  <2> QED BY <2>1, <2>2, <1>1, <1>12 DEF Sound, Selecting
<1>16. Sound(c, s)
  BY <1>1, <1>7, <1>8, <1>10, <1>11, <1>14, <1>15 DEF Sound, Resting
<1>17. \A e \in Todo(s) : e.what = "Timeout" => Covered(e)
  BY <1>9, MarginFacts, LeaseOf DEF Covered
<1>18. Right(c, r, s, send)
  BY <1>1, <1>14, <1>16, <1>17, SentOne DEF Right
<1> QED BY <1>1, <1>4, <1>18 DEF s, send

\* A step after which the client has no address.
LEMMA UnheldRight ==
    ASSUME NEW c, NEW r, NEW s \in Record, NEW send,
           s.iface = NoAddress, s.running, s.req = r.req,
           \A e \in Todo(s) : e.what \notin OfLease,
           Waiting(c, r), NoSooner(r, s), Selecting(c, s), ~Sent("REQ", send)
    PROVE  Right(c, r, s, send)
<1>1. /\ Holding(s) /\ Leasing(s) /\ Lasting(c, s) /\ Aligned(s) /\ Resting(s)
      /\ \A e \in Todo(s) : e.what # "Timeout"
  BY Unheld
<1>2. /\ Waiting(c, s)
      /\ \A n \in Nat : n < Collect /\ Patient(r, n) => Patient(s, n)
  BY WaitingKept
<1>3. Sound(c, s)
  BY <1>1, <1>2 DEF Sound
<1> QED BY <1>1, <1>2, <1>3 DEF Right

\* Without the known events of the kinds whats, those of a lease among them,
\* nothing of a lease is left.
LEMMA RemovedAll ==
    ASSUME NEW c, NEW r, NEW ev, NEW mid, NEW whats, Sound(c, r),
           \A e \in ToSet(mid) : e \in Todo(r),
           Removed(mid, whats, ev), OfLease \subseteq whats, "NextOffer" \in whats
    PROVE  /\ \A e \in ToSet(ev) : e.what \notin OfLease /\ e \in Todo(r)
           /\ \A e \in ToSet(ev) : e.what = "NextOffer" => ~e.known
BY DEF Removed, Sound, Leasing

\* The end of the lease.
LEMMA RestartRight ==
    ASSUME TypeInv, NEW c, NEW r \in Record, NEW t \in Record,
           Sound(c, r), r.running, SameFields(r, t),
           NEW e \in Todo(r), e.what = "Timeout",
           Taken(r.events, e, t.events)
    PROVE  LET s == RemoveAndStart(t).client IN
           /\ Right(c, r, s, RemoveAndStart(t).send)
           /\ s.iface = NoAddress
<1> DEFINE s == RemoveAndStart(t).client
           send == RemoveAndStart(t).send
           new == Call("Boot", Rtrs)
<1>1. /\ send = <<Msg("DISCOVER", NoAddress)>> /\ s \in Record
      /\ s.running /\ s.state = "WAIT_OFFER" /\ ~s.offered /\ s.offers = r.offers
      /\ s.req = r.req /\ s.iface = NoAddress
      /\ \E ev \in Seq(Event) : /\ Removed(t.events, Cancelled, ev)
                                /\ Scheduled(ev, new, s.events)
  <2>1. RemoveAndStart(t) \in ResultType
    BY RestartType
  <2>2. s \in Record
    BY <2>1 DEF ResultType
  <2> QED BY <2>2, RestartType DEF SameFields
<1> HIDE DEF s, send
<1>2. PICK ev \in Seq(Event) : /\ Removed(t.events, Cancelled, ev)
                               /\ Scheduled(ev, new, s.events)
  BY <1>1
<1>3. new.what = "Boot"
  BY DEF Call
<1> HIDE DEF new
<1>4. /\ \A f \in ToSet(ev) : f.what \notin OfLease /\ f \in Todo(r)
      /\ \A f \in ToSet(ev) : f.what = "NextOffer" => ~f.known
  <2>1. \A f \in ToSet(t.events) : f \in Todo(r)
    BY DEF Taken, Todo
  <2>2. OfLease \subseteq Cancelled /\ "NextOffer" \in Cancelled
    BY DEF OfLease, Cancelled
  <2> QED BY <2>1, <2>2, <1>2, RemovedAll
<1>5. SameBut({"Boot"}, ev, s.events)
  BY <1>2, <1>3, ScheduledSame
<1>6. /\ \A f \in Todo(s) : f.what \notin OfLease
      /\ \A f \in Todo(s) : f.what \in {"Select", "NextOffer"} =>
           f \in Todo(r) /\ (f.what = "NextOffer" => ~f.known)
  BY <1>4, <1>5 DEF SameBut, Todo, OfLease
<1>7. NoSooner(r, s)
  BY <1>6 DEF NoSooner
<1>8. Selecting(c, s)
  <2>1. s.offers # <<>> => \E f \in Todo(s) : f.what = "Select"
    <3> SUFFICES ASSUME s.offers # <<>> PROVE \E f \in Todo(s) : f.what = "Select"
      OBVIOUS
    <3>1. PICK f \in Todo(r) : f.what = "Select"
      BY <1>1 DEF Sound, Selecting
    <3>2. f \in ToSet(t.events)
      BY <3>1 DEF Taken, Todo
    <3>3. f \in ToSet(ev)
      BY <3>1, <3>2, <1>2 DEF Removed, Cancelled
    <3> QED BY <3>1, <3>3, <1>5 DEF SameBut, Todo
  <2> QED BY <2>1, <1>1, <1>6 DEF Sound, Selecting
<1>9. ~Sent("REQ", send)
  BY <1>1, DiscoverSent
<1>10. Right(c, r, s, send)
  BY <1>1, <1>6, <1>7, <1>8, <1>9, UnheldRight DEF Sound
<1> QED BY <1>1, <1>10 DEF s, send

LEMMA StartRight ==
    ASSUME TypeInv, NEW c, NEW r \in Record, Sound(c, r), ~r.running
    PROVE  LET s == StartApplication(r).client IN
           /\ Right(c, r, s, StartApplication(r).send)
           /\ s.iface = NoAddress
<1> DEFINE s == StartApplication(r).client
           send == StartApplication(r).send
           new == [what |-> "Boot", left |-> Rtrs, known |-> TRUE]
<1>1. /\ r.events = <<>> /\ r.offers = <<>> /\ r.iface = NoAddress
  BY DEF Sound, Resting
<1>2. /\ send = <<Msg("DISCOVER", NoAddress)>> /\ s \in Record
      /\ s.running /\ s.state = "WAIT_OFFER" /\ ~s.offered /\ s.offers = <<>>
      /\ s.req = r.req /\ s.iface = NoAddress
      /\ Scheduled(r.events, new, s.events)
  <2>1. StartApplication(r) \in ResultType
    BY StartType
  <2>2. s \in Record
    BY <2>1 DEF ResultType
  <2> QED BY <2>2, <1>1, StartType
<1>3. new.what = "Boot"
  OBVIOUS
<1> HIDE DEF s, send, new
<1>4. \A e \in Todo(s) : e.what = "Boot"
  <2>1. ToSet(r.events) = {}
    BY <1>1 DEF ToSet
  <2> QED BY <2>1, <1>2, <1>3 DEF Scheduled, Todo
<1>5. NoSooner(r, s)
  BY <1>4 DEF NoSooner
<1>6. Selecting(c, s)
  <2>1. ToSet(s.offers) = {}
    BY <1>2 DEF ToSet
  <2> QED BY <2>1, <1>2, <1>4 DEF Selecting
<1>7. ~Sent("REQ", send)
  BY <1>2, DiscoverSent
<1>8. Right(c, r, s, send)
  BY <1>2, <1>4, <1>5, <1>6, <1>7, UnheldRight DEF Sound, OfLease
<1> QED BY <1>2, <1>8 DEF s, send

Stopped == {"Boot", "Renew", "Rebind", "Timeout", "NextOffer"}

LEMMA StopRight ==
    ASSUME TypeInv, NEW c, NEW r \in Record, Sound(c, r), r.running,
           NEW ev \in Seq(Event), Removed(r.events, Stopped, ev),
           NEW s, s = [r EXCEPT !.stopped = TRUE, !.iface = NoAddress, !.events = ev]
    PROVE  Right(c, r, s, <<>>) /\ s.iface = NoAddress
<1>1. /\ s \in Record
      /\ s.running = r.running /\ s.stopped
      /\ s.state = r.state /\ s.offered = r.offered /\ s.offers = r.offers
      /\ s.req = r.req /\ s.iface = NoAddress /\ s.events = ev
  BY StopType
<1>2. /\ \A f \in ToSet(ev) : f.what \notin OfLease /\ f \in Todo(r)
      /\ \A f \in ToSet(ev) : f.what = "NextOffer" => ~f.known
  <2>1. OfLease \subseteq Stopped /\ "NextOffer" \in Stopped
    BY DEF OfLease, Stopped
  <2>2. \A f \in ToSet(r.events) : f \in Todo(r)
    BY DEF Todo
  <2> QED BY <2>1, <2>2, RemovedAll
<1>3. NoSooner(r, s)
  BY <1>1, <1>2 DEF NoSooner, Todo
<1>4. Selecting(c, s)
  <2>1. \A f \in Todo(r) : f.what = "Select" => f \in Todo(s)
    BY <1>1 DEF Removed, Todo, Stopped
  <2>2. \A f \in Todo(s) : f \in Todo(r)
    BY <1>1, <1>2 DEF Todo
  <2> QED BY <2>1, <2>2, <1>1 DEF Sound, Selecting
<1>5. Right(c, r, s, <<>>)
  BY <1>1, <1>2, <1>3, <1>4, SentOne, UnheldRight DEF Sound, Todo
<1> QED BY <1>1, <1>5
-----------------------------------------------------------------------------
(* Steps of a client. *)

\* Every message of s2 is in s1.
FewerOf(s2, s1) == \A i \in DOMAIN s2 : \E j \in DOMAIN s1 : s1[j] = s2[i]

LEMMA FewerSent ==
    ASSUME NEW s1, NEW s2, NEW type, FewerOf(s2, s1), Sent(type, s2)
    PROVE  Sent(type, s1)
BY DEF FewerOf, Sent

LEMMA FewerTail ==
    ASSUME NEW S, NEW s \in Seq(S), s # <<>>
    PROVE  FewerOf(Tail(s), s) /\ FewerOf(s, s)
<1>1. \A i \in DOMAIN Tail(s) : i + 1 \in DOMAIN s /\ s[i + 1] = Tail(s)[i]
  <2>1. /\ Len(s) \in Nat \ {0} /\ DOMAIN s = 1..Len(s)
        /\ DOMAIN Tail(s) = 1..(Len(s) - 1)
        /\ \A i \in 1..(Len(s) - 1) : Tail(s)[i] = s[i + 1]
    BY HeadTailProperties, EmptySeq
  <2> QED BY <2>1
<1> QED BY <1>1 DEF FewerOf

LEMMA SentConcat ==
    ASSUME NEW S, NEW s \in Seq(S), NEW t \in Seq(S), NEW type, Sent(type, s \o t)
    PROVE  Sent(type, s) \/ Sent(type, t)
<1> DEFINE u == s \o t
<1>1. PICK k \in DOMAIN u : u[k].type = type
  BY DEF Sent
<1>2. \/ k \in DOMAIN s /\ u[k] = s[k]
      \/ k - Len(s) \in DOMAIN t /\ u[k] = t[k - Len(s)]
  BY SetConcat
<1> QED BY <1>1, <1>2 DEF Sent

\* An invariant record stays one while the server's leases and the timer stay.
LEMMA SoundSame ==
    ASSUME UNCHANGED <<leased, timerDue>>,
           NEW c, NEW r, client'[c] = r, Sound(c, r)
    PROVE  Sound(c, client[c])'
<1>1. /\ Holding(client[c])' /\ Leasing(client[c])' /\ Aligned(client[c])'
      /\ Resting(client[c])'
  BY DEF Sound, Holding, Leasing, Aligned, Resting, Todo
<1>2. Lasting(c, client[c])'
  BY DEF Sound, Lasting, Secure, Backed, Known, Covered, Pending, Todo
<1>3. Selecting(c, client[c])'
  BY DEF Sound, Selecting, Backed, Known, Pending, Todo
<1>4. Waiting(c, client[c])'
  BY DEF Sound, Waiting, Outlived, Backed, Known, Pending, Todo
<1> QED BY <1>1, <1>2, <1>3, <1>4 DEF Sound

\* What the invariant says is the same, too, of the pairs of clients.
ApartNow(c, d, r, q, up, down) ==
    \A e \in Todo(r) :
        e.what = "Timeout" /\ ~Covered(e) /\ c # d /\ Known(d)
            /\ leased[d].addr = r.iface =>
          /\ ~Sent("REQ", up) /\ ~Sent("ACK", down)
          /\ Patient(q, e.left)

LEMMA ApartSame ==
    ASSUME UNCHANGED <<leased, timerDue>>, NEW c, NEW d,
           ApartNow(c, d, client'[c], client'[d], toServer'[d], toClient'[d])
    PROVE  Apart(c, d)'
BY DEF ApartNow, Apart, Covered, Pending, Known, Patient, Outlived, Todo, Sent

LEMMA ListedSame ==
    ASSUME UNCHANGED server, Listed
    PROVE  Listed'
BY DEF server, Listed, RanOut

MessagesNow(c, r, up, down) ==
    /\ \A i \in DOMAIN down : down[i].type = "OFFER" =>
         Secure(c, down[i].addr, Lease - 1)
    /\ Sent("REQ", up) => Secure(c, r.req, 1)
    /\ Sent("ACK", down) => Secure(c, r.req, Lease - 1)

LEMMA MessagesSame ==
    ASSUME UNCHANGED <<leased, timerDue>>, NEW c,
           MessagesNow(c, client'[c], toServer'[c], toClient'[c])
    PROVE  Messages(c)'
BY DEF MessagesNow, Messages, Secure, Backed, Known, Pending, Sent

\* Fewer messages, and nothing else changed.
LEMMA FewerSafe ==
    ASSUME Safe, UNCHANGED <<server, client, timerDue>>,
           \A c \in Client : /\ FewerOf(toServer'[c], toServer[c])
                             /\ FewerOf(toClient'[c], toClient[c])
    PROVE  Safe'
<1>1. UNCHANGED <<leased, timerDue>>
  BY DEF server
<1>2. \A c \in Client : Sound(c, client[c])'
  BY <1>1, SoundSame DEF Safe
<1>3. ASSUME NEW c \in Client PROVE Messages(c)'
  <2> DEFINE up == toServer'[c]
             down == toClient'[c]
  <2>1. MessagesNow(c, client[c], toServer[c], toClient[c])
    BY DEF Safe, Messages, MessagesNow
  <2>2. FewerOf(up, toServer[c]) /\ FewerOf(down, toClient[c])
    OBVIOUS
  <2> HIDE DEF up, down
  <2>3. MessagesNow(c, client[c], up, down)
    BY <2>1, <2>2, FewerSent DEF MessagesNow, FewerOf
  <2> QED BY <1>1, <2>3, MessagesSame DEF up, down
<1>4. ASSUME NEW c \in Client, NEW d \in Client PROVE Apart(c, d)'
  <2> DEFINE up == toServer'[d]
             down == toClient'[d]
  <2>1. ApartNow(c, d, client[c], client[d], toServer[d], toClient[d])
    BY DEF Safe, Apart, ApartNow
  <2>2. FewerOf(up, toServer[d]) /\ FewerOf(down, toClient[d])
    OBVIOUS
  <2> HIDE DEF up, down
  <2>3. ApartNow(c, d, client[c], client[d], up, down)
    BY <2>1, <2>2, FewerSent DEF ApartNow
  <2> QED BY <1>1, <2>3, ApartSame DEF up, down
<1>5. OneHolder'
  BY DEF Safe, OneHolder, Holds
<1> QED BY <1>2, <1>3, <1>4, <1>5, ListedSame DEF Safe
-----------------------------------------------------------------------------
(* Any handler of a client is right. *)

LEMMA SilentRight ==
    ASSUME NEW c, NEW r, Sound(c, r)
    PROVE  Right(c, r, r, <<>>)
BY SentOne DEF Right

LEMMA HandleRight ==
    ASSUME TypeInv, Margins, NEW c, NEW r \in Record, NEW m \in Answer,
           Sound(c, r), ~r.stopped,
           m.type = "OFFER" => Secure(c, m.addr, Lease - 1),
           m.type = "ACK" => Secure(c, r.req, Lease - 1)
    PROVE  LET s == Handle(r, m).client IN
           /\ Right(c, r, s, Handle(r, m).send)
           /\ \/ s.iface \in {NoAddress, r.iface}
              \/ s.iface = leased[c].addr /\ m.type = "ACK"
<1> DEFINE ev == RemoveKnown(r.events, "NextOffer")
           t == [r EXCEPT !.events = ev]
<1>1. Removed(r.events, {"NextOffer"}, ev)
  BY RemoveOneKind DEF Record
<1>2. t = [r EXCEPT !.events = RemoveKnown(r.events, "NextOffer")]
  OBVIOUS
<1> HIDE DEF ev
<1>3. t \in Record /\ SameFields(r, t) /\ t.events = ev
  <2>1. ev \in Seq(Event)
    BY <1>1 DEF Removed
  <2> QED BY <2>1, ForgetType DEF SameFields
<1> HIDE DEF t
<1>4. r.state \in {"WAIT_OFFER", "WAIT_ACK"} => r.running
  BY DEF Sound, Resting
<1>5. CASE r.state = "WAIT_OFFER" /\ m.type = "OFFER"
  <2>1. m.addr \in Address /\ Handle(r, m) = OfferHandler(r, m.addr)
    BY <1>5 DEF Handle, Answer
  <2> QED BY <2>1, <1>4, <1>5, OfferRight
<1>6. CASE r.state = "WAIT_ACK" /\ m.type = "ACK"
  <2>1. Handle(r, m) = AcceptAck(t)
    BY <1>2, <1>6 DEF Handle
  <2>2. Removed(r.events, {"NextOffer"}, t.events)
    BY <1>1, <1>3
  <2> QED BY <2>1, <2>2, <1>3, <1>4, <1>6, AckRight
<1>7. CASE r.state = "WAIT_ACK" /\ m.type = "NACK"
  <2>1. Handle(r, m) = Boot(t)
    BY <1>2, <1>7 DEF Handle
  <2>2. SameBut(OfOffers, r.events, t.events)
    <3>1. SameBut({"NextOffer"}, r.events, t.events) /\ SameBut({}, t.events, t.events)
      BY <1>1, <1>3, RemovedSame DEF SameBut
    <3>2. {"NextOffer"} \cup {} \subseteq OfOffers
      BY DEF OfOffers
    <3> QED BY <3>1, <3>2, SameButTwice
  <2>3. /\ \A e \in Todo(t) : e \in Todo(r)
        /\ \A e \in Todo(r) : e.what = "Select" => e \in Todo(t)
    BY <1>1, <1>3 DEF Removed, Todo
  <2> QED BY <2>1, <2>2, <2>3, <1>3, <1>4, <1>7, BootRight
<1>8. CASE /\ ~(r.state = "WAIT_OFFER" /\ m.type = "OFFER")
           /\ ~(r.state = "WAIT_ACK" /\ m.type \in {"ACK", "NACK"})
  <2>1. Handle(r, m) = Silent(r)
    BY <1>8 DEF Handle
  <2>2. Silent(r).client = r /\ Silent(r).send = <<>>
    BY DEF Silent
  <2> QED BY <2>1, <2>2, SilentRight
<1> QED BY <1>5, <1>6, <1>7, <1>8

LEMMA FireRight ==
    ASSUME TypeInv, Margins, NEW c, NEW r \in Record, NEW t \in Record,
           Sound(c, r), SameFields(r, t),
           NEW e \in Todo(r), e.left = 0, Taken(r.events, e, t.events)
    PROVE  LET s == Fire(t, e.what).client IN
           /\ Right(c, r, s, Fire(t, e.what).send)
           /\ s.iface \in {NoAddress, r.iface}
<1>1. r.running
  <2>1. r.events # <<>>
    BY DEF Todo, ToSet
  <2> QED BY <2>1 DEF Sound, Resting
<1>2. CASE e.what = "Boot"
  <2>1. Fire(t, e.what) = Boot(t)
    BY <1>2 DEF Fire
  <2>2. SameBut(OfOffers, r.events, t.events)
    <3>1. SameBut({e.what}, r.events, t.events) /\ SameBut({}, t.events, t.events)
      BY TakenSame DEF SameBut
    <3>2. {e.what} \cup {} \subseteq OfOffers
      BY <1>2 DEF OfOffers
    <3> QED BY <3>1, <3>2, SameButTwice
  <2>3. /\ \A f \in Todo(t) : f \in Todo(r)
        /\ \A f \in Todo(r) : f.what = "Select" => f \in Todo(t)
    BY <1>2 DEF Taken, Todo
  <2> QED BY <2>1, <2>2, <2>3, <1>1, BootRight
<1>3. CASE e.what \in {"Select", "NextOffer"}
  <2>1. Fire(t, e.what) = Select(t)
    BY <1>3 DEF Fire
  <2> QED BY <2>1, <1>1, <1>3, SelectRight
<1>4. CASE e.what \in {"Renew", "Rebind"}
  <2>1. Fire(t, e.what) = Request(t)
    BY <1>4 DEF Fire
  <2> QED BY <2>1, <1>1, <1>4, RenewRight
<1>5. CASE e.what = "Timeout"
  <2>1. Fire(t, e.what) = RemoveAndStart(t)
    BY <1>5 DEF Fire
  <2> QED BY <2>1, <1>1, <1>5, RestartRight
<1> QED BY <1>2, <1>3, <1>4, <1>5, TodoType DEF Kinds
-----------------------------------------------------------------------------
(* A right handler keeps the invariant. *)

\* c goes from its record to s and sends a message.
Steps(c, s, send) ==
    /\ client' = [client EXCEPT ![c] = s]
    /\ UNCHANGED <<server, timerDue>>
    /\ \/ UNCHANGED toServer
       \/ toServer' = [toServer EXCEPT ![c] = @ \o send]
    /\ \A d \in Client : FewerOf(toClient'[d], toClient[d])

LEMMA StepsEffect ==
    ASSUME TypeInv, NEW c \in Client, NEW s, NEW send \in Seq(Message),
           Steps(c, s, send)
    PROVE  /\ client'[c] = s
           /\ \A d \in Client : d # c => /\ client'[d] = client[d]
                                         /\ toServer'[d] = toServer[d]
           /\ Sent("REQ", toServer'[c]) =>
                Sent("REQ", toServer[c]) \/ Sent("REQ", send)
           /\ UNCHANGED <<leased, timerDue>>
<1>1. /\ client'[c] = s
      /\ \A d \in Client : d # c => client'[d] = client[d]
      /\ UNCHANGED <<leased, timerDue>>
  BY DEF Steps, TypeInv, server
<1>2. Client \subseteq Everyone /\ toServer \in [Everyone -> Seq(Message)]
  BY DEF Everyone, TypeInv
<1>3. CASE UNCHANGED toServer
  BY <1>1, <1>3
<1>4. CASE toServer' = [toServer EXCEPT ![c] = @ \o send]
  <2> DEFINE up == toServer'
  <2>1. up = [toServer EXCEPT ![c] = @ \o send]
    BY <1>4
  <2> HIDE DEF up
  <2>2. up[c] = toServer[c] \o send /\ \A d \in Everyone : d # c => up[d] = toServer[d]
    BY <1>2, <2>1, ConcatTo
  <2>3. Sent("REQ", up[c]) => Sent("REQ", toServer[c]) \/ Sent("REQ", send)
    BY <1>2, <2>2, SentConcat
  <2> QED BY <1>1, <1>2, <2>2, <2>3 DEF up
<1> QED BY <1>3, <1>4 DEF Steps

\* The record and the messages of c after a right step.
LEMMA RightMessages ==
    ASSUME TypeInv, Safe, NEW c \in Client, NEW s, NEW send,
           Right(c, client[c], s, send), NEW up, NEW down,
           Sent("REQ", up) => Sent("REQ", toServer[c]) \/ Sent("REQ", send),
           FewerOf(down, toClient[c])
    PROVE  MessagesNow(c, s, up, down)
<1>1. MessagesNow(c, client[c], toServer[c], toClient[c])
  BY DEF Safe, Messages, MessagesNow
<1>2. s.req \in {client[c].req, leased[c].addr}
  BY DEF Right
<1>3. \A n : Secure(c, client[c].req, n) => Secure(c, s.req, n)
  BY <1>2 DEF Secure
<1>4. Sent("REQ", send) => Secure(c, s.req, 1)
  BY DEF Right
<1>5. Sent("REQ", up) => Secure(c, s.req, 1)
  BY <1>1, <1>3, <1>4 DEF MessagesNow
<1>6. Sent("ACK", down) => Secure(c, s.req, Lease - 1)
  BY <1>1, <1>3, FewerSent DEF MessagesNow
<1>7. ASSUME NEW i \in DOMAIN down, down[i].type = "OFFER"
      PROVE  Secure(c, down[i].addr, Lease - 1)
  <2>1. PICK j \in DOMAIN toClient[c] : toClient[c][j] = down[i]
    BY DEF FewerOf
  <2> QED BY <1>1, <1>7, <2>1 DEF MessagesNow
<1> QED BY <1>5, <1>6, <1>7 DEF MessagesNow

LEMMA Uncovered ==
    ASSUME TypeInv, Margins, NEW r \in Record, NEW e \in Todo(r), ~Covered(e)
    PROVE  e.left \in Nat /\ e.left < Collect
BY LeaseOf, TodoType, MarginFacts DEF Covered

\* Another client that may still have the address of c keeps it so.
LEMMA RightApart ==
    ASSUME TypeInv, Margins, Safe, NEW x \in Client, NEW c \in Client, x # c,
           NEW s, NEW send, Right(c, client[c], s, send), NEW up, NEW down,
           Sent("REQ", up) => Sent("REQ", toServer[c]) \/ Sent("REQ", send),
           FewerOf(down, toClient[c])
    PROVE  ApartNow(x, c, client[x], s, up, down)
<1> SUFFICES ASSUME NEW e \in Todo(client[x]), e.what = "Timeout", ~Covered(e),
                    Known(c), leased[c].addr = client[x].iface
             PROVE  ~Sent("REQ", up) /\ ~Sent("ACK", down) /\ Patient(s, e.left)
  BY DEF ApartNow
<1>1. /\ ~Sent("REQ", toServer[c]) /\ ~Sent("ACK", toClient[c])
      /\ Patient(client[c], e.left)
  BY DEF Safe, Apart
<1>2. leased[c].addr # client[c].iface
  BY LeaseOf DEF Safe, OneHolder, Holds
<1>3. e.left \in Nat /\ e.left < Collect
  BY Uncovered DEF TypeInv
<1>4. Patient(s, e.left) /\ ~Sent("REQ", send)
  BY <1>1, <1>2, <1>3 DEF Right
<1> QED BY <1>1, <1>4, FewerSent

\* An address that a client takes is on no other interface.
LEMMA RightHolder ==
    ASSUME TypeInv, Pooled, Safe, NEW c \in Client, NEW s,
           \/ s.iface \in {NoAddress, client[c].iface}
           \/ s.iface = leased[c].addr /\ Sent("ACK", toClient[c]),
           NEW x \in Client, x # c
    PROVE  s.iface = client[x].iface => s.iface \notin Address
<1> SUFFICES ASSUME s.iface = client[x].iface, s.iface \in Address PROVE FALSE
  OBVIOUS
<1>1. s.iface # NoAddress
  BY Constants
<1>2. s.iface # client[c].iface
  BY DEF Safe, OneHolder, Holds
<1>3. s.iface = leased[c].addr /\ Sent("ACK", toClient[c])
  BY <1>1, <1>2
<1>4. Known(c)
  BY <1>3 DEF Safe, Messages, Secure, Backed
<1>5. PICK e \in Todo(client[x]) : e.what = "Timeout"
  BY <1>1 DEF Safe, Sound, Holding
<1>6. CASE Covered(e)
  <2>1. Known(x) /\ leased[x].addr = client[x].iface
    BY <1>5, <1>6 DEF Safe, Sound, Lasting, Secure, Backed
  <2> QED BY <1>3, <1>4, <2>1 DEF Pooled, Known
<1>7. CASE ~Covered(e)
  BY <1>3, <1>4, <1>5, <1>7 DEF Safe, Apart
<1> QED BY <1>6, <1>7

LEMMA StepsSafe ==
    ASSUME TypeInv, Pooled, Safe, Margins, NEW c \in Client,
           NEW s, NEW send \in Seq(Message), Steps(c, s, send),
           Right(c, client[c], s, send),
           \/ s.iface \in {NoAddress, client[c].iface}
           \/ s.iface = leased[c].addr /\ Sent("ACK", toClient[c])
    PROVE  Safe'
<1>1. /\ client'[c] = s
      /\ \A d \in Client : d # c => /\ client'[d] = client[d]
                                    /\ toServer'[d] = toServer[d]
      /\ Sent("REQ", toServer'[c]) =>
           Sent("REQ", toServer[c]) \/ Sent("REQ", send)
      /\ UNCHANGED <<leased, timerDue>>
  BY StepsEffect
<1>2. \A d \in Client : FewerOf(toClient'[d], toClient[d])
  BY DEF Steps
<1>3. ASSUME NEW d \in Client PROVE Sound(d, client[d])'
  BY <1>1, SoundSame DEF Safe, Right
<1>4. ASSUME NEW d \in Client PROVE Messages(d)'
  <2> DEFINE up == toServer'[d]
             down == toClient'[d]
  <2>1. FewerOf(down, toClient[d])
    BY <1>2
  <2>2. MessagesNow(d, client'[d], up, down)
    <3>1. CASE d = c
      <4>1. Sent("REQ", up) => Sent("REQ", toServer[c]) \/ Sent("REQ", send)
        BY <1>1, <3>1
      <4> HIDE DEF up, down
      <4> QED BY <1>1, <2>1, <3>1, <4>1, RightMessages
    <3>2. CASE d # c
      <4>1. up = toServer[d] /\ client'[d] = client[d]
        BY <1>1, <3>2
      <4>2. MessagesNow(d, client[d], toServer[d], toClient[d])
        BY DEF Safe, Messages, MessagesNow
      <4> HIDE DEF up, down
      <4> QED BY <2>1, <4>1, <4>2, FewerSent DEF MessagesNow, FewerOf
    <3> QED BY <3>1, <3>2
  <2> QED BY <1>1, <2>2, MessagesSame
<1>5. ASSUME NEW x \in Client, NEW d \in Client PROVE Apart(x, d)'
  <2> DEFINE up == toServer'[d]
             down == toClient'[d]
  <2>1. FewerOf(down, toClient[d])
    BY <1>2
  <2>2. ApartNow(x, d, client'[x], client'[d], up, down)
    <3>1. CASE x = d
      BY <3>1 DEF ApartNow
    <3>2. CASE x # d /\ d = c
      <4>1. Sent("REQ", up) => Sent("REQ", toServer[c]) \/ Sent("REQ", send)
        BY <1>1, <3>2
      <4>2. client'[d] = s /\ client'[x] = client[x]
        BY <1>1, <3>2
      <4> HIDE DEF up, down
      <4> QED BY <2>1, <3>2, <4>1, <4>2, RightApart
    <3>3. CASE x # d /\ d # c
      <4>1. up = toServer[d] /\ client'[d] = client[d]
        BY <1>1, <3>3
      <4>2. ApartNow(x, d, client[x], client[d], toServer[d], toClient[d])
        BY DEF Safe, Apart, ApartNow
      <4> HIDE DEF up, down
      <4>3. ApartNow(x, d, client[x], client[d], up, down)
        BY <2>1, <4>1, <4>2, FewerSent DEF ApartNow
      <4>4. CASE x # c
        BY <1>1, <4>1, <4>3, <4>4
      <4>5. CASE x = c
        <5>1. \A e \in Todo(s) : e.what = "Timeout" /\ ~Covered(e) =>
                                   e \in Todo(client[c]) /\ s.iface = client[c].iface
          BY DEF Right
        <5>2. ApartNow(x, d, s, client[d], up, down)
          BY <4>3, <4>5, <5>1 DEF ApartNow
        <5> QED BY <1>1, <4>1, <4>5, <5>2
      <4> QED BY <4>4, <4>5
    <3> QED BY <3>1, <3>2, <3>3
  <2> QED BY <1>1, <2>2, ApartSame
<1>6. OneHolder'
  <2> SUFFICES ASSUME NEW x \in Client, NEW y \in Client, x # y,
                      client'[x].iface = client'[y].iface
               PROVE  client'[x].iface \notin Address
    BY DEF OneHolder, Holds
  <2>1. \A z \in Client : z # c =>
          (s.iface = client[z].iface => s.iface \notin Address)
    BY RightHolder
  <2>2. CASE x = c
    BY <1>1, <2>1, <2>2
  <2>3. CASE y = c
    BY <1>1, <2>1, <2>3
  <2>4. CASE x # c /\ y # c
    BY <1>1, <2>4 DEF Safe, OneHolder, Holds
  <2> QED BY <2>2, <2>3, <2>4
<1>7. Listed'
  BY ListedSame DEF Safe, Steps
<1> QED BY <1>3, <1>4, <1>5, <1>6, <1>7 DEF Safe

LEMMA TakeSteps ==
    ASSUME NEW c \in Client, NEW result, Take(c, result), UNCHANGED <<server, timerDue>>,
           \A d \in Client : FewerOf(toClient'[d], toClient[d])
    PROVE  Steps(c, result.client, result.send)
BY DEF Take, Steps

LEMMA FewerSame == \A s : FewerOf(s, s)
BY DEF FewerOf

LEMMA StartSafe ==
    ASSUME TypeInv, Pooled, Safe, Margins, NEW c \in Client,
           ClientStarts(c), UNCHANGED timerDue
    PROVE  Safe'
<1> DEFINE result == StartApplication(client[c])
<1>1. client[c] \in Record /\ Sound(c, client[c]) /\ ~client[c].running
  BY DEF TypeInv, Safe, ClientStarts
<1>2. result \in ResultType
  BY <1>1, StartType
<1>3. /\ Right(c, client[c], result.client, result.send)
      /\ result.client.iface = NoAddress
  BY <1>1, StartRight
<1>4. Take(c, result) /\ UNCHANGED <<server, toClient>>
  BY DEF ClientStarts
<1> HIDE DEF result
<1>5. Steps(c, result.client, result.send)
  BY <1>4, TakeSteps, FewerSame
<1>6. result.send \in Seq(Message)
  BY <1>2 DEF ResultType
<1> QED BY <1>3, <1>5, <1>6, StepsSafe

LEMMA StopSafe ==
    ASSUME TypeInv, Pooled, Safe, Margins, NEW c \in Client,
           ClientStops(c), UNCHANGED timerDue
    PROVE  Safe'
<1> DEFINE r == client[c]
           ev == RemoveKnownAll(r.events, Stopped)
           s == [r EXCEPT !.stopped = TRUE, !.iface = NoAddress, !.events = ev]
<1>1. r \in Record /\ Sound(c, r) /\ r.running
  BY DEF TypeInv, Safe, ClientStops
<1>2. ev \in Seq(Event) /\ Removed(r.events, Stopped, ev)
  BY <1>1, RemoveEvents DEF Record, Removed
<1>3. ev = RemoveKnownAll(r.events, {"Boot", "Renew", "Rebind", "Timeout", "NextOffer"})
  BY DEF Stopped
<1>4. client' = [client EXCEPT ![c] = s] /\ UNCHANGED <<server, toServer, toClient>>
  <2> HIDE DEF ev
  <2> QED BY <1>3 DEF ClientStops
<1> HIDE DEF ev
<1>5. s = [r EXCEPT !.stopped = TRUE, !.iface = NoAddress, !.events = ev]
  OBVIOUS
<1> HIDE DEF s, r
<1>6. Right(c, r, s, <<>>) /\ s.iface = NoAddress
  BY <1>1, <1>2, <1>5, StopRight
<1> USE DEF r
<1>7. Steps(c, s, <<>>)
  BY <1>4, FewerSame DEF Steps
<1>8. <<>> \in Seq(Message)
  OBVIOUS
<1> QED BY <1>6, <1>7, <1>8, StepsSafe

LEMMA EventSafe ==
    ASSUME TypeInv, Pooled, Safe, Margins, NEW c \in Client,
           ClientEvent(c), UNCHANGED timerDue
    PROVE  Safe'
<1>1. client[c] \in Record /\ Sound(c, client[c])
  BY DEF TypeInv, Safe
<1>2. UNCHANGED <<server, toClient>>
  BY <1>1, EventCalls
<1>3. PICK i, t : Calls(c, i, t)
  BY <1>1, EventCalls
<1> DEFINE r == client[c]
           e == r.events[i]
           result == Fire(t, e.what)
<1>4. e.left = 0 /\ Take(c, result)
  BY <1>3 DEF Calls
<1>5. i \in DOMAIN r.events /\ r \in Record
  BY <1>1, <1>3 DEF Calls
<1>6. t = [r EXCEPT !.events = RemoveAt(@, i)]
  BY <1>3 DEF Calls
<1>7. /\ t \in Record /\ SameFields(r, t) /\ Taken(r.events, e, t.events)
      /\ e \in Event /\ e \in Todo(r)
  <2> HIDE DEF r
  <2>1. /\ t \in Record
        /\ t.running = r.running /\ t.stopped = r.stopped
        /\ t.state = r.state /\ t.offered = r.offered /\ t.offers = r.offers
        /\ t.my = r.my /\ t.req = r.req /\ t.iface = r.iface
        /\ Taken(r.events, r.events[i], t.events)
        /\ r.events[i] \in Event /\ r.events[i] \in ToSet(r.events)
    BY <1>5, <1>6, WithoutEvent, ZenonT(60)
  <2> QED BY <2>1 DEF SameFields, Todo
<1> HIDE DEF e
<1>8. /\ Right(c, client[c], result.client, result.send)
      /\ result.client.iface \in {NoAddress, client[c].iface}
  BY <1>1, <1>4, <1>7, FireRight
<1>9. result \in ResultType
  BY <1>7, FireType DEF Event
<1> HIDE DEF result
<1>10. Steps(c, result.client, result.send)
  BY <1>2, <1>4, TakeSteps, FewerSame
<1>11. result.send \in Seq(Message)
  BY <1>9 DEF ResultType
<1> QED BY <1>8, <1>10, <1>11, StepsSafe

LEMMA ReceiveSafe ==
    ASSUME TypeInv, Pooled, Safe, Margins, NEW c \in Client,
           ClientReceives(c), UNCHANGED timerDue
    PROVE  Safe'
<1> DEFINE r == client[c]
           m == Head(toClient[c])
           result == Handle(r, m)
<1>1. r \in Record /\ Sound(c, r) /\ c \in Everyone
  BY DEF TypeInv, Safe, Everyone
<1>2. /\ toClient \in [Everyone -> Seq(Answer)] /\ toClient[c] # <<>>
      /\ toClient' = [toClient EXCEPT ![c] = Tail(@)]
      /\ UNCHANGED server
  BY DEF TypeInv, ClientReceives
<1>3. /\ toClient'[c] = Tail(toClient[c]) /\ m \in Answer
      /\ \A d \in Everyone : d # c => toClient'[d] = toClient[d]
  BY <1>1, <1>2, TailOf
<1>4. \A d \in Client : FewerOf(toClient'[d], toClient[d])
  BY <1>1, <1>2, <1>3, FewerTail, FewerSame DEF Everyone
<1>5. CASE r.stopped
  <2>1. UNCHANGED <<client, toServer>>
    BY <1>5 DEF ClientReceives
  <2> QED BY <2>1, <1>2, <1>4, FewerSame, FewerSafe
<1>6. CASE ~r.stopped
  <2>1. m = toClient[c][1] /\ 1 \in DOMAIN toClient[c]
    BY <1>1, <1>2, EmptySeq
  <2>2. /\ m.type = "OFFER" => Secure(c, m.addr, Lease - 1)
        /\ m.type = "ACK" => Sent("ACK", toClient[c])
    BY <2>1 DEF Safe, Messages, Sent
  <2>3. Take(c, result)
    BY <1>6 DEF ClientReceives
  <2> HIDE DEF m
  <2>4. m.type = "ACK" => Secure(c, r.req, Lease - 1)
    BY <2>2 DEF Safe, Messages
  <2>5. /\ Right(c, r, result.client, result.send)
        /\ \/ result.client.iface \in {NoAddress, r.iface}
           \/ result.client.iface = leased[c].addr /\ m.type = "ACK"
    BY <1>1, <1>3, <1>6, <2>2, <2>4, HandleRight
  <2>6. result \in ResultType
    BY <1>1, <1>3, HandleType
  <2> HIDE DEF result
  <2>7. Steps(c, result.client, result.send)
    BY <1>2, <1>4, <2>3, TakeSteps
  <2>8. result.send \in Seq(Message)
    BY <2>6 DEF ResultType
  <2> QED BY <2>2, <2>5, <2>7, <2>8, StepsSafe
<1> QED BY <1>5, <1>6
-----------------------------------------------------------------------------
(* What the server leaves of the leases. *)

\* A lease of d that runs on does so after the step, with the same address.
Stays(d) ==
    \A n \in Int : n <= Lease - 1 /\ n + Pending >= 1 /\ Backed(d, n) =>
        Backed(d, n)' /\ leased'[d].addr = leased[d].addr

\* What a message of b may make of the leases of the clients.
Grants(b) ==
    /\ \A d \in Client : Stays(d)
    /\ \A d \in Client : Known(d) /\ d \in DOMAIN leased' =>
                           leased'[d].addr = leased[d].addr
    /\ \A d \in Client : d # b /\ d \in DOMAIN leased' => Known(d)
    /\ Listed'

LEMMA StaysSame ==
    ASSUME NEW d, UNCHANGED timerDue,
           Known(d) => /\ d \in DOMAIN leased'
                       /\ leased'[d].addr = leased[d].addr
                       /\ leased[d].left \in Nat /\ leased'[d].left \in Nat
                       /\ \/ leased'[d].left >= leased[d].left
                          \/ leased'[d].left = Lease
                          \/ leased[d].left = 0
    PROVE  Stays(d)
<1>1. Pending \in {0, 1} /\ Pending' = Pending
  BY DEF Pending
<1>2. Lease \in Nat
  BY Constants
<1> QED BY <1>1, <1>2 DEF Stays, Backed, Known

LEMMA OfferKnownGrants ==
    ASSUME TypeInv, Listed, UNCHANGED timerDue, NEW b \in Everyone, OfferKnown(b)
    PROVE  Grants(b)
<1>1. /\ expired \in Seq(Everyone) /\ expired' = Within(expired, Everyone \ {b})
      /\ b \in DOMAIN leased /\ leased' = [leased EXCEPT ![b] = NewLease(leased[b].addr)]
      /\ leased[b].addr \in Address
  BY DEF OfferKnown, Everyone, Known, TypeInv, Entry
<1>2. /\ DOMAIN leased' = DOMAIN leased
      /\ leased'[b].addr = leased[b].addr /\ leased'[b].left = Lease
      /\ \A d \in DOMAIN leased : d # b => leased'[d] = leased[d]
  <2> DEFINE v == NewLease(leased[b].addr)
  <2>1. v.addr = leased[b].addr /\ v.left = Lease
    BY <1>1, NewLeaseType
  <2> HIDE DEF v
  <2>2. leased' = [leased EXCEPT ![b] = v]
    BY <1>1 DEF v
  <2> QED BY <1>1, <2>1, <2>2 DEF TypeInv
<1>3. \A d \in Client : Stays(d)
  <2> SUFFICES ASSUME NEW d \in Client PROVE Stays(d)
    OBVIOUS
  <2>1. Known(d) => /\ d \in DOMAIN leased'
                    /\ leased'[d].addr = leased[d].addr
                    /\ leased[d].left \in Nat /\ leased'[d].left \in Nat
                    /\ \/ leased'[d].left >= leased[d].left
                       \/ leased'[d].left = Lease
                       \/ leased[d].left = 0
    BY <1>2, LeaseOf, Constants DEF Known
  <2> QED BY <2>1, StaysSame
<1>4. ToSet(expired') = {x \in ToSet(expired) : x \in Everyone \ {b}}
  BY <1>1, WithinSet
<1>5. ToSet(expired') \cap Client \subseteq RanOut'
  <2> SUFFICES ASSUME NEW x \in Client, x \in ToSet(expired') PROVE x \in RanOut'
    OBVIOUS
  <2>1. x # b /\ x \in RanOut
    BY <1>4 DEF Listed
  <2> QED BY <2>1, <1>2 DEF RanOut
<1>6. ASSUME NEW x \in Client, NEW i \in DOMAIN expired', NEW j \in DOMAIN expired',
             expired'[i] = x, expired'[j] = x
      PROVE  i = j
  <2> DEFINE I == {k \in DOMAIN expired : expired[k] \in Everyone \ {b}}
             A == {x}
  <2>1. I \in SUBSET (1..Len(expired)) /\ expired' = Kept(expired, I)
    BY <1>1 DEF Within
  <2>2. \A k, l \in I : expired[k] \in A /\ expired[l] \in A => k = l
    BY DEF Listed
  <2>3. Kept(expired, I) \in Seq(Everyone)
    BY <1>1, <2>1, KeptElements
  <2> HIDE DEF I, A
  <2>4. \A k, l \in 1..Len(Kept(expired, I)) :
          Kept(expired, I)[k] \in A /\ Kept(expired, I)[l] \in A => k = l
    BY <1>1, <2>1, <2>2, KeptOnce
  <2>5. DOMAIN expired' = 1..Len(Kept(expired, I))
    BY <2>1, <2>3
  <2>6. expired'[i] \in A /\ expired'[j] \in A
    BY <1>6 DEF A
  <2> QED BY <2>1, <2>4, <2>5, <2>6
<1>7. Listed'
  BY <1>5, <1>6 DEF Listed
<1> QED BY <1>2, <1>3, <1>7 DEF Grants, Known

LEMMA OfferNewGrants ==
    ASSUME TypeInv, Listed, UNCHANGED timerDue, NEW b \in Everyone, OfferNew(b)
    PROVE  Grants(b) /\ b \in DOMAIN leased' /\ leased'[b] = NewLease(Head(available))
<1> DEFINE v == NewLease(Head(available))
<1>1. /\ b \notin DOMAIN leased /\ expired' = expired
      /\ leased' = With(leased, b, v)
  BY DEF OfferNew, Known
<1> HIDE DEF v
<1>2. /\ DOMAIN leased' = DOMAIN leased \cup {b} /\ leased'[b] = v
      /\ \A d \in DOMAIN leased : leased'[d] = leased[d]
  BY <1>1 DEF With
<1>3. \A d \in Client : Stays(d)
  <2> SUFFICES ASSUME NEW d \in Client PROVE Stays(d)
    OBVIOUS
  <2>1. Known(d) => /\ d \in DOMAIN leased'
                    /\ leased'[d].addr = leased[d].addr
                    /\ leased[d].left \in Nat /\ leased'[d].left \in Nat
                    /\ \/ leased'[d].left >= leased[d].left
                       \/ leased'[d].left = Lease
                       \/ leased[d].left = 0
    BY <1>2, LeaseOf DEF Known
  <2> QED BY <2>1, StaysSame
<1>4. Listed'
  BY <1>1, <1>2 DEF Listed, RanOut
<1> QED BY <1>2, <1>3, <1>4 DEF Grants, Known, v

LEMMA OfferOldGrants ==
    ASSUME TypeInv, Listed, UNCHANGED timerDue, NEW b \in Everyone, OfferOld(b)
    PROVE  Grants(b)
<1> DEFINE oldest == expired[Len(expired)]
<1>1. /\ b \notin DOMAIN leased
      /\ oldest \in ToSet(expired) /\ Len(expired) \in DOMAIN expired
      /\ DOMAIN expired' = DOMAIN expired \ {Len(expired)}
      /\ \A i \in DOMAIN expired' : expired'[i] = expired[i]
      /\ Passed(oldest, b) \/ (oldest \notin DOMAIN leased /\ leased' = leased)
  BY OfferOldEffect, TypeParts
<1>2. oldest \in Client => oldest \in RanOut
  BY <1>1 DEF Listed
<1>3. \A x \in ToSet(expired') : x \in ToSet(expired) /\ (x \in Client => x # oldest)
  BY <1>1 DEF Listed, ToSet
<1>4. \A i, j \in DOMAIN expired' :
         expired'[i] = expired'[j] /\ expired'[i] \in Client => i = j
  BY <1>1 DEF Listed
<1> HIDE DEF oldest
<1>5. CASE oldest \notin DOMAIN leased /\ leased' = leased
  <2>1. \A d \in Client : Stays(d)
    BY <1>5, LeaseOf, StaysSame DEF Known
  <2>2. Listed'
    BY <1>3, <1>4, <1>5 DEF Listed, RanOut
  <2> QED BY <2>1, <2>2, <1>5 DEF Grants, Known
<1>6. CASE Passed(oldest, b)
  <2>1. /\ oldest \in DOMAIN leased /\ oldest # b
        /\ DOMAIN leased' = (DOMAIN leased \ {oldest}) \cup {b}
        /\ \A d \in DOMAIN leased \ {oldest} : leased'[d] = leased[d]
    BY <1>6 DEF Passed
  <2>2. ASSUME NEW d \in Client PROVE Stays(d)
    <3>1. CASE d = oldest
      <4>1. leased[d].left = 0
        BY <3>1, <1>2 DEF RanOut
      <4> QED BY <4>1, LeaseOf DEF Stays, Backed
    <3>2. CASE d # oldest
      <4>1. Known(d) => /\ d \in DOMAIN leased'
                        /\ leased'[d].addr = leased[d].addr
                        /\ leased[d].left \in Nat /\ leased'[d].left \in Nat
                        /\ \/ leased'[d].left >= leased[d].left
                           \/ leased'[d].left = Lease
                           \/ leased[d].left = 0
        BY <2>1, <3>2, LeaseOf DEF Known
      <4> QED BY <4>1, StaysSame
    <3> QED BY <3>1, <3>2
  <2>3. \A d \in Client : d \in DOMAIN leased /\ d \in DOMAIN leased' =>
                            leased'[d].addr = leased[d].addr
    BY <1>1, <2>1
  <2>4. \A d \in Client : d # b /\ d \in DOMAIN leased' => d \in DOMAIN leased
    BY <2>1
  <2>5. ToSet(expired') \cap Client \subseteq RanOut'
    BY <1>1, <1>3, <2>1 DEF Listed, RanOut
  <2>6. Listed'
    BY <1>4, <2>5 DEF Listed
  <2> QED BY <2>2, <2>3, <2>4, <2>6 DEF Grants, Known
<1> QED BY <1>1, <1>5, <1>6

\* A client's own request finds its lease running.
LEMMA SendAckGrants ==
    ASSUME TypeInv, Listed, UNCHANGED timerDue, NEW b \in Everyone, NEW a,
           b \in Client => Backed(b, 1), SendAck(b, a)
    PROVE  Grants(b)
<1>1. /\ expired' = expired /\ DOMAIN leased' = DOMAIN leased
      /\ \A d \in DOMAIN leased :
           /\ leased'[d].addr = leased[d].addr
           /\ leased'[d].left = IF d = b THEN leased[d].left + Lease
                                         ELSE leased[d].left
  BY SendAckEffect, TypeParts DEF AckEffect
<1>2. \A d \in Client : Stays(d)
  <2> SUFFICES ASSUME NEW d \in Client PROVE Stays(d)
    OBVIOUS
  <2>1. Known(d) => /\ d \in DOMAIN leased'
                    /\ leased'[d].addr = leased[d].addr
                    /\ leased[d].left \in Nat /\ leased'[d].left \in Nat
                    /\ \/ leased'[d].left >= leased[d].left
                       \/ leased'[d].left = Lease
                       \/ leased[d].left = 0
    BY <1>1, LeaseOf, Constants DEF Known
  <2> QED BY <2>1, StaysSame
<1>3. ToSet(expired') \cap Client \subseteq RanOut'
  <2> SUFFICES ASSUME NEW x \in Client, x \in ToSet(expired) PROVE x \in RanOut'
    BY <1>1
  <2>1. x \in DOMAIN leased /\ leased[x].left = 0
    BY DEF Listed, RanOut
  <2>2. x # b
    BY <2>1, LeaseOf DEF Backed
  <2> QED BY <1>1, <2>1, <2>2 DEF RanOut
<1>4. Listed'
  BY <1>1, <1>3 DEF Listed
<1> QED BY <1>1, <1>2, <1>4 DEF Grants, Known
-----------------------------------------------------------------------------
(* What the server says to a client. *)

\* An answer to b speaks of its lease after the step.
Fits(b, m) ==
    b \in Client =>
        /\ m.type = "OFFER" => Secure(b, m.addr, Lease - 1)'
        /\ m.type = "ACK" => /\ Sent("REQ", toServer[b])
                             /\ Secure(b, client[b].req, Lease - 1)'

Answers(b) ==
    \/ UNCHANGED toClient
    \/ \E m \in Answer : /\ toClient' = [toClient EXCEPT ![b] = Append(@, m)]
                         /\ Fits(b, m)

LEMMA OfferAnswers ==
    ASSUME UNCHANGED timerDue, NEW b, NEW a \in Address,
           toClient' = [toClient EXCEPT ![b] = Append(@, Msg("OFFER", a))],
           b \in DOMAIN leased', leased'[b] = NewLease(a)
    PROVE  Answers(b)
<1> DEFINE m == Msg("OFFER", a)
<1>1. m \in Answer /\ m.type = "OFFER" /\ m.addr = a
  BY MessageType DEF MaybeAddress
<1>2. toClient' = [toClient EXCEPT ![b] = Append(@, m)]
  OBVIOUS
<1> HIDE DEF m
<1>3. leased'[b].addr = a /\ leased'[b].left = Lease
  BY NewLeaseType
<1>4. Secure(b, m.addr, Lease - 1)'
  BY <1>1, <1>3, Constants DEF Secure, Backed, Known, Pending
<1> QED BY <1>1, <1>2, <1>4 DEF Answers, Fits

LEMMA SendOfferAnswers ==
    ASSUME TypeInv, Listed, UNCHANGED timerDue, NEW b \in Everyone, SendOffer(b)
    PROVE  Grants(b) /\ Answers(b)
<1>1. ServerType
  BY TypeParts
<1>2. CASE OfferKnown(b)
  <2>1. /\ leased[b].addr \in Address /\ b \in DOMAIN leased
        /\ leased' = [leased EXCEPT ![b] = NewLease(leased[b].addr)]
        /\ toClient' = [toClient EXCEPT ![b] = Append(@, Msg("OFFER", leased[b].addr))]
    BY <1>2 DEF OfferKnown, Known, TypeInv, Entry
  <2> DEFINE a == leased[b].addr
             v == NewLease(a)
  <2>2. b \in DOMAIN leased' /\ leased'[b] = v
    <3> HIDE DEF v
    <3>1. leased' = [leased EXCEPT ![b] = v]
      BY <2>1 DEF v
    <3> QED BY <2>1, <3>1 DEF TypeInv
  <2>3. a \in Address /\ toClient' = [toClient EXCEPT ![b] = Append(@, Msg("OFFER", a))]
    BY <2>1
  <2> HIDE DEF a
  <2>4. Answers(b)
    BY <2>2, <2>3, OfferAnswers
  <2> QED BY <1>2, <2>4, OfferKnownGrants
<1>3. CASE OfferNew(b)
  <2> DEFINE a == Head(available)
  <2>1. a \in Address
    BY <1>3, SetTail DEF OfferNew, TypeInv
  <2>2. toClient' = [toClient EXCEPT ![b] = Append(@, Msg("OFFER", a))]
    BY <1>3 DEF OfferNew
  <2>3. Grants(b) /\ b \in DOMAIN leased' /\ leased'[b] = NewLease(a)
    BY <1>3, OfferNewGrants
  <2> HIDE DEF a
  <2> QED BY <2>1, <2>2, <2>3, OfferAnswers
<1>4. CASE OfferOld(b)
  <2> DEFINE oldest == expired[Len(expired)]
             a == leased[oldest].addr
  <2>1. \/ /\ Passed(oldest, b)
           /\ toClient' = [toClient EXCEPT ![b] = Append(@, Msg("OFFER", a))]
        \/ UNCHANGED toClient
    BY <1>1, <1>4, OfferOldEffect
  <2>2. CASE UNCHANGED toClient
    BY <1>4, <2>2, OfferOldGrants DEF Answers
  <2>3. CASE /\ Passed(oldest, b)
             /\ toClient' = [toClient EXCEPT ![b] = Append(@, Msg("OFFER", a))]
    <3>1. /\ oldest \in DOMAIN leased /\ b \in DOMAIN leased'
          /\ leased'[b] = NewLease(a)
      BY <2>3 DEF Passed
    <3>2. a \in Address
      BY <3>1 DEF TypeInv, Entry
    <3>3. toClient' = [toClient EXCEPT ![b] = Append(@, Msg("OFFER", a))]
      BY <2>3
    <3> HIDE DEF oldest, a
    <3>4. Answers(b)
      BY <3>1, <3>2, <3>3, OfferAnswers
    <3> QED BY <1>4, <3>4, OfferOldGrants
  <2> QED BY <2>1, <2>2, <2>3
<1>5. CASE OfferNone(b)
  <2>1. UNCHANGED <<available, leased, expired, toClient>>
    BY <1>5 DEF OfferNone, server
  <2>2. \A d \in Client : Stays(d)
    BY <2>1, LeaseOf, StaysSame DEF Known
  <2>3. Listed'
    BY <2>1 DEF Listed, RanOut
  <2> QED BY <2>1, <2>2, <2>3 DEF Grants, Answers, Known
<1> QED BY <1>2, <1>3, <1>4, <1>5 DEF SendOffer

\* A request of b is answered from the lease it was sent on.
LEMMA SendAckAnswers ==
    ASSUME TypeInv, Listed, UNCHANGED <<timerDue, client>>, NEW b \in Everyone,
           NEW a \in Address, SendAck(b, a),
           b \in Client => Sent("REQ", toServer[b]) /\ Secure(b, client[b].req, 1)
    PROVE  Grants(b) /\ Answers(b)
<1>1. Grants(b)
  BY SendAckGrants DEF Secure
<1>2. /\ Msg("ACK", a) \in Answer /\ Msg("ACK", a).type = "ACK"
      /\ Msg("NACK", a) \in Answer /\ Msg("NACK", a).type = "NACK"
  BY MessageType DEF MaybeAddress
<1>3. CASE ~Known(b)
  <2> DEFINE m == Msg("NACK", a)
  <2>1. toClient' = [toClient EXCEPT ![b] = Append(@, m)]
    BY <1>3 DEF SendAck
  <2>2. m \in Answer /\ m.type = "NACK"
    BY <1>2
  <2> HIDE DEF m
  <2> QED BY <1>1, <2>1, <2>2 DEF Answers, Fits
<1>4. CASE Known(b)
  <2> DEFINE m == Msg("ACK", a)
  <2>1. toClient' = [toClient EXCEPT ![b] = Append(@, m)]
    BY <1>4 DEF SendAck
  <2>2. m \in Answer /\ m.type = "ACK"
    BY <1>2
  <2> HIDE DEF m
  <2>3. /\ DOMAIN leased' = DOMAIN leased
        /\ leased'[b].addr = leased[b].addr
        /\ leased'[b].left = leased[b].left + Lease
    <3>1. AckEffect(b)
      BY SendAckEffect, TypeParts
    <3> QED BY <1>4, <3>1 DEF AckEffect, Known
  <2>4. \A q : Secure(b, q, 1) => Secure(b, q, Lease - 1)'
    <3>1. Pending' = Pending /\ Pending \in {0, 1}
      BY DEF Pending
    <3>2. leased[b].left \in Nat /\ Lease \in Nat
      BY <1>4, LeaseOf, Constants
    <3> QED BY <2>3, <3>1, <3>2 DEF Secure, Backed, Known
  <2>5. b \in Client => Secure(b, client[b].req, Lease - 1)'
    <3> SUFFICES ASSUME b \in Client PROVE Secure(b, client[b].req, Lease - 1)'
      OBVIOUS
    <3> DEFINE q == client[b].req
    <3>1. Secure(b, q, 1) /\ q = q'
      OBVIOUS
    <3>2. Secure(b, q, Lease - 1)'
      BY <3>1, <2>4 DEF Secure, Backed, Known, Pending
    <3> QED BY <3>2
  <2> QED BY <1>1, <2>1, <2>2, <2>5 DEF Answers, Fits
<1> QED BY <1>3, <1>4

LEMMA ServerReceivesAnswers ==
    ASSUME TypeInv, Safe, UNCHANGED <<timerDue, client>>, NEW b \in Everyone,
           ServerReceives(b)
    PROVE  Grants(b) /\ Answers(b)
<1>1. Listed
  BY DEF Safe
<1> DEFINE m == Head(toServer[b])
<1>2. toServer[b] # <<>> /\ toServer[b] \in Seq(Message)
  BY DEF ServerReceives, TypeInv
<1>3. CASE SendOffer(b)
  BY <1>1, <1>3, SendOfferAnswers
<1>4. CASE m.type = "REQ" /\ \E a \in Address : SendAck(b, a)
  <2>1. Sent("REQ", toServer[b])
    <3>1. m = toServer[b][1] /\ 1 \in DOMAIN toServer[b]
      BY <1>2, EmptySeq
    <3> QED BY <1>4, <3>1 DEF Sent
  <2>2. b \in Client => Sent("REQ", toServer[b]) /\ Secure(b, client[b].req, 1)
    BY <2>1 DEF Safe, Messages
  <2> HIDE DEF m
  <2> QED BY <1>1, <1>4, <2>2, SendAckAnswers
<1>5. CASE UNCHANGED <<server, toClient>>
  <2>1. UNCHANGED <<available, leased, expired, toClient>>
    BY <1>5 DEF server
  <2>2. \A d \in Client : Stays(d)
    BY <2>1, LeaseOf, StaysSame DEF Known
  <2>3. Listed'
    BY <1>1, <2>1 DEF Listed, RanOut
  <2> QED BY <2>1, <2>2, <2>3 DEF Grants, Answers, Known
<1> QED BY <1>3, <1>4, <1>5 DEF ServerReceives
-----------------------------------------------------------------------------
(* The server's steps keep the invariant. *)

\* A record stays sound while its lease runs on.
LEMMA SoundStays ==
    ASSUME TypeInv, Margins, NEW c, NEW r \in Record, Sound(c, r), Stays(c),
           client'[c] = r, \A e \in Todo(r) : Covered(e)' => Covered(e)
    PROVE  Sound(c, client[c])'
<1>1. /\ Holding(client[c])' /\ Leasing(client[c])' /\ Aligned(client[c])'
      /\ Resting(client[c])'
  BY DEF Sound, Holding, Leasing, Aligned, Resting, Todo
<1>2. Pending \in {0, 1} /\ \A e \in Todo(r) : e.left \in Nat
  BY LeaseOf, TodoType
<1>3. \A n \in Int : n <= Lease - 1 /\ n + Pending >= 1 /\ Backed(c, n) =>
        Backed(c, n)' /\ leased'[c].addr = leased[c].addr
  BY DEF Stays
<1>4. ASSUME NEW e \in Todo(r), e.what = "Timeout"
      PROVE  /\ e.left <= Lease
             /\ Covered(e)' => Secure(c, r.iface, e.left - 1)' /\ r.req = r.iface
  <2>1. e.left <= Lease
    BY <1>4 DEF Sound, Lasting
  <2>2. ASSUME Covered(e)' PROVE Secure(c, r.iface, e.left - 1)' /\ r.req = r.iface
    <3>1. Covered(e)
      BY <2>2
    <3>2. Secure(c, r.iface, e.left - 1) /\ r.req = r.iface
      BY <3>1, <1>4 DEF Sound, Lasting
    <3>3. e.left - 1 \in Int /\ e.left - 1 <= Lease - 1 /\ (e.left - 1) + Pending >= 1
      BY <3>1, <2>1, <1>2, MarginFacts DEF Covered
    <3>4. Backed(c, e.left - 1)' /\ leased'[c].addr = leased[c].addr
      BY <3>2, <3>3, <1>3 DEF Secure
    <3> QED BY <3>2, <3>4 DEF Secure
  <2> QED BY <2>1, <2>2
<1>5. Lasting(c, client[c])'
  BY <1>4 DEF Lasting, Secure, Backed, Known, Covered, Pending, Todo
<1>6. ASSUME NEW e \in Todo(r), e.what = "Select"
      PROVE  /\ e.left <= Collect /\ Backed(c, e.left + Lease - 1 - Collect)'
             /\ leased'[c].addr = leased[c].addr
  <2>1. e.left <= Collect /\ Backed(c, e.left + Lease - 1 - Collect)
    BY <1>6 DEF Sound, Selecting
  <2>2. /\ e.left + Lease - 1 - Collect \in Int
        /\ e.left + Lease - 1 - Collect <= Lease - 1
        /\ (e.left + Lease - 1 - Collect) + Pending >= 1
    BY <2>1, <1>2, MarginFacts
  <2> QED BY <2>1, <2>2, <1>3
<1>7. Selecting(c, client[c])'
  <2>1. \A e \in Todo(r) : e.what = "Select" =>
          e.left <= Collect /\ Backed(c, e.left + Lease - 1 - Collect)'
    BY <1>6
  <2>2. ASSUME NEW a \in ToSet(r.offers) PROVE a = leased'[c].addr
    <3>1. r.offers # <<>>
      BY DEF ToSet
    <3>2. PICK e \in Todo(r) : e.what = "Select"
      BY <3>1 DEF Sound, Selecting
    <3> QED BY <3>2, <1>6 DEF Sound, Selecting
  <2>3. /\ r.offered \/ r.offers # <<>> => \E e \in Todo(r) : e.what = "Select"
        /\ r.state = "REFRESH_LEASE" => r.offers = <<>>
    BY DEF Sound, Selecting
  <2> QED BY <2>1, <2>2, <2>3 DEF Selecting, Backed, Known, Pending, Todo
<1>8. ASSUME NEW e \in Todo(r), e.what = "NextOffer"
      PROVE  e.left <= NextOffer /\ (Backed(c, e.left + 1)' \/ Outlived(r, e))
  <2>1. e.left <= NextOffer /\ (Backed(c, e.left + 1) \/ Outlived(r, e))
    BY <1>8 DEF Sound, Waiting
  <2>2. /\ e.left + 1 \in Int /\ e.left + 1 <= Lease - 1
        /\ (e.left + 1) + Pending >= 1
    BY <2>1, <1>2, MarginFacts
  <2> QED BY <2>1, <2>2, <1>3
<1>9. Waiting(c, client[c])'
  BY <1>8 DEF Waiting, Outlived, Backed, Known, Pending, Todo
<1> QED BY <1>1, <1>5, <1>7, <1>9 DEF Sound

\* A message on a lease that runs on stays true.
LEMMA SecureStays ==
    ASSUME TypeInv, Margins, NEW c, Stays(c), NEW a
    PROVE  /\ Secure(c, a, 1) => Secure(c, a, 1)'
           /\ Secure(c, a, Lease - 1) => Secure(c, a, Lease - 1)'
<1>1. Pending \in {0, 1}
  BY LeaseOf
<1>2. /\ 1 \in Int /\ 1 <= Lease - 1 /\ 1 + Pending >= 1
      /\ Lease - 1 \in Int /\ Lease - 1 <= Lease - 1 /\ (Lease - 1) + Pending >= 1
  BY <1>1, MarginFacts
<1>3. Backed(c, 1) => Backed(c, 1)' /\ leased'[c].addr = leased[c].addr
  BY <1>2 DEF Stays
<1>4. Backed(c, Lease - 1) => Backed(c, Lease - 1)' /\ leased'[c].addr = leased[c].addr
  BY <1>2 DEF Stays
<1> QED BY <1>3, <1>4 DEF Secure

\* What is on its way to b after an answer.
LEMMA AnswersTo ==
    ASSUME TypeInv, NEW b \in Everyone, Answers(b), NEW d \in Everyone
    PROVE  \A i \in DOMAIN toClient'[d] :
             \/ \E j \in DOMAIN toClient[d] : toClient[d][j] = toClient'[d][i]
             \/ d = b /\ \E m \in Answer : toClient'[d][i] = m /\ Fits(b, m)
<1>1. CASE UNCHANGED toClient
  BY <1>1
<1>2. ASSUME NEW m \in Answer,
             toClient' = [toClient EXCEPT ![b] = Append(@, m)]
      PROVE  \A i \in DOMAIN toClient'[d] :
               \/ \E j \in DOMAIN toClient[d] : toClient[d][j] = toClient'[d][i]
               \/ d = b /\ toClient'[d][i] = m
  <2> DEFINE down == toClient'
             old == toClient[d]
  <2>1. toClient \in [Everyone -> Seq(Answer)]
    BY DEF TypeInv
  <2>2. down = [toClient EXCEPT ![b] = Append(@, m)]
    BY <1>2
  <2> HIDE DEF down
  <2>3. down[b] = Append(toClient[b], m) /\ (d # b => down[d] = toClient[d])
    BY <2>1, <2>2, AppendTo
  <2>4. CASE d # b
    BY <2>3, <2>4 DEF down
  <2>5. CASE d = b
    <3>1. old \in Seq(Answer) /\ down[d] = Append(old, m)
      BY <2>1, <2>3, <2>5
    <3> HIDE DEF old
    <3>2. /\ DOMAIN down[d] = 1..(Len(old) + 1) /\ Len(old) \in Nat
          /\ DOMAIN old = 1..Len(old)
          /\ \A i \in 1..Len(old) : down[d][i] = old[i]
          /\ down[d][Len(old) + 1] = m
      BY <3>1, AppendProperties
    <3>3. \A i \in DOMAIN down[d] :
            (\E j \in DOMAIN old : old[j] = down[d][i]) \/ down[d][i] = m
      BY <3>2
    <3> QED BY <2>5, <3>3 DEF down, old
  <2> QED BY <2>4, <2>5
<1> QED BY <1>1, <1>2 DEF Answers

\* The server took a message of b.
Served(b) ==
    /\ UNCHANGED <<client, timerDue>>
    /\ Grants(b) /\ Answers(b)
    /\ \A d \in Client : FewerOf(toServer'[d], toServer[d])

\* Every acknowledgement is to a request.
LEMMA ServedAck ==
    ASSUME TypeInv, NEW b \in Everyone, Served(b), NEW d \in Client,
           Sent("ACK", toClient'[d])
    PROVE  \/ Sent("ACK", toClient[d])
           \/ Sent("REQ", toServer[d]) /\ Secure(d, client[d].req, Lease - 1)'
<1>1. d \in Everyone
  BY DEF Everyone
<1>2. PICK i \in DOMAIN toClient'[d] : toClient'[d][i].type = "ACK"
  BY DEF Sent
<1>3. \/ \E j \in DOMAIN toClient[d] : toClient[d][j] = toClient'[d][i]
      \/ d = b /\ \E m \in Answer : toClient'[d][i] = m /\ Fits(b, m)
  BY <1>1, AnswersTo DEF Served
<1> QED BY <1>2, <1>3 DEF Sent, Fits

LEMMA ServedMessages ==
    ASSUME TypeInv, Margins, Safe, NEW b \in Everyone, Served(b), NEW d \in Client
    PROVE  Messages(d)'
<1>1. d \in Everyone /\ Stays(d)
  BY DEF Everyone, Served, Grants
<1> DEFINE q == client[d].req
<1>2. q' = q
  BY DEF Served
<1>3. \A a : /\ Secure(d, a, 1) => Secure(d, a, 1)'
             /\ Secure(d, a, Lease - 1) => Secure(d, a, Lease - 1)'
  BY <1>1, SecureStays
<1>4. /\ Sent("REQ", toServer[d]) => Secure(d, q, 1)
      /\ Sent("ACK", toClient[d]) => Secure(d, q, Lease - 1)
      /\ \A j \in DOMAIN toClient[d] : toClient[d][j].type = "OFFER" =>
           Secure(d, toClient[d][j].addr, Lease - 1)
  BY DEF Safe, Messages
<1>5. Sent("REQ", toServer'[d]) => Secure(d, client[d].req, 1)'
  <2> SUFFICES ASSUME Sent("REQ", toServer'[d])
               PROVE  Secure(d, client[d].req, 1)'
    OBVIOUS
  <2>1. Secure(d, q, 1)
    BY <1>4, FewerSent DEF Served
  <2> QED BY <2>1, <1>2, <1>3 DEF Secure, Backed, Known, Pending
<1>6. Sent("ACK", toClient'[d]) => Secure(d, client[d].req, Lease - 1)'
  <2> SUFFICES ASSUME Sent("ACK", toClient'[d])
               PROVE  Secure(d, client[d].req, Lease - 1)'
    OBVIOUS
  <2>1. CASE Secure(d, client[d].req, Lease - 1)'
    BY <2>1
  <2>2. CASE Sent("ACK", toClient[d])
    <3>1. Secure(d, q, Lease - 1)
      BY <2>2, <1>4
    <3> QED BY <3>1, <1>2, <1>3 DEF Secure, Backed, Known, Pending
  <2> QED BY <2>1, <2>2, ServedAck
<1>7. ASSUME NEW i \in DOMAIN toClient'[d], toClient'[d][i].type = "OFFER",
             NEW a, a = toClient'[d][i].addr
      PROVE  Secure(d, a, Lease - 1)'
  <2>1. \/ \E j \in DOMAIN toClient[d] : toClient[d][j] = toClient'[d][i]
        \/ d = b /\ \E m \in Answer : toClient'[d][i] = m /\ Fits(b, m)
    BY <1>1, AnswersTo DEF Served
  <2>2. CASE \E j \in DOMAIN toClient[d] : toClient[d][j] = toClient'[d][i]
    BY <1>3, <1>4, <1>7, <2>2
  <2>3. CASE d = b /\ \E m \in Answer : toClient'[d][i] = m /\ Fits(b, m)
    BY <1>7, <2>3 DEF Fits
  <2> QED BY <2>1, <2>2, <2>3
<1>8. \A i \in DOMAIN toClient'[d] : toClient'[d][i].type = "OFFER" =>
        \A a : a = toClient'[d][i].addr => Secure(d, a, Lease - 1)'
  BY <1>7
<1> HIDE DEF q
<1> QED BY <1>5, <1>6, <1>8 DEF Messages, Secure, Backed, Known, Pending, Sent

\* A client that has just got an address has not asked for it.
LEMMA NewlyKnown ==
    ASSUME TypeInv, Safe, NEW d \in Client, ~Known(d)
    PROVE  /\ ~Sent("REQ", toServer[d]) /\ ~Sent("ACK", toClient[d])
           /\ \A n : Patient(client[d], n)
BY DEF Safe, Messages, Secure, Backed, Sound, Selecting, Waiting, Patient

LEMMA ServedApart ==
    ASSUME TypeInv, Margins, Safe, NEW b \in Everyone, Served(b),
           NEW x \in Client, NEW d \in Client
    PROVE  Apart(x, d)'
<1>1. /\ client' = client /\ Pending' = Pending
      /\ FewerOf(toServer'[d], toServer[d])
  BY DEF Served, Pending
<1>2. \A e : Covered(e)' <=> Covered(e)
  BY <1>1 DEF Covered
<1>3. ASSUME NEW e \in Todo(client[x]), e.what = "Timeout", ~Covered(e), x # d,
             d \in DOMAIN leased', leased'[d].addr = client[x].iface
      PROVE  /\ ~Sent("REQ", toServer'[d]) /\ ~Sent("ACK", toClient'[d])
             /\ Patient(client[d], e.left)
  <2>1. /\ ~Sent("REQ", toServer[d]) /\ ~Sent("ACK", toClient[d])
        /\ Patient(client[d], e.left)
    <3>1. CASE Known(d)
      <4>1. leased[d].addr = client[x].iface
        BY <1>3, <3>1 DEF Served, Grants
      <4> QED BY <1>3, <3>1, <4>1 DEF Safe, Apart
    <3>2. CASE ~Known(d)
      BY <3>2, NewlyKnown
    <3> QED BY <3>1, <3>2
  <2> QED BY <1>1, <2>1, FewerSent, ServedAck
<1> QED BY <1>1, <1>2, <1>3 DEF Apart, Covered, Known, Patient, Outlived, Todo, Sent

LEMMA ServedSafe ==
    ASSUME TypeInv, Margins, Safe, NEW b \in Everyone, Served(b)
    PROVE  Safe'
<1>1. ASSUME NEW d \in Client PROVE Sound(d, client[d])'
  <2> DEFINE r == client[d]
  <2>1. r \in Record /\ Sound(d, r) /\ Stays(d)
    BY DEF TypeInv, Safe, Served, Grants
  <2>2. client'[d] = r
    BY DEF Served
  <2>3. \A e \in Todo(r) : Covered(e)' => Covered(e)
    BY DEF Served, Covered, Pending
  <2> HIDE DEF r
  <2> QED BY <2>1, <2>2, <2>3, SoundStays
<1>2. Listed' /\ OneHolder'
  BY DEF Safe, Served, Grants, OneHolder, Holds
<1> QED BY <1>1, <1>2, ServedMessages, ServedApart DEF Safe

LEMMA ServerReceivesSafe ==
    ASSUME TypeInv, Margins, Safe, NEW b \in Everyone, ServerReceives(b),
           UNCHANGED <<client, timerDue>>
    PROVE  Safe'
<1>1. Grants(b) /\ Answers(b)
  BY ServerReceivesAnswers
<1>2. /\ toServer \in [Everyone -> Seq(Message)] /\ toServer[b] # <<>>
      /\ toServer' = [toServer EXCEPT ![b] = Tail(@)]
  BY DEF TypeInv, ServerReceives
<1>3. toServer'[b] = Tail(toServer[b]) /\ \A d \in Everyone : d # b => toServer'[d] = toServer[d]
  BY <1>2, TailOf
<1>4. \A d \in Client : FewerOf(toServer'[d], toServer[d])
  BY <1>2, <1>3, FewerTail, FewerSame DEF Everyone
<1> QED BY <1>1, <1>4, ServedSafe DEF Served

LEMMA TimerListed ==
    ASSUME TypeInv, Listed, NEW order, Timed(order)
    PROVE  Listed'
<1>1. /\ order \in Seq(Everyone) /\ expired \in Seq(Everyone)
      /\ expired' = order \o expired
      /\ \A i \in DOMAIN order : order[i] \in Ending
      /\ ToSet(order) = Ending
  <2>1. Ending \in SUBSET Everyone
    BY DEF Ending, Running, TypeInv
  <2> QED BY <2>1 DEF Timed, TypeInv
<1>2. DOMAIN leased' = DOMAIN leased
      /\ \A c \in Ending : c \in DOMAIN leased /\ leased[c].left = 1 /\ leased'[c].left = 0
  BY Constants DEF Timed, Ending, Running
<1>3. \A c \in RanOut : c \in DOMAIN leased /\ leased[c].left = 0 /\ leased'[c].left = 0
  BY DEF Timed, RanOut
<1>4. ToSet(expired') \cap Client \subseteq RanOut'
  <2>1. ToSet(expired') = ToSet(order) \cup ToSet(expired)
    BY <1>1, SetConcat
  <2>2. Ending \subseteq RanOut' /\ RanOut \subseteq RanOut'
    BY <1>2, <1>3 DEF RanOut
  <2> QED BY <2>1, <2>2, <1>1 DEF Listed
<1>5. ASSUME NEW i \in DOMAIN expired', NEW j \in DOMAIN expired',
             expired'[i] = expired'[j], expired'[i] \in Client
      PROVE  i = j
  <2>1. Len(order) \in Nat
    BY <1>1
  <2>2. \A k \in DOMAIN expired' :
           \/ k \in DOMAIN order /\ expired'[k] = order[k]
           \/ /\ k \in Int /\ k - Len(order) \in DOMAIN expired
              /\ expired'[k] = expired[k - Len(order)]
    BY <1>1, SetConcat
  <2>3. \A k \in DOMAIN expired : expired[k] \in Client => expired[k] \in RanOut
    BY <1>1, SetMembers DEF Listed
  <2>4. CASE i \in DOMAIN order /\ expired'[i] = order[i]
    <3>1. expired'[i] \in Ending
      BY <1>1, <2>4
    <3>2. expired'[j] \notin RanOut
      BY <3>1, <1>2, <1>3, <1>5
    <3>3. j \in DOMAIN order /\ expired'[j] = order[j]
      BY <2>2, <2>3, <3>2, <1>5
    <3> QED BY <1>5, <2>4, <3>3 DEF Timed
  <2>5. CASE /\ i \in Int /\ i - Len(order) \in DOMAIN expired
             /\ expired'[i] = expired[i - Len(order)]
    <3>1. expired'[i] \in RanOut
      BY <2>3, <2>5, <1>5
    <3>2. \A k \in DOMAIN order : order[k] # expired'[j]
      BY <3>1, <1>1, <1>2, <1>3, <1>5
    <3>3. /\ j \in Int /\ j - Len(order) \in DOMAIN expired
          /\ expired'[j] = expired[j - Len(order)]
      BY <2>2, <3>2
    <3>4. i - Len(order) = j - Len(order)
      BY <1>5, <2>5, <3>3 DEF Listed
    <3> QED BY <3>3, <3>4, <2>1, <2>5
  <2> QED BY <2>2, <2>4, <2>5
<1> QED BY <1>4, <1>5 DEF Listed

LEMMA TimerStays ==
    ASSUME TypeInv, timerDue, ~timerDue', NEW order, Timed(order), NEW d
    PROVE  Stays(d)
<1> SUFFICES ASSUME NEW n \in Int, n + Pending >= 1, Backed(d, n)
             PROVE  Backed(d, n)' /\ leased'[d].addr = leased[d].addr
  BY DEF Stays
<1>1. Pending = 1 /\ Pending' = 0
  BY DEF Pending
<1>2. /\ d \in DOMAIN leased /\ leased[d].left \in Nat /\ leased[d].left >= n + 1
      /\ n + 1 >= 1
  BY <1>1, LeaseOf DEF Backed, Known
<1>3. /\ d \in DOMAIN leased' /\ leased'[d].addr = leased[d].addr
      /\ leased'[d].left = IF leased[d].left \in {0, Infinite}
                           THEN leased[d].left ELSE leased[d].left - 1
  BY <1>2 DEF Timed
<1>4. leased'[d].left >= n
  BY <1>2, <1>3, Constants
<1> QED BY <1>1, <1>3, <1>4 DEF Backed, Known

LEMMA TimerSafe ==
    ASSUME TypeInv, Margins, Pooled, Safe, ServerTimer
    PROVE  Safe'
<1>1. PICK order : Timed(order)
  BY TimerEffect, TypeParts DEF ServerTimer
<1>2. /\ timerDue /\ ~timerDue' /\ client' = client
      /\ toServer' = toServer /\ toClient' = toClient
  BY DEF ServerTimer, TimerHandler
<1>3. \A d \in Client : Stays(d)
  BY <1>1, <1>2, TimerStays
<1>4. \A e : Covered(e) <=> e.left + 1 >= 2
  BY <1>2 DEF Covered, Pending
<1>5. ASSUME NEW d \in Client PROVE Sound(d, client[d])'
  <2> DEFINE r == client[d]
  <2>1. r \in Record /\ Sound(d, r) /\ Stays(d) /\ client'[d] = r
    BY <1>2, <1>3 DEF TypeInv, Safe
  <2>2. \A e \in Todo(r) : Covered(e)' => Covered(e)
    <3>1. \A e \in Todo(r) : e.left \in Nat
      BY <2>1, TodoType
    <3> QED BY <3>1, <1>2 DEF Covered, Pending
  <2> HIDE DEF r
  <2> QED BY <2>1, <2>2, SoundStays
<1>6. ASSUME NEW d \in Client PROVE Messages(d)'
  <2>1. \A a : /\ Secure(d, a, 1) => Secure(d, a, 1)'
               /\ Secure(d, a, Lease - 1) => Secure(d, a, Lease - 1)'
    BY <1>3, SecureStays
  <2>2. MessagesNow(d, client[d], toServer[d], toClient[d])
    BY DEF Safe, Messages, MessagesNow
  <2>3. \A q : (q = client[d].req /\ Sent("REQ", toServer[d]) => Secure(d, q, 1)')
    BY <2>1, <2>2 DEF MessagesNow
  <2>4. \A q : (q = client[d].req /\ Sent("ACK", toClient[d]) => Secure(d, q, Lease - 1)')
    BY <2>1, <2>2 DEF MessagesNow
  <2>5. \A i \in DOMAIN toClient[d] : toClient[d][i].type = "OFFER" =>
          \A a : a = toClient[d][i].addr => Secure(d, a, Lease - 1)'
    BY <2>1, <2>2 DEF MessagesNow
  <2> QED BY <1>2, <2>3, <2>4, <2>5 DEF Messages, Secure, Backed, Known, Pending, Sent
<1>7. ASSUME NEW x \in Client, NEW d \in Client PROVE Apart(x, d)'
  <2>1. ASSUME NEW e \in Todo(client[x]), e.what = "Timeout", x # d,
               d \in DOMAIN leased', leased'[d].addr = client[x].iface
        PROVE  /\ ~Sent("REQ", toServer[d]) /\ ~Sent("ACK", toClient[d])
               /\ Patient(client[d], e.left)
    <3>1. Known(d) /\ leased[d].addr = client[x].iface
      BY <1>1, <2>1 DEF Timed, Known
    <3>2. ~Covered(e)
      <4>1. Covered(e) => Known(x) /\ leased[x].addr = client[x].iface
        BY <2>1 DEF Safe, Sound, Lasting, Secure, Backed
      <4> QED BY <4>1, <3>1, <2>1 DEF Pooled, Known
    <3> QED BY <2>1, <3>1, <3>2 DEF Safe, Apart
  <2> QED BY <2>1, <1>2 DEF Apart, Known, Patient, Outlived, Todo, Sent
<1>8. Listed'
  BY <1>1, TimerListed DEF Safe
<1>9. OneHolder'
  BY <1>2 DEF Safe, OneHolder, Holds
<1> QED BY <1>5, <1>6, <1>7, <1>8, <1>9 DEF Safe
-----------------------------------------------------------------------------
(* The clock keeps the invariant. *)

\* s is r a second later.
Ticked(r, s) == SameFields(r, s) /\ s \in Record /\ Earlier(r.events, s.events)

Before(e, f) == f.what = e.what /\ f.known = e.known /\ f.left = e.left - 1

LEMMA TickRecord ==
    ASSUME TypeInv, Tick, NEW c \in Client
    PROVE  Ticked(client[c], client'[c])
<1>1. client'[c] = [client[c] EXCEPT !.events = [i \in DOMAIN @ |-> Sooner(@[i])]]
  BY DEF Tick
<1>2. client[c] \in Record /\ \A e \in ToSet(client[c].events) : e.left # 0
  BY DEF TypeInv, Tick, Quiet, Due, ToSet
<1> DEFINE r == client[c]
           s == client'[c]
<1>3. r \in Record /\ \A e \in ToSet(r.events) : e.left # 0
  BY <1>2
<1>4. s = [r EXCEPT !.events = [i \in DOMAIN @ |-> Sooner(@[i])]]
  BY <1>1
<1> HIDE DEF r, s
<1>5. /\ s \in Record /\ Earlier(r.events, s.events)
      /\ s.running = r.running /\ s.stopped = r.stopped
      /\ s.state = r.state /\ s.offered = r.offered /\ s.offers = r.offers
      /\ s.my = r.my /\ s.req = r.req /\ s.iface = r.iface
  BY <1>3, <1>4, TickEvents
<1>6. Ticked(r, s)
  BY <1>5 DEF Ticked, SameFields
<1> QED BY <1>6 DEF r, s

LEMMA EmptyDomain ==
    ASSUME NEW S, NEW seq \in Seq(S), DOMAIN seq = {}
    PROVE  seq = <<>>
<1>1. Len(seq) \in Nat /\ DOMAIN seq = 1..Len(seq)
  OBVIOUS
<1>2. Len(seq) = 0
  <2>1. 1 \notin 1..Len(seq)
    BY <1>1
  <2> QED BY <1>1, <2>1
<1> QED BY <1>2, EmptySeq

LEMMA TickTodo ==
    ASSUME NEW r \in Record, NEW s, Ticked(r, s)
    PROVE  /\ \A f \in Todo(s) : \E e \in Todo(r) : Before(e, f)
           /\ \A e \in Todo(r) : \E f \in Todo(s) : Before(e, f)
           /\ AtMostOne(r.events, "Rebind") => AtMostOne(s.events, "Rebind")
           /\ r.events = <<>> => s.events = <<>>
<1>1. /\ DOMAIN s.events = DOMAIN r.events /\ s.events \in Seq(Event)
      /\ \A i \in DOMAIN r.events : Before(r.events[i], s.events[i])
  BY DEF Ticked, Earlier, Before
<1>2. \A f \in Todo(s) : \E e \in Todo(r) : Before(e, f)
  BY <1>1 DEF Todo, ToSet
<1>3. \A e \in Todo(r) : \E f \in Todo(s) : Before(e, f)
  BY <1>1 DEF Todo, ToSet
<1>4. AtMostOne(r.events, "Rebind") => AtMostOne(s.events, "Rebind")
  BY <1>1 DEF AtMostOne, Before
<1>5. r.events = <<>> => s.events = <<>>
  <2> SUFFICES ASSUME r.events = <<>> PROVE s.events = <<>>
    OBVIOUS
  <2>1. DOMAIN s.events = {}
    BY <1>1
  <2> QED BY <1>1, <2>1, EmptyDomain
<1> QED BY <1>2, <1>3, <1>4, <1>5

\* A lease has a second less to run when the timer is due again.
LEMMA TickBacked ==
    ASSUME TypeInv, Tick, NEW c, NEW n \in Int, Backed(c, n)
    PROVE  Backed(c, n - 1)' /\ leased'[c].addr = leased[c].addr
<1>1. Pending = 0 /\ Pending' = 1 /\ leased' = leased
  BY DEF Tick, Quiet, Pending, server
<1>2. Known(c) /\ leased[c].left \in Nat
  BY LeaseOf DEF Backed
<1> QED BY <1>1, <1>2 DEF Backed, Known

LEMMA TickSound ==
    ASSUME TypeInv, Margins, Safe, Tick, NEW c \in Client
    PROVE  Sound(c, client[c])'
<1> DEFINE r == client[c]
           s == client'[c]
<1>1. r \in Record /\ Sound(c, r) /\ Ticked(r, s)
  BY TickRecord DEF TypeInv, Safe
<1>2. Pending = 0 /\ Pending' = 1 /\ leased' = leased
  BY DEF Tick, Quiet, Pending, server
<1> HIDE DEF r, s
<1>3. s \in Record /\ SameFields(r, s)
  BY <1>1 DEF Ticked
<1>4. /\ \A f \in Todo(s) : \E e \in Todo(r) : Before(e, f)
      /\ \A e \in Todo(r) : \E f \in Todo(s) : Before(e, f)
      /\ AtMostOne(r.events, "Rebind") => AtMostOne(s.events, "Rebind")
      /\ r.events = <<>> => s.events = <<>>
  BY <1>1, TickTodo
<1>5. /\ \A e \in Todo(r) : e.left \in Nat
      /\ \A f \in Todo(s) : f.left \in Nat
  BY <1>1, <1>3, TodoType
<1>6. Holding(s)
  BY <1>1, <1>3, <1>4 DEF Sound, Holding, SameFields, Before
<1>7. Leasing(s)
  BY <1>1, <1>3, <1>4 DEF Sound, Leasing, SameFields, Before
<1>8. Aligned(s)
  <2> SUFFICES ASSUME NEW e \in Todo(s), NEW f \in Todo(s), e.what = "Timeout"
               PROVE  /\ f.what = "Renew" => e.left = f.left + Lease - Renew
                      /\ f.what = "Rebind" => e.left = f.left + Lease - Rebind
    BY <1>1, <1>4 DEF Sound, Aligned
  <2>1. PICK g \in Todo(r) : Before(g, e)
    BY <1>4
  <2>2. PICK h \in Todo(r) : Before(h, f)
    BY <1>4
  <2>3. /\ h.what = "Renew" => g.left = h.left + Lease - Renew
        /\ h.what = "Rebind" => g.left = h.left + Lease - Rebind
    BY <1>1, <2>1 DEF Sound, Aligned, Before
  <2> QED BY <2>1, <2>2, <2>3, <1>5, MarginFacts DEF Before
<1>9. Resting(s)
  BY <1>1, <1>3, <1>4 DEF Sound, Resting, SameFields
<1>10. ASSUME NEW f \in Todo(s), f.what = "Timeout"
       PROVE  /\ f.left <= Lease
              /\ f.left + 1 >= 2 => /\ Backed(c, f.left - 1)'
                                    /\ leased[c].addr = s.iface /\ s.req = s.iface
  <2>1. PICK e \in Todo(r) : Before(e, f)
    BY <1>4
  <2>2. /\ e.left <= Lease
        /\ Covered(e) => Secure(c, r.iface, e.left - 1) /\ r.req = r.iface
    BY <1>1, <1>10, <2>1 DEF Sound, Lasting, Before
  <2>3. e.left \in Nat /\ f.left = e.left - 1
    BY <1>5, <2>1 DEF Before
  <2>4. f.left + 1 >= 2 => Covered(e)
    BY <1>2, <2>3 DEF Covered
  <2>5. Backed(c, e.left - 1) => Backed(c, f.left - 1)'
    <3>1. Backed(c, e.left - 1) => Backed(c, (e.left - 1) - 1)'
      BY <2>3, TickBacked
    <3> QED BY <2>3, <3>1 DEF Backed
  <2>6. s.iface = r.iface /\ s.req = r.req
    BY <1>3 DEF SameFields
  <2> QED BY <2>2, <2>3, <2>4, <2>5, <2>6, MarginFacts DEF Secure
<1>11. ASSUME NEW f \in Todo(s), f.what = "Select"
       PROVE  f.left <= Collect /\ Backed(c, f.left + Lease - 1 - Collect)'
  <2>1. PICK e \in Todo(r) : Before(e, f)
    BY <1>4
  <2>2. e.left <= Collect /\ Backed(c, e.left + Lease - 1 - Collect)
    BY <1>1, <1>11, <2>1 DEF Sound, Selecting, Before
  <2>3. e.left \in Nat /\ f.left = e.left - 1
    BY <1>5, <2>1 DEF Before
  <2>4. Backed(c, (e.left + Lease - 1 - Collect) - 1)'
    BY <2>2, <2>3, MarginFacts, TickBacked
  <2>5. (e.left + Lease - 1 - Collect) - 1 = f.left + Lease - 1 - Collect
    BY <2>3, MarginFacts
  <2> QED BY <2>2, <2>3, <2>4, <2>5, MarginFacts DEF Backed
<1>12. ASSUME NEW f \in Todo(s), f.what = "NextOffer"
       PROVE  f.left <= NextOffer /\ (Backed(c, f.left + 1)' \/ Outlived(s, f))
  <2>1. PICK e \in Todo(r) : Before(e, f)
    BY <1>4
  <2>2. e.left <= NextOffer /\ (Backed(c, e.left + 1) \/ Outlived(r, e))
    BY <1>1, <1>12, <2>1 DEF Sound, Waiting, Before
  <2>3. e.left \in Nat /\ f.left = e.left - 1
    BY <1>5, <2>1 DEF Before
  <2>4. Backed(c, e.left + 1) => Backed(c, f.left + 1)'
    <3>1. Backed(c, e.left + 1) => Backed(c, (e.left + 1) - 1)'
      BY <2>3, TickBacked
    <3> QED BY <2>3, <3>1 DEF Backed
  <2>5. Outlived(r, e) => Outlived(s, f)
    <3> SUFFICES ASSUME Outlived(r, e) PROVE Outlived(s, f)
      OBVIOUS
    <3>1. f.known /\ s.iface # NoAddress
      BY <2>1, <1>3 DEF Outlived, Before, SameFields
    <3>2. \A g \in Todo(s) : g.what \notin {"Renew", "Rebind"}
      BY <1>4 DEF Outlived, Before
    <3>3. \A g \in Todo(s) : g.what = "Timeout" => g.left < f.left
      BY <1>4, <1>5, <2>3 DEF Outlived, Before
    <3> QED BY <3>1, <3>2, <3>3 DEF Outlived
  <2> QED BY <2>2, <2>3, <2>4, <2>5, MarginFacts
<1>13. /\ s.offered \/ s.offers # <<>> => \E f \in Todo(s) : f.what = "Select"
       /\ \A a \in ToSet(s.offers) : a = leased[c].addr
       /\ s.state = "REFRESH_LEASE" => s.offers = <<>>
  BY <1>1, <1>3, <1>4 DEF Sound, Selecting, SameFields, Before
<1>14. s = client'[c]
  BY DEF s
<1>15. Lasting(c, client[c])'
  BY <1>2, <1>10, <1>14 DEF Lasting, Covered, Secure, Backed, Known, Pending, Todo
<1>16. Selecting(c, client[c])'
  BY <1>2, <1>11, <1>13, <1>14 DEF Selecting, Backed, Known, Pending, Todo
<1>17. Waiting(c, client[c])'
  BY <1>2, <1>12, <1>14 DEF Waiting, Outlived, Backed, Known, Pending, Todo
<1>18. /\ Holding(client[c])' /\ Leasing(client[c])' /\ Aligned(client[c])'
       /\ Resting(client[c])'
  BY <1>6, <1>7, <1>8, <1>9, <1>14 DEF Holding, Leasing, Aligned, Resting, Todo
<1> QED BY <1>15, <1>16, <1>17, <1>18 DEF Sound

\* A second later a client asks no sooner.
LEMMA TickPatient ==
    ASSUME NEW r \in Record, NEW s, Ticked(r, s), NEW n \in Nat, Patient(r, n)
    PROVE  Patient(s, n - 1)
<1>1. /\ \A f \in Todo(s) : \E e \in Todo(r) : Before(e, f)
      /\ s.iface = r.iface /\ s \in Record
  BY TickTodo DEF Ticked, SameFields
<1>2. /\ \A e \in Todo(r) : e.left \in Nat
      /\ \A f \in Todo(s) : f.left \in Nat
  BY <1>1, TodoType
<1> SUFFICES ASSUME NEW f \in Todo(s)
             PROVE  /\ f.what = "Select" => f.left > n - 1
                    /\ f.what = "NextOffer" => Outlived(s, f)
  BY DEF Patient
<1>3. PICK e \in Todo(r) : Before(e, f)
  BY <1>1
<1>4. f.what = "Select" => f.left > n - 1
  <2>1. e.left \in Nat /\ f.left = e.left - 1
    BY <1>2, <1>3 DEF Before
  <2>2. f.what = "Select" => e.left > n
    BY <1>3 DEF Patient, Before
  <2> QED BY <2>1, <2>2
<1>5. ASSUME f.what = "NextOffer" PROVE Outlived(s, f)
  <2>1. Outlived(r, e)
    BY <1>3, <1>5 DEF Patient, Before
  <2>2. f.known /\ s.iface # NoAddress
    BY <1>1, <1>3, <2>1 DEF Outlived, Before
  <2>3. \A g \in Todo(s) : g.what \notin {"Renew", "Rebind"}
    BY <1>1, <2>1 DEF Outlived, Before
  <2>4. \A g \in Todo(s) : g.what = "Timeout" => g.left < f.left
    BY <1>1, <1>2, <1>3, <2>1 DEF Outlived, Before
  <2> QED BY <2>2, <2>3, <2>4 DEF Outlived
<1> QED BY <1>4, <1>5

LEMMA TickSafe ==
    ASSUME TypeInv, Margins, Safe, Tick
    PROVE  Safe'
<1>1. /\ Pending = 0 /\ Pending' = 1 /\ leased' = leased
      /\ toServer' = toServer /\ toClient' = toClient
  BY DEF Tick, Quiet, Pending, server
<1>2. \A d \in Client : toServer[d] = <<>> /\ toClient[d] = <<>>
  BY DEF Tick, Quiet
<1>3. \A d \in Client : \A type : ~Sent(type, toServer[d]) /\ ~Sent(type, toClient[d])
  BY <1>2, SentOne
<1>4. \A d \in Client : Sound(d, client[d])'
  BY TickSound
<1>5. ASSUME NEW d \in Client PROVE Messages(d)'
  <2>1. toClient'[d] = <<>> /\ toServer'[d] = <<>>
    BY <1>1, <1>2
  <2>2. DOMAIN toClient'[d] = {} /\ DOMAIN toServer'[d] = {}
    BY <2>1
  <2> QED BY <2>2 DEF Messages, Sent
<1>6. ASSUME NEW x \in Client, NEW d \in Client PROVE Apart(x, d)'
  <2>1. /\ client[x] \in Record /\ Ticked(client[x], client'[x])
        /\ client[d] \in Record /\ Ticked(client[d], client'[d])
    BY TickRecord DEF TypeInv
  <2>2. ASSUME NEW f \in Todo(client'[x]), f.what = "Timeout", ~(f.left + 1 >= 2),
               x # d, Known(d), leased[d].addr = client'[x].iface
        PROVE  Patient(client'[d], f.left)
    <3>1. PICK e \in Todo(client[x]) : Before(e, f)
      BY <2>1, TickTodo
    <3>2. e.left \in Nat /\ f.left = e.left - 1 /\ e.what = "Timeout"
      BY <2>1, <2>2, <3>1, TodoType DEF Before
    <3>3. ~Covered(e)
      BY <1>1, <2>2, <3>2 DEF Covered
    <3>4. client'[x].iface = client[x].iface
      BY <2>1 DEF Ticked, SameFields
    <3>5. Patient(client[d], e.left)
      BY <2>2, <3>2, <3>3, <3>4 DEF Safe, Apart
    <3>6. Patient(client'[d], e.left - 1)
      BY <2>1, <3>2, <3>5, TickPatient
    <3> QED BY <3>2, <3>6
  <2> QED BY <2>2, <1>1, <1>3
          DEF Apart, Covered, Pending, Known, Patient, Outlived, Todo, Sent
<1>7. Listed'
  BY ListedSame DEF Safe, Tick
<1>8. OneHolder'
  <2>1. \A d \in Client : client'[d].iface = client[d].iface
    BY TickRecord DEF Ticked, SameFields
  <2> QED BY <2>1 DEF Safe, OneHolder, Holds
<1> QED BY <1>4, <1>5, <1>6, <1>7, <1>8 DEF Safe
-----------------------------------------------------------------------------
(* The invariant, and what follows from it. *)

LEMMA LoseSafe ==
    ASSUME TypeInv, Safe, NEW b \in Everyone, LoseOne(b)
    PROVE  Safe'
<1>1. /\ toServer \in [Everyone -> Seq(Message)]
      /\ toClient \in [Everyone -> Seq(Answer)]
      /\ Client \subseteq Everyone
  BY DEF TypeInv, Everyone
<1>2. UNCHANGED <<server, client, timerDue>>
  BY DEF LoseOne
<1>3. CASE /\ toServer[b] # <<>> /\ UNCHANGED toClient
           /\ toServer' = [toServer EXCEPT ![b] = Tail(@)]
  <2>1. toServer'[b] = Tail(toServer[b])
        /\ \A d \in Everyone : d # b => toServer'[d] = toServer[d]
    BY <1>1, <1>3, TailOf
  <2>2. \A d \in Client : FewerOf(toServer'[d], toServer[d])
    BY <1>1, <1>3, <2>1, FewerTail, FewerSame
  <2> QED BY <1>2, <1>3, <2>2, FewerSame, FewerSafe
<1>4. CASE /\ toClient[b] # <<>> /\ UNCHANGED toServer
           /\ toClient' = [toClient EXCEPT ![b] = Tail(@)]
  <2>1. toClient'[b] = Tail(toClient[b])
        /\ \A d \in Everyone : d # b => toClient'[d] = toClient[d]
    BY <1>1, <1>4, TailOf
  <2>2. \A d \in Client : FewerOf(toClient'[d], toClient[d])
    BY <1>1, <1>4, <2>1, FewerTail, FewerSame
  <2> QED BY <1>2, <1>4, <2>2, FewerSame, FewerSafe
<1> QED BY <1>3, <1>4 DEF LoseOne

\* The messages of the others are not on the clients' channels.
LEMMA OtherSafe ==
    ASSUME TypeInv, Safe, NEW b \in Other,
           (OtherReceives(b) /\ Same) \/ OtherSends(b)
    PROVE  Safe'
<1>1. /\ toServer \in [Everyone -> Seq(Message)]
      /\ toClient \in [Everyone -> Seq(Answer)]
      /\ b \in Everyone /\ \A d \in Client : d \in Everyone /\ d # b
  BY ServerAssumption DEF TypeInv, Everyone
<1>2. UNCHANGED <<server, client, timerDue>>
  BY DEF OtherReceives, OtherSends, Same
<1>3. \A d \in Client : toServer'[d] = toServer[d] /\ toClient'[d] = toClient[d]
  BY <1>1 DEF OtherReceives, OtherSends, OtherDiscovers, OtherRequests
<1> QED BY <1>2, <1>3, FewerSame, FewerSafe

LEMMA StepSafe ==
    ASSUME TypeInv, Pooled, Safe, Margins, [Next]_vars
    PROVE  Safe'
<1>1. CASE \E c \in Client : \/ Start(c) \/ Stop(c)
                             \/ ClientReceives(c) /\ Same
                             \/ ClientEvent(c) /\ Same
  BY <1>1, StartSafe, StopSafe, ReceiveSafe, EventSafe DEF Start, Stop, Same
<1>2. CASE \E c \in Other : (OtherReceives(c) /\ Same) \/ OtherSends(c)
  BY <1>2, OtherSafe
<1>3. CASE \E c \in Everyone : ServerReceives(c) /\ UNCHANGED client /\ Same
  BY <1>3, ServerReceivesSafe DEF Same
<1>4. CASE \E c \in Everyone : LoseOne(c)
  BY <1>4, LoseSafe
<1>5. CASE ServerTimer
  BY <1>5, TimerSafe
<1>6. CASE Tick
  BY <1>6, TickSafe
<1>7. CASE UNCHANGED vars
  BY <1>7, FewerSame, FewerSafe DEF vars, server
<1> QED BY <1>1, <1>2, <1>3, <1>4, <1>5, <1>6, <1>7 DEF Next, Everyone

LEMMA InitSafe ==
    ASSUME NoStatic, Init
    PROVE  Safe
<1>1. Listed
  BY InitPooled
<1>2. \A c \in Client : /\ client[c] = NewClient
                        /\ toServer[c] = <<>> /\ toClient[c] = <<>>
  BY DEF Init
<1>3. /\ ~NewClient.running /\ ~NewClient.stopped /\ NewClient.state = "NONE"
      /\ ~NewClient.offered /\ NewClient.offers = <<>>
      /\ NewClient.iface = NoAddress /\ NewClient.events = <<>>
  BY DEF NewClient
<1>4. Todo(NewClient) = {} /\ ToSet(NewClient.offers) = {}
  BY <1>3 DEF Todo, ToSet
<1>5. \A c : Sound(c, NewClient)
  BY <1>3, <1>4 DEF Sound, Holding, Leasing, Lasting, Aligned, Resting, Selecting,
                    Waiting, AtMostOne
<1>6. \A c \in Client : Messages(c)
  BY <1>2 DEF Messages, Sent
<1>7. \A c, d \in Client : Apart(c, d)
  BY <1>2, <1>4 DEF Apart
<1>8. OneHolder
  BY <1>2, <1>3, Constants DEF OneHolder, Holds
<1> QED BY <1>1, <1>2, <1>5, <1>6, <1>7, <1>8 DEF Safe

LEMMA SafeAlways ==
    ASSUME NoStatic, Margins
    PROVE  Spec => [](TypeInv /\ Pooled /\ Safe)
<1>1. Init => TypeInv /\ Pooled /\ Safe
  BY InitTypeInv, InitPooled, InitSafe
<1>2. TypeInv /\ Pooled /\ Safe /\ [Next]_vars => (TypeInv /\ Pooled /\ Safe)'
  BY TypeStep, PooledStep, StepSafe
<1> QED BY <1>1, <1>2, PTL DEF Spec

\* No two clients have the same address on their interfaces: however many there
\* are, whatever messages are lost and in what order, the lease of one ends
\* before the server gives its address to another, if the times fit together.
THEOREM HoldersCorrect ==
    ASSUME NoStatic, Margins
    PROVE  Spec => []OneHolder
<1>1. Safe => OneHolder
  BY DEF Safe
<1> QED BY <1>1, SafeAlways, PTL

\* No address of the pool is lost or leased twice, and a lease is in the list
\* of those to be reused exactly when it ran out.
THEOREM PoolCorrect ==
    ASSUME NoStatic, Margins
    PROVE  Spec => []PoolConserved
<1>1. TypeInv /\ Pooled /\ Safe => PoolConserved
  BY PoolCounted DEF Safe, Pooled, Listed, PoolConserved
<1> QED BY <1>1, SafeAlways, PTL

\* Server and client mean the same lease, and it has not run out.
InTime(c) == /\ Known(c) /\ leased[c].left > 0
             /\ leased[c].addr = client[c].req

\* SendAck acknowledges any request of a known client, and the client takes the
\* address it asked for last.  Both are right: a request of a client of this
\* server never comes after the end of its lease, and what it asked for is what
\* the server keeps for it while the request or the answer is on its way.
THEOREM AnswersInTime ==
    ASSUME NoStatic, Margins
    PROVE  Spec => [](\A c \in Client :
                        Sent("REQ", toServer[c]) \/ Sent("ACK", toClient[c])
                          => InTime(c))
<1> DEFINE Inv == \A c \in Client :
                    Sent("REQ", toServer[c]) \/ Sent("ACK", toClient[c])
                      => InTime(c)
<1>1. TypeInv /\ Safe => Inv
  <2> SUFFICES ASSUME TypeInv, Safe, NEW c \in Client,
                      Sent("REQ", toServer[c]) \/ Sent("ACK", toClient[c])
               PROVE  InTime(c)
    OBVIOUS
  <2>1. Pending \in {0, 1} /\ Lease \in Nat /\ Lease >= 2
    BY MarginFacts DEF Pending
  <2>2. Secure(c, client[c].req, 1) \/ Secure(c, client[c].req, Lease - 1)
    BY DEF Safe, Messages
  <2>3. Known(c) => leased[c].left \in Nat
    BY DEF TypeInv, Known, Entry
  <2> QED BY <2>1, <2>2, <2>3 DEF Secure, Backed, InTime
<1> HIDE DEF Inv
<1>2. Spec => []Inv
  BY <1>1, SafeAlways, PTL
<1> QED BY <1>2 DEF Inv
-----------------------------------------------------------------------------
(* A client whose messages all arrive, from its start to its renewals: the *)
(* calls it has and the one message between it and the server.  up and     *)
(* down are the messages on their way, age is the time since its start and *)
(* has the address in its record at the server.                            *)

\* The Discover or the offer is on its way.
Asking(r, up, down, age, has) ==
    /\ r.state = "WAIT_OFFER" /\ ~r.offered /\ r.offers = <<>> /\ age = 0
    /\ \A e \in Todo(r) : e.what = "Boot" /\ e.known /\ e.left # 0
    /\ \/ up = <<Msg("DISCOVER", NoAddress)>> /\ down = <<>>
       \/ \E a \in has : up = <<>> /\ down = <<Msg("OFFER", a)>>

SelectIn(n) == [what |-> "Select", left |-> n, known |-> FALSE]

\* One offer, and the choice is due when the time to collect is over.
Collecting(r, up, down, age, has) ==
    /\ r.state = "WAIT_OFFER" /\ up = <<>> /\ down = <<>>
    /\ \E a \in has : r.offers = <<a>>
    /\ \E n \in Nat : age + n = Collect /\ Todo(r) = {SelectIn(n)}
    /\ AtMostOne(r.events, "Select")

\* The first request or a renewal, or the answer, is on its way.
Awaiting(r, up, down, has) ==
    /\ r.state = "WAIT_ACK" /\ r.req \in has
    /\ \A e \in Todo(r) : /\ e.what \in {"NextOffer", "Rebind", "Timeout"}
                          /\ e.known /\ e.left # 0
    /\ \/ up = <<Msg("REQ", r.req)>> /\ down = <<>>
       \/ up = <<>> /\ down = <<Msg("ACK", r.req)>>

\* The renewal comes first of the calls of the lease.
Bound(r, up, down, has) ==
    /\ r.state = "REFRESH_LEASE" /\ r.my \in has /\ r.iface = r.my
    /\ up = <<>> /\ down = <<>> /\ AtMostOne(r.events, "Renew")
    /\ \E n \in Nat :
         /\ Call("Renew", n) \in Todo(r)
         /\ \A e \in Todo(r) :
              \/ e = Call("Renew", n)
              \/ e.what \in {"Rebind", "Timeout"} /\ e.known /\ e.left > n

OnCourse(r, up, down, age, has) ==
    /\ r.running /\ ~r.stopped
    /\ \/ Asking(r, up, down, age, has) \/ Collecting(r, up, down, age, has)
       \/ Awaiting(r, up, down, has) \/ Bound(r, up, down, has)
-----------------------------------------------------------------------------
(* The handlers keep the client on its course. *)

LEMMA NoElements ==
    ASSUME NEW S, NEW seq \in Seq(S), ToSet(seq) = {}
    PROVE  seq = <<>>
<1>1. DOMAIN seq = {}
  BY DEF ToSet
<1> QED BY <1>1, EmptyDomain

LEMMA ScheduleAppends ==
    ASSUME NEW ev \in Seq(Event), NEW what, NEW delay,
           \A e \in ToSet(ev) : e.what # what
    PROVE  Schedule(ev, what, delay) = Append(ev, Call(what, delay))
<1>1. \A i \in DOMAIN ev : ev[i].what # what
  BY SetMembers
<1>2. [i \in DOMAIN ev |-> IF ev[i].what = what THEN [ev[i] EXCEPT !.known = FALSE]
                                                ELSE ev[i]] = ev
  BY <1>1
<1> QED BY <1>2 DEF Schedule, Call

\* The calls of a new lease, when all those of the old one are known.
LEMMA LeaseCalls ==
    ASSUME NEW ev \in Seq(Event),
           \A e \in ToSet(ev) : e.what \in OfLease /\ e.known,
           NEW ev2, ev2 = Schedule(Schedule(Schedule(RemoveKnownAll(ev, OfLease),
                             "Renew", Renew), "Rebind", Rebind), "Timeout", Lease)
    PROVE  ToSet(ev2) = Fresh /\ AtMostOne(ev2, "Renew")
<1> DEFINE e0 == RemoveKnownAll(ev, OfLease)
           e1 == Schedule(e0, "Renew", Renew)
           e2 == Schedule(e1, "Rebind", Rebind)
           renew == Call("Renew", Renew)
           rebind == Call("Rebind", Rebind)
           end == Call("Timeout", Lease)
<1>1. Removed(ev, OfLease, e0)
  BY RemoveEvents
<1>2. /\ renew \in Event /\ rebind \in Event /\ end \in Event
      /\ renew.what = "Renew" /\ rebind.what = "Rebind" /\ end.what = "Timeout"
  BY Constants, CallType DEF Kinds
<1>3. Fresh = {renew, rebind, end}
  BY DEF Fresh
<1>4. ev2 = Schedule(e2, "Timeout", Lease)
  OBVIOUS
<1> HIDE DEF e0
<1>5. e0 \in Seq(Event) /\ ToSet(e0) = {}
  BY <1>1 DEF Removed
<1>6. e1 = Append(e0, renew)
  BY <1>5, ScheduleAppends
<1> HIDE DEF e1, renew
<1>7. e1 \in Seq(Event) /\ ToSet(e1) = {renew} /\ AtMostOne(e1, "Renew")
  <2>1. e1 \in Seq(Event) /\ ToSet(e1) = {renew}
    BY <1>2, <1>5, <1>6, SetAppend
  <2>2. e0 = <<>>
    BY <1>5, NoElements
  <2>3. DOMAIN e1 = {1}
    BY <1>2, <1>6, <2>2
  <2> QED BY <2>1, <2>3 DEF AtMostOne
<1>8. e2 = Append(e1, rebind)
  BY <1>2, <1>7, ScheduleAppends
<1>9. Scheduled(e1, rebind, e2)
  BY <1>7, Constants, ScheduleEvents DEF Call, Kinds
<1> HIDE DEF e2, rebind
<1>10. e2 \in Seq(Event) /\ ToSet(e2) = {renew, rebind} /\ AtMostOne(e2, "Renew")
  BY <1>2, <1>7, <1>8, <1>9, SetAppend DEF Scheduled
<1>11. ev2 = Append(e2, end)
  BY <1>2, <1>4, <1>10, ScheduleAppends
<1>12. Scheduled(e2, end, ev2)
  BY <1>4, <1>10, Constants, ScheduleEvents DEF Call, Kinds
<1> HIDE DEF end
<1>13. ToSet(ev2) = {renew, rebind, end} /\ AtMostOne(ev2, "Renew")
  BY <1>2, <1>10, <1>11, <1>12, SetAppend DEF Scheduled
<1> QED BY <1>3, <1>13

\* A client that was not started.
Idle(r) == ~r.running /\ ~r.stopped /\ r.offers = <<>> /\ r.events = <<>>

LEMMA StartCourse ==
    ASSUME NEW r \in Record, Idle(r), NEW has
    PROVE  LET result == StartApplication(r) IN
           OnCourse(result.client, result.send, <<>>, 0, has)
<1> DEFINE result == StartApplication(r)
           s == result.client
           boot == [what |-> "Boot", left |-> Rtrs, known |-> TRUE]
<1>1. r.events = <<>> /\ r.offers = <<>> /\ ~r.stopped
  BY DEF Idle
<1>2. /\ result.send = <<Msg("DISCOVER", NoAddress)>>
      /\ s.running /\ ~s.stopped /\ s.state = "WAIT_OFFER" /\ ~s.offered
      /\ s.offers = <<>> /\ Scheduled(<<>>, boot, s.events)
  BY <1>1, StartType
<1>3. boot.what = "Boot" /\ boot.known /\ boot.left # 0
  BY Constants
<1> HIDE DEF result, s, boot
<1>4. \A e \in Todo(s) : e = boot
  <2>1. ToSet(<<>>) = {}
    BY DEF ToSet
  <2> QED BY <1>2, <2>1 DEF Scheduled, Todo
<1>5. Asking(s, result.send, <<>>, 0, has)
  BY <1>2, <1>3, <1>4 DEF Asking
<1>6. OnCourse(s, result.send, <<>>, 0, has)
  BY <1>2, <1>5 DEF OnCourse
<1> QED BY <1>6 DEF result, s

\* An offer begins the collection.
LEMMA OfferCourse ==
    ASSUME NEW r \in Record, NEW a \in Address, r.offers = <<>>, ~r.offered,
           r.state = "WAIT_OFFER", \A e \in Todo(r) : e.what = "Boot" /\ e.known,
           NEW has, a \in has
    PROVE  Collecting(OfferHandler(r, a).client, <<>>, <<>>, 0, has)
<1> DEFINE s == OfferHandler(r, a).client
           new == SelectIn(Collect)
<1>1. /\ s.state = "WAIT_OFFER" /\ s.offers = <<a>> /\ Gathers(r.events, s.events)
  BY OfferType
<1>2. new \in Event
  BY Constants DEF SelectIn, Event, Kinds
<1> HIDE DEF s
<1>3. PICK mid \in Seq(Event) : /\ Removed(r.events, {"Boot"}, mid)
                                /\ s.events = Append(mid, new)
  BY <1>1 DEF Gathers, SelectIn
<1> HIDE DEF new
<1>4. ToSet(mid) = {}
  BY <1>3 DEF Removed, Todo
<1>5. mid = <<>>
  BY <1>4, NoElements
<1>6. Todo(s) = {new}
  BY <1>2, <1>3, <1>4, SetAppend DEF Todo
<1>7. AtMostOne(s.events, "Select")
  <2>1. DOMAIN s.events = {1}
    BY <1>2, <1>3, <1>5
  <2> QED BY <2>1 DEF AtMostOne
<1>8. Collect \in Nat /\ 0 + Collect = Collect
  BY Constants
<1>9. Collecting(s, <<>>, <<>>, 0, has)
  BY <1>1, <1>6, <1>7, <1>8 DEF Collecting, new
<1> QED BY <1>9 DEF s

\* An acknowledgement begins the lease.
LEMMA AckCourse ==
    ASSUME NEW r \in Record, NEW has, r.req \in has,
           \A e \in Todo(r) : e.what \in OfLease /\ e.known
    PROVE  Bound(AcceptAck(r).client, <<>>, <<>>, has)
<1> DEFINE s == AcceptAck(r).client
           ev2 == Schedule(Schedule(Schedule(RemoveKnownAll(r.events, OfLease),
                             "Renew", Renew), "Rebind", Rebind), "Timeout", Lease)
<1>1. s.events = ev2
  <2>1. s.events = Schedule(Schedule(Schedule(
                     RemoveKnownAll(r.events, {"Rebind", "Renew", "Timeout"}),
                     "Renew", Renew), "Rebind", Rebind), "Timeout", Lease)
    BY DEF AcceptAck, Silent, Record
  <2>2. {"Rebind", "Renew", "Timeout"} = OfLease
    BY DEF OfLease
  <2> QED BY <2>1, <2>2
<1>2. s.state = "REFRESH_LEASE" /\ s.my = r.req /\ s.iface = r.req
  BY AcceptType
<1> HIDE DEF s, ev2
<1>3. ToSet(ev2) = Fresh /\ AtMostOne(ev2, "Renew")
  <2>1. r.events \in Seq(Event) /\ \A e \in ToSet(r.events) : e.what \in OfLease /\ e.known
    BY DEF Record, Todo
  <2> QED BY <2>1, LeaseCalls DEF ev2
<1>4. /\ Todo(s) = Fresh /\ AtMostOne(s.events, "Renew")
  BY <1>1, <1>3 DEF Todo
<1>5. /\ Renew \in Nat /\ Call("Renew", Renew) \in Fresh
      /\ \A e \in Fresh : \/ e = Call("Renew", Renew)
                          \/ /\ e.what \in {"Rebind", "Timeout"} /\ e.known
                             /\ e.left > Renew
  BY Constants DEF Fresh, Call
<1>6. Bound(s, <<>>, <<>>, has)
  BY <1>2, <1>4, <1>5 DEF Bound
<1> QED BY <1>6 DEF s

LEMMA HandleCourse ==
    ASSUME NEW r \in Record, NEW up, NEW down, NEW age, NEW has, has \subseteq Address,
           OnCourse(r, up, down, age, has), down # <<>>
    PROVE  LET result == Handle(r, Head(down)) IN
           /\ OnCourse(result.client, up \o result.send, Tail(down), age, has)
           /\ result.client.running /\ ~result.client.stopped
<1>1. r.running /\ ~r.stopped
  BY DEF OnCourse
<1>2. CASE Asking(r, up, down, age, has)
  <2>1. PICK a \in has : up = <<>> /\ down = <<Msg("OFFER", a)>>
    BY <1>2 DEF Asking
  <2> DEFINE m == Msg("OFFER", a)
  <2>2. Head(down) = m /\ Tail(down) = <<>>
    BY <2>1
  <2>3. m.type = "OFFER" /\ m.addr = a
    BY DEF Msg
  <2> HIDE DEF m
  <2>4. Handle(r, Head(down)) = OfferHandler(r, a)
    BY <1>2, <2>2, <2>3 DEF Handle, Asking
  <2>5. Collecting(OfferHandler(r, a).client, <<>>, <<>>, 0, has) /\ age = 0
    BY <1>2, OfferCourse DEF Asking
  <2>6. /\ OfferHandler(r, a).send = <<>>
        /\ OfferHandler(r, a).client.running /\ ~OfferHandler(r, a).client.stopped
    BY <1>1, OfferType
  <2>7. up \o OfferHandler(r, a).send = <<>>
    BY <2>1, <2>6
  <2> QED BY <2>2, <2>4, <2>5, <2>6, <2>7 DEF OnCourse
<1>3. CASE Awaiting(r, up, down, has)
  <2>1. up = <<>> /\ down = <<Msg("ACK", r.req)>> /\ r.state = "WAIT_ACK"
    BY <1>3 DEF Awaiting
  <2> DEFINE m == Msg("ACK", r.req)
             ev == RemoveKnown(r.events, "NextOffer")
             t == [r EXCEPT !.events = ev]
  <2>2. Head(down) = m /\ Tail(down) = <<>>
    BY <2>1
  <2>3. m.type = "ACK"
    BY DEF Msg
  <2> HIDE DEF m
  <2>4. Handle(r, Head(down)) = AcceptAck(t)
    BY <2>1, <2>2, <2>3 DEF Handle
  <2>5. Removed(r.events, {"NextOffer"}, ev) /\ ev \in Seq(Event)
    BY RemoveOneKind DEF Record, Removed
  <2> HIDE DEF ev
  <2>6. t \in Record /\ t.req = r.req /\ t.events = ev /\ t.running /\ ~t.stopped
    BY <1>1, <2>5, ForgetType
  <2>7. \A e \in Todo(t) : e.what \in OfLease /\ e.known
    BY <1>3, <2>5, <2>6 DEF Awaiting, Removed, Todo, OfLease
  <2>8. t.req \in has
    BY <1>3, <2>6 DEF Awaiting
  <2> HIDE DEF t
  <2>9. Bound(AcceptAck(t).client, <<>>, <<>>, has)
    BY <2>6, <2>7, <2>8, AckCourse
  <2>10. /\ AcceptAck(t).send = <<>>
         /\ AcceptAck(t).client.running /\ ~AcceptAck(t).client.stopped
    BY <2>6, AcceptType
  <2>11. up \o AcceptAck(t).send = <<>>
    BY <2>1, <2>10
  <2> QED BY <2>2, <2>4, <2>9, <2>10, <2>11 DEF OnCourse
<1> QED BY <1>2, <1>3 DEF OnCourse, Collecting, Bound

\* The end of the collection: the one offer is asked for.
LEMMA SelectCourse ==
    ASSUME NEW r \in Record, NEW a \in Address, r.offers = <<a>>,
           r.state = "WAIT_OFFER", Todo(r) = {}, NEW has, a \in has
    PROVE  LET result == Select(r) IN
           /\ Awaiting(result.client, result.send, <<>>, has)
           /\ result.client.running = r.running
           /\ result.client.stopped = r.stopped
<1> DEFINE t == Chosen(r)
           s == Request(t).client
           new == [what |-> "NextOffer", left |-> NextOffer, known |-> TRUE]
<1>1. r.offers # <<>> /\ Head(r.offers) = a
  OBVIOUS
<1>2. /\ Select(r) = Request(t) /\ t \in Record /\ t.state = "WAIT_OFFER"
      /\ t.req = a /\ t.events = r.events
      /\ t.running = r.running /\ t.stopped = r.stopped
  BY <1>1, ChosenType
<1> HIDE DEF t
<1>3. /\ Request(t).send = <<Msg("REQ", a)>>
      /\ s.running = r.running /\ s.stopped = r.stopped
      /\ s.state = "WAIT_ACK" /\ s.req = a
      /\ Scheduled(t.events, new, s.events)
  BY <1>2, AskType
<1>4. new.what = "NextOffer" /\ new.known /\ new.left # 0
  BY Constants
<1> HIDE DEF s, new
<1>5. \A e \in Todo(s) : e = new
  BY <1>2, <1>3 DEF Scheduled, Todo
<1>6. Awaiting(s, <<Msg("REQ", a)>>, <<>>, has)
  BY <1>3, <1>4, <1>5 DEF Awaiting
<1> QED BY <1>2, <1>3, <1>6 DEF s

\* The renewal asks for the client's own address.
LEMMA RenewCourse ==
    ASSUME NEW r \in Record, r.state = "REFRESH_LEASE", NEW has, r.my \in has,
           \A e \in Todo(r) : /\ e.what \in {"Rebind", "Timeout"}
                              /\ e.known /\ e.left # 0
    PROVE  LET result == Request(r) IN
           /\ Awaiting(result.client, result.send, <<>>, has)
           /\ result.client.running = r.running
           /\ result.client.stopped = r.stopped
<1> DEFINE s == Request(r).client
<1>1. /\ Request(r).send = <<Msg("REQ", r.my)>>
      /\ s.running = r.running /\ s.stopped = r.stopped
      /\ s.state = "WAIT_ACK" /\ s.req = r.my /\ s.events = r.events
  BY RefreshType
<1> HIDE DEF s
<1>2. Awaiting(s, <<Msg("REQ", r.my)>>, <<>>, has)
  BY <1>1 DEF Awaiting, Todo
<1> QED BY <1>1, <1>2 DEF s

LEMMA EventCourse ==
    ASSUME NEW r \in Record, NEW up, NEW down, NEW age, NEW has, has \subseteq Address,
           OnCourse(r, up, down, age, has),
           NEW e \in Todo(r), e.left = 0,
           NEW t \in Record, SameFields(r, t), Taken(r.events, e, t.events)
    PROVE  LET result == Fire(t, e.what) IN
           /\ OnCourse(result.client, up \o result.send, down, age, has)
           /\ result.client.running /\ ~result.client.stopped
<1>1. r.running /\ ~r.stopped /\ t.running /\ ~t.stopped
  BY DEF OnCourse, SameFields
<1>2. CASE Collecting(r, up, down, age, has)
  <2>1. PICK a \in has : r.offers = <<a>>
    BY <1>2 DEF Collecting
  <2>2. PICK n \in Nat : Todo(r) = {SelectIn(n)}
    BY <1>2 DEF Collecting
  <2>3. e.what = "Select" /\ \A f \in Todo(r) : f.what = "Select"
    BY <2>2 DEF SelectIn
  <2>4. Todo(t) = {}
    BY <1>2, <2>3 DEF Collecting, Taken, Todo
  <2>5. t.offers = <<a>> /\ t.state = "WAIT_OFFER" /\ a \in Address
    BY <1>2, <2>1 DEF Collecting, SameFields
  <2>6. Fire(t, e.what) = Select(t)
    BY <2>3 DEF Fire
  <2> DEFINE result == Select(t)
  <2>7. /\ Awaiting(result.client, result.send, <<>>, has)
        /\ result.client.running /\ ~result.client.stopped
        /\ result.send \in Seq(Message)
    BY <1>1, <2>4, <2>5, SelectCourse, SelectType DEF ResultType
  <2> HIDE DEF result
  <2>8. up \o result.send = result.send /\ down = <<>>
    BY <1>2, <2>7 DEF Collecting
  <2> QED BY <2>6, <2>7, <2>8 DEF OnCourse, result
<1>3. CASE Bound(r, up, down, has)
  <2>1. PICK n \in Nat : 
             /\ Call("Renew", n) \in Todo(r)
             /\ \A f \in Todo(r) :
                  \/ f = Call("Renew", n)
                  \/ f.what \in {"Rebind", "Timeout"} /\ f.known /\ f.left > n
    BY <1>3 DEF Bound
  <2>2. Call("Renew", n).what = "Renew"
    BY DEF Call
  <2>3. e = Call("Renew", n) /\ e.what = "Renew"
    BY <2>1, <2>2
  <2>4. \A f \in Todo(t) : f \in Todo(r) /\ f.what # "Renew"
    BY <1>3, <2>3 DEF Bound, Taken, Todo
  <2>5. \A f \in Todo(t) : /\ f.what \in {"Rebind", "Timeout"}
                           /\ f.known /\ f.left # 0
    BY <2>1, <2>2, <2>4
  <2>6. t.state = "REFRESH_LEASE" /\ t.my \in has
    BY <1>3 DEF Bound, SameFields
  <2>7. Fire(t, e.what) = Request(t)
    BY <2>3 DEF Fire
  <2> DEFINE result == Request(t)
  <2>8. /\ Awaiting(result.client, result.send, <<>>, has)
        /\ result.client.running /\ ~result.client.stopped
        /\ result.send \in Seq(Message)
    BY <1>1, <2>5, <2>6, RenewCourse, SelectType DEF ResultType
  <2> HIDE DEF result
  <2>9. up \o result.send = result.send /\ down = <<>>
    BY <1>3, <2>8 DEF Bound
  <2> QED BY <2>7, <2>8, <2>9 DEF OnCourse, result
<1> QED BY <1>2, <1>3 DEF OnCourse, Asking, Awaiting

LEMMA DiscoverCourse ==
    ASSUME NEW r, NEW up, NEW down, NEW age, NEW has, NEW a,
           OnCourse(r, up, down, age, has), up # <<>>, Head(up).type = "DISCOVER"
    PROVE  OnCourse(r, Tail(up), Append(down, Msg("OFFER", a)), age, {a})
<1>1. ~Awaiting(r, up, down, has)
  <2> SUFFICES ASSUME up = <<Msg("REQ", r.req)>> PROVE FALSE
    BY DEF Awaiting
  <2>1. Head(up) = Msg("REQ", r.req)
    OBVIOUS
  <2> QED BY <2>1 DEF Msg
<1>2. Asking(r, up, down, age, has)
  BY <1>1 DEF OnCourse, Collecting, Bound
<1> DEFINE d == Msg("DISCOVER", NoAddress)
           o == Msg("OFFER", a)
<1>3. up = <<d>> /\ down = <<>>
  BY <1>2 DEF Asking
<1> HIDE DEF d, o
<1>4. Tail(up) = <<>> /\ Append(down, o) = <<o>>
  BY <1>3
<1>5. Asking(r, <<>>, <<o>>, age, {a})
  BY <1>2 DEF Asking, o
<1> QED BY <1>4, <1>5 DEF OnCourse, o

LEMMA RequestCourse ==
    ASSUME NEW r, NEW up, NEW down, NEW age, NEW has,
           OnCourse(r, up, down, age, has), up # <<>>, Head(up).type = "REQ"
    PROVE  /\ Head(up).addr \in has
           /\ OnCourse(r, Tail(up), Append(down, Msg("ACK", Head(up).addr)), age, has)
<1>1. ~Asking(r, up, down, age, has)
  <2> SUFFICES ASSUME up = <<Msg("DISCOVER", NoAddress)>> PROVE FALSE
    BY DEF Asking
  <2>1. Head(up) = Msg("DISCOVER", NoAddress)
    OBVIOUS
  <2> QED BY <2>1 DEF Msg
<1>2. Awaiting(r, up, down, has)
  BY <1>1 DEF OnCourse, Collecting, Bound
<1> DEFINE q == Msg("REQ", r.req)
           k == Msg("ACK", r.req)
<1>3. up = <<q>> /\ down = <<>> /\ r.req \in has
  BY <1>2 DEF Awaiting
<1>4. q.addr = r.req
  BY DEF Msg
<1> HIDE DEF q, k
<1>5. Tail(up) = <<>> /\ Append(down, k) = <<k>> /\ Head(up) = q
  BY <1>3
<1>6. Awaiting(r, <<>>, <<k>>, has)
  BY <1>2 DEF Awaiting, k
<1> QED BY <1>3, <1>4, <1>5, <1>6 DEF OnCourse, k

LEMMA EventFields ==
    ASSUME NEW f \in Event
    PROVE  /\ f.known => f = Call(f.what, f.left)
           /\ ~f.known /\ f.what = "Select" => f = SelectIn(f.left)
<1>1. f = [what |-> f.what, left |-> f.left, known |-> f.known]
  BY DEF Event
<1>2. f.known \in BOOLEAN
  BY DEF Event
<1>3. (f.known => f.known = TRUE) /\ (~f.known => f.known = FALSE)
  BY <1>2
<1> QED BY <1>1, <1>3, Zenon DEF Call, SelectIn

LEMMA TickCourse ==
    ASSUME NEW r \in Record, NEW up, NEW down, NEW age \in Int, NEW has,
           OnCourse(r, up, down, age, has), up = <<>>, down = <<>>,
           \A e \in Todo(r) : e.left # 0, NEW s, Ticked(r, s)
    PROVE  OnCourse(s, up, down, age + 1, has)
<1>1. /\ SameFields(r, s) /\ s \in Record
      /\ \A f \in Todo(s) : \E e \in Todo(r) : Before(e, f)
      /\ \A e \in Todo(r) : \E f \in Todo(s) : Before(e, f)
  BY TickTodo DEF Ticked
<1>2. \A w : AtMostOne(r.events, w) => AtMostOne(s.events, w)
  BY DEF Ticked, Earlier, AtMostOne
<1>3. /\ \A e \in Todo(r) : e \in Event /\ e.left \in Nat
      /\ \A e \in Todo(s) : e \in Event /\ e.left \in Nat
  BY <1>1, TodoType DEF Event
<1>4. CASE Collecting(r, up, down, age, has)
  <2>1. PICK n \in Nat : age + n = Collect /\ Todo(r) = {SelectIn(n)}
    BY <1>4 DEF Collecting
  <2>2. SelectIn(n).left = n /\ SelectIn(n).what = "Select" /\ ~SelectIn(n).known
    BY DEF SelectIn
  <2>3. n - 1 \in Nat /\ (age + 1) + (n - 1) = Collect
    BY <2>1, <2>2
  <2>4. \A f \in Event : Before(SelectIn(n), f) => f = SelectIn(n - 1)
    BY <2>2, EventFields DEF Before
  <2>5. Todo(s) = {SelectIn(n - 1)}
    BY <1>1, <1>3, <2>1, <2>4
  <2>6. /\ s.state = "WAIT_OFFER" /\ s.offers = r.offers
        /\ AtMostOne(s.events, "Select")
    BY <1>1, <1>2, <1>4 DEF Collecting, SameFields
  <2>7. Collecting(s, up, down, age + 1, has)
    BY <1>4, <2>3, <2>5, <2>6 DEF Collecting
  <2> QED BY <1>1, <2>7 DEF OnCourse, SameFields
<1>5. CASE Bound(r, up, down, has)
  <2>1. PICK n \in Nat :
             /\ Call("Renew", n) \in Todo(r)
             /\ \A f \in Todo(r) :
                  \/ f = Call("Renew", n)
                  \/ f.what \in {"Rebind", "Timeout"} /\ f.known /\ f.left > n
    BY <1>5 DEF Bound
  <2>2. /\ Call("Renew", n).left = n /\ Call("Renew", n).what = "Renew"
        /\ Call("Renew", n).known
    BY DEF Call
  <2>3. n - 1 \in Nat
    BY <2>1, <2>2
  <2>4. \A f \in Event : Before(Call("Renew", n), f) => f = Call("Renew", n - 1)
    BY <2>2, EventFields DEF Before
  <2>5. Call("Renew", n - 1) \in Todo(s)
    BY <1>1, <1>3, <2>1, <2>4
  <2>6. ASSUME NEW f \in Todo(s)
        PROVE  \/ f = Call("Renew", n - 1)
               \/ f.what \in {"Rebind", "Timeout"} /\ f.known /\ f.left > n - 1
    <3>1. PICK e \in Todo(r) : Before(e, f)
      BY <1>1
    <3>2. CASE e = Call("Renew", n)
      BY <1>3, <2>4, <3>1, <3>2
    <3>3. CASE e.what \in {"Rebind", "Timeout"} /\ e.known /\ e.left > n
      BY <1>3, <3>1, <3>3 DEF Before
    <3> QED BY <2>1, <3>2, <3>3
  <2>7. /\ s.state = "REFRESH_LEASE" /\ s.my \in has /\ s.iface = s.my
        /\ AtMostOne(s.events, "Renew")
    BY <1>1, <1>2, <1>5 DEF Bound, SameFields
  <2>8. Bound(s, up, down, has)
    BY <1>5, <2>3, <2>5, <2>6, <2>7 DEF Bound
  <2> QED BY <1>1, <2>8 DEF OnCourse, SameFields
<1> QED BY <1>4, <1>5 DEF OnCourse, Asking, Awaiting
-----------------------------------------------------------------------------
(* The invariant. *)

HeldFor(c) == {leased[d].addr : d \in {c} \cap DOMAIN leased}

\* What KeepsAddress asks for.
Undisturbed == lost = 0 /\ others = 0 /\ Cardinality(Started) <= Len(Pool)

InOrder(c) ==
    \/ client[c].stopped
    \/ OnCourse(client[c], toServer[c], toClient[c], time - started[c], HeldFor(c))

Unstarted(c) == Idle(client[c]) /\ toServer[c] = <<>> /\ toClient[c] = <<>>

\* Only clients that were started, and those with a static entry, have a
\* record, and all addresses in no record are available.
Supplied ==
    /\ DOMAIN Static \subseteq DOMAIN leased
    /\ DOMAIN leased \ DOMAIN Static \subseteq Started
    /\ Len(available) + Cardinality(DOMAIN leased \ DOMAIN Static) = Len(Pool)

Smooth ==
    /\ \A c \in Other : toServer[c] = <<>>
    /\ \A c \in Client \ Started : Unstarted(c)
    /\ \A c \in Started : InOrder(c)
    /\ Supplied

LEMMA InitSmooth ==
    ASSUME Init
    PROVE  Smooth
<1>1. /\ \A c \in Everyone : toServer[c] = <<>> /\ toClient[c] = <<>>
      /\ \A c \in Client : client[c] = NewClient /\ started[c] = MaxTime + 1
  BY DEF Init, Everyone
<1>2. Idle(NewClient)
  BY DEF Idle, NewClient
<1>3. Started = {}
  BY <1>1, Bounds DEF Started
<1>4. Supplied
  <2>1. DOMAIN leased = DOMAIN Static /\ available = Pool
    BY DEF Init, ServerInit
  <2>2. DOMAIN leased \ DOMAIN Static = {} /\ Len(Pool) \in Nat
    BY <2>1, ServerAssumption
  <2>3. Cardinality(DOMAIN leased \ DOMAIN Static) = 0
    BY <2>2, FS_EmptySet
  <2>4. Len(available) + 0 = Len(Pool)
    BY <2>1, <2>2
  <2>5. /\ DOMAIN Static \subseteq DOMAIN leased
        /\ DOMAIN leased \ DOMAIN Static \subseteq Started
    BY <2>1
  <2> QED BY <2>3, <2>4, <2>5 DEF Supplied
<1> QED BY <1>1, <1>2, <1>3, <1>4 DEF Smooth, Unstarted, Everyone

\* A step that starts no client.
Unaffected(c) ==
    /\ time' = time /\ client'[c] = client[c] /\ HeldFor(c)' = HeldFor(c)
    /\ toServer'[c] = toServer[c] /\ toClient'[c] = toClient[c]

LEMMA SmoothFrame ==
    ASSUME Smooth, started' = started, Supplied',
           \A c \in Other : toServer'[c] = toServer[c],
           \A c \in Client : \/ Unaffected(c)
                             \/ c \in Started /\ InOrder(c)'
                             \/ c \notin Started /\ Unstarted(c)'
    PROVE  Smooth'
<1>1. Started' = Started
  BY DEF Started
<1>2. \A c \in Client : Unaffected(c) =>
        (InOrder(c) => InOrder(c)') /\ (Unstarted(c) => Unstarted(c)')
  BY DEF Unaffected, InOrder, Unstarted
<1>3. Started \subseteq Client
  BY DEF Started
<1> QED BY <1>1, <1>2, <1>3 DEF Smooth

LEMMA SameSupply ==
    ASSUME Supplied, UNCHANGED <<leased, available>>, Started \subseteq Started'
    PROVE  Supplied'
BY DEF Supplied

LEMMA SameHeld ==
    ASSUME NEW c, UNCHANGED leased
    PROVE  HeldFor(c)' = HeldFor(c)
BY DEF HeldFor

LEMMA HeldAddress ==
    ASSUME TypeInv, NEW c
    PROVE  HeldFor(c) \subseteq Address
BY DEF TypeInv, Entry, HeldFor

\* A step of a client that was started.
LEMMA ClientSmooth ==
    ASSUME TypeInv, Smooth, NEW c \in Started, InOrder(c)',
           UNCHANGED <<server, time, started>>,
           \A d \in Client : d # c => client'[d] = client[d],
           \A d \in Everyone : d # c => /\ toServer'[d] = toServer[d]
                                        /\ toClient'[d] = toClient[d]
    PROVE  Smooth'
<1>1. UNCHANGED <<leased, available>>
  BY DEF server
<1>2. Supplied'
  BY <1>1, SameSupply DEF Smooth, Started
<1>3. \A d \in Client : d # c => Unaffected(d)
  BY <1>1, SameHeld DEF Unaffected, Everyone
<1>4. c \in Client /\ \A d \in Other : d # c /\ d \in Everyone
  BY ServerAssumption DEF Started, Everyone
<1> QED BY <1>2, <1>3, <1>4, SmoothFrame

LEMMA StartSmooth ==
    ASSUME TypeInv, Smooth, NEW c \in Client, Start(c)
    PROVE  Smooth'
<1> DEFINE result == StartApplication(client[c])
           s == result.client
           r == client[c]
<1>1. /\ ~client[c].running /\ ~client[c].stopped /\ Take(c, result)
      /\ UNCHANGED <<server, toClient, time>>
      /\ started' = [started EXCEPT ![c] = time]
  BY DEF Start, ClientStarts
<1>2. c \notin Started
  BY <1>1 DEF Smooth, InOrder, OnCourse
<1>3. Idle(r) /\ toServer[c] = <<>> /\ toClient[c] = <<>> /\ r \in Record
  BY <1>2 DEF Smooth, Unstarted, TypeInv
<1>4. c \in Everyone /\ toServer \in [Everyone -> Seq(Message)] /\ time \in 0..MaxTime
      /\ c \notin Other
  BY ServerAssumption DEF TypeInv, Everyone
<1>5. result \in ResultType /\ ~s.stopped
  BY <1>3, StartType DEF Idle
<1>6. OnCourse(s, result.send, <<>>, 0, HeldFor(c))
  BY <1>3, StartCourse
<1> HIDE DEF r
<1> DEFINE send == result.send
<1>7. send \in Seq(Message)
  BY <1>5 DEF ResultType
<1>8. client' = [client EXCEPT ![c] = s] /\ toServer' = [toServer EXCEPT ![c] = @ \o send]
  BY <1>1, <1>5 DEF Take
<1> HIDE DEF result, s, send
<1>9. /\ toServer'[c] = toServer[c] \o send
      /\ \A d \in Everyone : d # c => toServer'[d] = toServer[d]
  BY <1>4, <1>7, <1>8, ConcatTo
<1>10. toServer'[c] = send
  BY <1>3, <1>7, <1>9
<1>11. /\ client'[c] = s /\ \A d \in Client : d # c => client'[d] = client[d]
       /\ started'[c] = time /\ \A d \in Client : d # c => started'[d] = started[d]
  BY <1>1, <1>8 DEF TypeInv
<1>12. Started' = Started \cup {c}
  BY <1>4, <1>11, Bounds DEF Started
<1>13. \A d : HeldFor(d)' = HeldFor(d)
  BY <1>1, SameHeld DEF server
<1>14. InOrder(c)'
  <2>1. time' - started'[c] = 0 /\ toClient'[c] = <<>>
    BY <1>1, <1>3, <1>4, <1>11
  <2> QED BY <1>6, <1>10, <1>11, <1>13, <2>1 DEF InOrder, send
<1>15. \A d \in Started : InOrder(d)'
  <2> SUFFICES ASSUME NEW d \in Started PROVE InOrder(d)'
    OBVIOUS
  <2>1. d \in Client /\ d # c /\ d \in Everyone
    BY <1>2 DEF Started, Everyone
  <2> QED BY <1>1, <1>9, <1>11, <1>13, <2>1 DEF Smooth, InOrder
<1>16. \A d \in Client \ Started' : Unstarted(d)'
  <2> SUFFICES ASSUME NEW d \in Client \ Started' PROVE Unstarted(d)'
    OBVIOUS
  <2>1. d \in Client \ Started /\ d # c /\ d \in Everyone
    BY <1>12 DEF Everyone
  <2> QED BY <1>1, <1>9, <1>11, <2>1 DEF Smooth, Unstarted
<1>17. \A d \in Other : toServer'[d] = <<>>
  BY <1>4, <1>9 DEF Smooth, Everyone
<1>18. Supplied'
  BY <1>1, <1>12, SameSupply DEF Smooth, server
<1> QED BY <1>12, <1>14, <1>15, <1>16, <1>17, <1>18 DEF Smooth

LEMMA StopSmooth ==
    ASSUME TypeInv, Smooth, NEW c \in Client, ClientStops(c), UNCHANGED <<time, started>>
    PROVE  Smooth'
<1>1. c \in Started
  BY DEF ClientStops, Smooth, Unstarted, Idle
<1>2. client'[c].stopped /\ \A d \in Client : d # c => client'[d] = client[d]
  BY DEF ClientStops, TypeInv, Record
<1>3. InOrder(c)'
  BY <1>2 DEF InOrder
<1> QED BY <1>1, <1>2, <1>3, ClientSmooth DEF ClientStops

\* A handler that keeps the client on its course.
LEMMA TakeSmooth ==
    ASSUME TypeInv, Smooth, NEW c \in Started, UNCHANGED <<server, time, started>>,
           NEW result \in ResultType, Take(c, result),
           \A d \in Everyone : d # c => toClient'[d] = toClient[d],
           ~result.client.stopped,
           OnCourse(result.client, toServer[c] \o result.send, toClient'[c],
                    time - started[c], HeldFor(c))
    PROVE  Smooth'
<1> DEFINE send == result.send
           s == result.client
<1>1. c \in Client /\ c \in Everyone /\ toServer \in [Everyone -> Seq(Message)]
  BY DEF Started, Everyone, TypeInv
<1>2. send \in Seq(Message)
  BY DEF ResultType
<1>3. /\ client' = [client EXCEPT ![c] = s]
      /\ toServer' = [toServer EXCEPT ![c] = @ \o send]
  BY DEF Take
<1>4. OnCourse(s, toServer[c] \o send, toClient'[c], time - started[c], HeldFor(c))
  OBVIOUS
<1> HIDE DEF send, s
<1>5. /\ toServer'[c] = toServer[c] \o send
      /\ \A d \in Everyone : d # c => toServer'[d] = toServer[d]
  BY <1>1, <1>2, <1>3, ConcatTo
<1>6. client'[c] = s /\ \A d \in Client : d # c => client'[d] = client[d]
  BY <1>1, <1>3 DEF TypeInv
<1>7. HeldFor(c)' = HeldFor(c)
  BY SameHeld DEF server
<1>8. InOrder(c)'
  BY <1>4, <1>5, <1>6, <1>7 DEF InOrder
<1> QED BY <1>5, <1>6, <1>8, ClientSmooth

LEMMA ReceiveSmooth ==
    ASSUME TypeInv, Smooth, NEW c \in Client, ClientReceives(c),
           UNCHANGED <<time, started>>
    PROVE  Smooth'
<1> DEFINE r == client[c]
           down == toClient[c]
           result == Handle(r, Head(down))
<1>1. /\ toClient[c] # <<>> /\ toClient' = [toClient EXCEPT ![c] = Tail(@)]
      /\ UNCHANGED server
      /\ \/ ~client[c].stopped /\ Take(c, result)
         \/ client[c].stopped /\ UNCHANGED <<client, toServer>>
  BY DEF ClientReceives
<1>2. c \in Started
  BY <1>1 DEF Smooth, Unstarted
<1>3. r \in Record /\ c \in Everyone /\ toClient \in [Everyone -> Seq(Answer)]
  BY DEF TypeInv, Everyone
<1>4. /\ toClient'[c] = Tail(down) /\ Head(down) \in Answer
      /\ \A d \in Everyone : d # c => toClient'[d] = toClient[d]
  BY <1>1, <1>3, TailOf
<1>5. CASE client[c].stopped
  <2>1. InOrder(c)'
    BY <1>1, <1>5 DEF InOrder
  <2> QED BY <1>1, <1>2, <1>4, <1>5, <2>1, ClientSmooth
<1>6. CASE ~client[c].stopped
  <2>1. OnCourse(r, toServer[c], down, time - started[c], HeldFor(c))
    BY <1>2, <1>6 DEF Smooth, InOrder
  <2>2. HeldFor(c) \subseteq Address /\ down # <<>>
    BY <1>1, HeldAddress
  <2> HIDE DEF r, down
  <2>3. /\ OnCourse(result.client, toServer[c] \o result.send, Tail(down),
                    time - started[c], HeldFor(c))
        /\ ~result.client.stopped
    BY <1>3, <2>1, <2>2, HandleCourse
  <2>4. result \in ResultType
    BY <1>3, <1>4, HandleType
  <2>5. Take(c, result)
    BY <1>1, <1>6 DEF r
  <2> HIDE DEF result
  <2> QED BY <1>1, <1>2, <1>4, <2>3, <2>4, <2>5, TakeSmooth
<1> QED BY <1>5, <1>6

LEMMA FireStopped ==
    ASSUME NEW r \in Record, r.stopped, NEW what \in Kinds
    PROVE  Fire(r, what).client.stopped
<1>1. Request(r).client.stopped
  BY AskType, RefreshType
<1>2. Select(r).client.stopped
  <2>1. CASE r.offers = <<>>
    <3>1. Select(r) = Boot(r)
      BY <2>1 DEF Select
    <3> QED BY <3>1, BootType
  <2>2. CASE r.offers # <<>>
    BY <2>2, ChosenType, AskType, RefreshType
  <2> QED BY <2>1, <2>2
<1>3. CASE what = "Boot"
  BY <1>3, BootType DEF Fire
<1>4. CASE what \in {"Select", "NextOffer"}
  BY <1>2, <1>4 DEF Fire
<1>5. CASE what \in {"Renew", "Rebind"}
  BY <1>1, <1>5 DEF Fire
<1>6. CASE what = "Timeout"
  BY <1>6, RestartType DEF Fire
<1> QED BY <1>3, <1>4, <1>5, <1>6 DEF Kinds

LEMMA EventSmooth ==
    ASSUME TypeInv, Smooth, NEW c \in Client, ClientEvent(c),
           UNCHANGED <<time, started>>
    PROVE  Smooth'
<1> DEFINE r == client[c]
<1>1. r \in Record /\ UNCHANGED <<server, toClient>>
  BY EventCalls DEF TypeInv
<1>2. PICK i, t : Calls(c, i, t)
  BY <1>1, EventCalls
<1>3. c \in Started
  <2>1. i \in DOMAIN r.events
    BY <1>2 DEF Calls
  <2>2. r.events # <<>>
    BY <2>1
  <2> QED BY <2>2 DEF Smooth, Unstarted, Idle
<1> DEFINE e == r.events[i]
           result == Fire(t, e.what)
<1>4. /\ i \in DOMAIN r.events /\ e.left = 0 /\ Take(c, result)
      /\ t = [r EXCEPT !.events = RemoveAt(@, i)]
  BY <1>2 DEF Calls
<1>5. /\ t \in Record /\ SameFields(r, t) /\ Taken(r.events, e, t.events)
      /\ e \in Event /\ e \in Todo(r)
  <2> HIDE DEF r
  <2>1. /\ t \in Record
        /\ t.running = r.running /\ t.stopped = r.stopped
        /\ t.state = r.state /\ t.offered = r.offered /\ t.offers = r.offers
        /\ t.my = r.my /\ t.req = r.req /\ t.iface = r.iface
        /\ Taken(r.events, r.events[i], t.events)
        /\ r.events[i] \in Event /\ r.events[i] \in ToSet(r.events)
    BY <1>1, <1>4, WithoutEvent, ZenonT(60)
  <2> QED BY <2>1 DEF SameFields, Todo
<1> HIDE DEF e
<1>6. result \in ResultType
  BY <1>5, FireType DEF Event
<1>7. CASE r.stopped
  <2>1. Fire(t, e.what).client.stopped
    <3>1. t.stopped /\ e.what \in Kinds
      BY <1>5, <1>7 DEF SameFields, Event
    <3> QED BY <1>5, <3>1, FireStopped
  <2>2. /\ client'[c].stopped /\ \A d \in Client : d # c => client'[d] = client[d]
        /\ UNCHANGED toServer
    BY <1>4, <1>6, <2>1 DEF Take, TypeInv
  <2>3. InOrder(c)'
    BY <2>2 DEF InOrder
  <2> QED BY <1>1, <1>3, <2>2, <2>3, ClientSmooth
<1>8. CASE ~r.stopped
  <2>1. OnCourse(r, toServer[c], toClient[c], time - started[c], HeldFor(c))
    BY <1>3, <1>8 DEF Smooth, InOrder
  <2>2. HeldFor(c) \subseteq Address
    BY HeldAddress
  <2> HIDE DEF r
  <2>3. /\ OnCourse(result.client, toServer[c] \o result.send, toClient[c],
                    time - started[c], HeldFor(c))
        /\ ~result.client.stopped
    BY <1>1, <1>4, <1>5, <2>1, <2>2, EventCourse
  <2> HIDE DEF result
  <2> QED BY <1>1, <1>3, <1>4, <1>6, <2>3, TakeSmooth
<1> QED BY <1>7, <1>8

\* There is an address for every client that asks.
LEMMA OneLeft ==
    ASSUME TypeInv, Supplied, Cardinality(Started) <= Len(Pool),
           NEW c \in Started, ~Known(c)
    PROVE  available # <<>>
<1> DEFINE D == DOMAIN leased \ DOMAIN Static
<1>1. /\ IsFiniteSet(Started) /\ IsFiniteSet(D) /\ IsFiniteSet(D \cup {c})
      /\ Cardinality(Started) \in Nat /\ Cardinality(D) \in Nat
  <2>1. IsFiniteSet(Started) /\ D \subseteq Started
    BY FS_Subset, ServerAssumption DEF Started, Supplied
  <2> HIDE DEF D
  <2>2. IsFiniteSet(D)
    BY <2>1, FS_Subset
  <2> QED BY <2>1, <2>2, FS_AddElement, FS_CardinalityType
<1>2. c \notin D /\ D \cup {c} \subseteq Started
  BY DEF Known, Supplied
<1>3. Len(available) + Cardinality(D) = Len(Pool) /\ Len(Pool) \in Nat
  BY ServerAssumption DEF Supplied
<1> HIDE DEF D
<1>4. Cardinality(D \cup {c}) = Cardinality(D) + 1
  BY <1>1, <1>2, FS_AddElement
<1>5. Cardinality(D \cup {c}) <= Cardinality(Started)
  BY <1>1, <1>2, FS_Subset
<1>6. Len(available) # 0 
  BY <1>1, <1>3, <1>4, <1>5 DEF TypeInv
<1> QED BY <1>6

\* An offer for c changes no other record.
LEMMA OfferSmooth ==
    ASSUME TypeInv, Smooth, Cardinality(Started) <= Len(Pool),
           started' = started, NEW c \in Started, SendOffer(c)
    PROVE  /\ Supplied'
           /\ \A d : d # c => HeldFor(d)' = HeldFor(d)
           /\ \E a \in Address : 
                /\ HeldFor(c)' = {a}
                /\ toClient' = [toClient EXCEPT ![c] = Append(@, Msg("OFFER", a))]
<1>1. Started' = Started /\ Supplied
  BY DEF Started, Smooth
<1>2. CASE OfferKnown(c)
  <2> DEFINE a == leased[c].addr
             v == NewLease(a)
  <2>1. /\ c \in DOMAIN leased /\ leased' = [leased EXCEPT ![c] = v]
        /\ toClient' = [toClient EXCEPT ![c] = Append(@, Msg("OFFER", a))]
        /\ available' = available
    BY <1>2 DEF OfferKnown, Known
  <2>2. a \in Address /\ v.addr = a
    BY <2>1, NewLeaseType DEF TypeInv, Entry
  <2> HIDE DEF v
  <2>3. /\ DOMAIN leased' = DOMAIN leased /\ leased'[c] = v
        /\ \A d \in DOMAIN leased : d # c => leased'[d] = leased[d]
    BY <2>1 DEF TypeInv
  <2> HIDE DEF a
  <2>4. HeldFor(c)' = {a} /\ \A d : d # c => HeldFor(d)' = HeldFor(d)
    BY <2>1, <2>2, <2>3 DEF HeldFor
  <2>5. Supplied'
    BY <1>1, <2>1, <2>3 DEF Supplied
  <2> QED BY <2>1, <2>2, <2>4, <2>5
<1>3. CASE ~Known(c)
  <2> DEFINE a == Head(available)
             v == NewLease(a)
             D == DOMAIN leased \ DOMAIN Static
  <2>1. available # <<>>
    BY <1>1, <1>3, OneLeft
  <2>2. /\ available' = Tail(available) /\ leased' = With(leased, c, v)
        /\ toClient' = [toClient EXCEPT ![c] = Append(@, Msg("OFFER", a))]
    BY <1>3, <2>1 DEF SendOffer, OfferKnown, OfferNew, OfferOld, OfferNone
  <2>3. a \in Address
    BY <2>1, SetTail DEF TypeInv
  <2>4. v.addr = a
    BY <2>3, NewLeaseType
  <2> HIDE DEF v, a
  <2>5. /\ DOMAIN leased' = DOMAIN leased \cup {c} /\ leased'[c] = v
        /\ \A d \in DOMAIN leased : d # c => leased'[d] = leased[d]
    BY <2>2 DEF With
  <2>6. HeldFor(c)' = {a} /\ \A d : d # c => HeldFor(d)' = HeldFor(d)
    BY <2>4, <2>5 DEF HeldFor
  <2>7. c \notin D /\ DOMAIN leased' \ DOMAIN Static = D \cup {c}
    BY <1>1, <1>3, <2>5 DEF Supplied, Known
  <2>8. IsFiniteSet(D)
    <3>1. IsFiniteSet(Started)
      BY FS_Subset, ServerAssumption DEF Started
    <3> QED BY <1>1, <3>1, FS_Subset DEF Supplied
  <2>9. Len(available) + Cardinality(D) = Len(Pool)
    BY <1>1 DEF Supplied
  <2> HIDE DEF D
  <2>10. Cardinality(D \cup {c}) = Cardinality(D) + 1 /\ Cardinality(D) \in Nat
    BY <2>7, <2>8, FS_AddElement, FS_CardinalityType
  <2>11. Len(available') = Len(available) - 1 /\ Len(available) \in Nat
    BY <2>1, <2>2, HeadTailProperties DEF TypeInv
  <2>12. Len(available') + Cardinality(D \cup {c}) = Len(Pool)
    BY <2>9, <2>10, <2>11
  <2>13. Supplied'
    BY <1>1, <2>5, <2>7, <2>12 DEF Supplied
  <2> QED BY <2>2, <2>3, <2>6, <2>13
<1> QED BY <1>2, <1>3 DEF SendOffer, OfferNew, OfferOld, OfferNone

\* So does an acknowledgement, and the client has the same address.
LEMMA AckSmooth ==
    ASSUME TypeInv, Smooth, started' = started, NEW c \in Started, NEW a, SendAck(c, a)
    PROVE  /\ Supplied'
           /\ \A d : HeldFor(d)' = HeldFor(d)
           /\ a \in HeldFor(c) =>
                toClient' = [toClient EXCEPT ![c] = Append(@, Msg("ACK", a))]
<1>1. ServerType /\ c \in Everyone
  BY TypeParts DEF Started, Everyone
<1>2. AckEffect(c)
  BY <1>1, SendAckEffect
<1>3. Supplied'
  BY <1>2 DEF Smooth, Supplied, AckEffect, Started
<1>4. \A d : HeldFor(d)' = HeldFor(d)
  BY <1>2 DEF AckEffect, HeldFor
<1>5. a \in HeldFor(c) => Known(c)
  BY DEF HeldFor, Known
<1> QED BY <1>3, <1>4, <1>5 DEF SendAck

LEMMA ServerSmooth ==
    ASSUME TypeInv, Smooth, Cardinality(Started) <= Len(Pool),
           NEW c \in Everyone, ServerReceives(c),
           UNCHANGED <<client, time, started>>
    PROVE  Smooth'
<1> DEFINE up == toServer[c]
           m == Head(up)
<1>1. /\ up # <<>> /\ toServer' = [toServer EXCEPT ![c] = Tail(@)]
      /\ \/ m.type = "DISCOVER" /\ SendOffer(c)
         \/ m.type = "REQ" /\ m.addr \in Address /\ SendAck(c, m.addr)
         \/ /\ m.type = "REQ" /\ m.addr \notin Address
            /\ UNCHANGED <<server, toClient>>
  BY DEF ServerReceives
<1>2. c \in Started
  BY <1>1 DEF Smooth, Unstarted, Everyone
<1>3. /\ toServer \in [Everyone -> Seq(Message)] /\ toClient \in [Everyone -> Seq(Answer)]
      /\ c \in Client /\ Client \subseteq Everyone /\ \A d \in Other : d # c /\ d \in Everyone
  BY <1>2, ServerAssumption DEF TypeInv, Everyone, Started
<1>4. toServer'[c] = Tail(up) /\ \A d \in Everyone : d # c => toServer'[d] = toServer[d]
  BY <1>1, <1>3, TailOf
<1>5. \/ client[c].stopped
      \/ OnCourse(client[c], up, toClient[c], time - started[c], HeldFor(c))
  BY <1>2 DEF Smooth, InOrder
<1> HIDE DEF up, m
<1>6. CASE m.type = "DISCOVER" /\ SendOffer(c)
  <2>1. /\ Supplied' /\ \A d : d # c => HeldFor(d)' = HeldFor(d)
        /\ \E a \in Address : 
             /\ HeldFor(c)' = {a}
             /\ toClient' = [toClient EXCEPT ![c] = Append(@, Msg("OFFER", a))]
    BY <1>2, <1>6, OfferSmooth
  <2>2. PICK a \in Address :
             /\ HeldFor(c)' = {a}
             /\ toClient' = [toClient EXCEPT ![c] = Append(@, Msg("OFFER", a))]
    BY <2>1
  <2>3. /\ toClient'[c] = Append(toClient[c], Msg("OFFER", a))
        /\ \A d \in Everyone : d # c => toClient'[d] = toClient[d]
    BY <1>3, <2>2
  <2>4. \/ client[c].stopped
        \/ OnCourse(client[c], Tail(up), Append(toClient[c], Msg("OFFER", a)),
                    time - started[c], {a})
    BY <1>1, <1>5, <1>6, DiscoverCourse DEF m
  <2>5. InOrder(c)'
    BY <1>4, <2>2, <2>3, <2>4 DEF InOrder
  <2>6. \A d \in Client : d # c => Unaffected(d)
    BY <1>3, <1>4, <2>1, <2>3 DEF Unaffected
  <2> QED BY <1>2, <1>3, <1>4, <2>1, <2>5, <2>6, SmoothFrame
<1>7. CASE m.type = "REQ"
  <2>1. \/ client[c].stopped
        \/ /\ m.addr \in HeldFor(c)
           /\ OnCourse(client[c], Tail(up), Append(toClient[c], Msg("ACK", m.addr)),
                       time - started[c], HeldFor(c))
    BY <1>1, <1>5, <1>7, RequestCourse DEF m
  <2>2. HeldFor(c) \subseteq Address
    BY HeldAddress
  <2>3. CASE m.addr \in Address /\ SendAck(c, m.addr)
    <3>1. /\ Supplied' /\ \A d : HeldFor(d)' = HeldFor(d)
          /\ m.addr \in HeldFor(c) =>
               toClient' = [toClient EXCEPT ![c] = Append(@, Msg("ACK", m.addr))]
      BY <1>2, <2>3, AckSmooth
    <3>2. \A d \in Everyone : d # c => toClient'[d] = toClient[d]
      BY <1>3, <2>3 DEF SendAck
    <3>3. m.addr \in HeldFor(c) =>
            toClient'[c] = Append(toClient[c], Msg("ACK", m.addr))
      BY <1>3, <3>1
    <3>4. InOrder(c)'
      BY <1>4, <2>1, <3>1, <3>3 DEF InOrder
    <3>5. \A d \in Client : d # c => Unaffected(d)
      BY <1>3, <1>4, <3>1, <3>2 DEF Unaffected
    <3> QED BY <1>2, <1>3, <1>4, <3>1, <3>4, <3>5, SmoothFrame
  <2>4. CASE m.addr \notin Address /\ UNCHANGED <<server, toClient>>
    <3>1. client[c].stopped
      BY <2>1, <2>2, <2>4
    <3>2. InOrder(c)'
      BY <3>1 DEF InOrder
    <3> QED BY <1>2, <1>4, <2>4, <3>2, ClientSmooth
  <2> QED BY <1>1, <1>7, <2>3, <2>4
<1> QED BY <1>1, <1>6, <1>7

LEMMA TimerSmooth ==
    ASSUME TypeInv, Smooth, ServerTimer
    PROVE  Smooth'
<1>1. TimerHandler /\ UNCHANGED <<client, time, started>>
  BY DEF ServerTimer
<1>2. ServerType
  BY TypeParts
<1>3. PICK order : Timed(order)
  BY <1>1, <1>2, TimerEffect
<1>4. /\ DOMAIN leased' = DOMAIN leased
      /\ \A c \in DOMAIN leased : leased'[c].addr = leased[c].addr
      /\ UNCHANGED <<available, toServer, toClient>>
  BY <1>1, <1>2, <1>3, TimerEffect DEF Timed
<1>5. Supplied'
  BY <1>1, <1>4 DEF Smooth, Supplied, Started
<1>6. \A d : HeldFor(d)' = HeldFor(d)
  BY <1>4 DEF HeldFor
<1>7. \A d \in Client : Unaffected(d)
  BY <1>1, <1>4, <1>6 DEF Unaffected
<1> QED BY <1>1, <1>4, <1>5, <1>7, SmoothFrame

LEMMA TickSmooth ==
    ASSUME TypeInv, Smooth, Tick
    PROVE  Smooth'
<1>1. /\ UNCHANGED <<server, toServer, toClient, started>> /\ time' = time + 1
      /\ \A c \in Client : toServer[c] = <<>> /\ toClient[c] = <<>>
  BY DEF Tick, Quiet
<1>2. Supplied' /\ Started' = Started /\ \A d : HeldFor(d)' = HeldFor(d)
  BY <1>1, SameSupply, SameHeld DEF Smooth, Started, server
<1>3. ASSUME NEW c \in Client PROVE Ticked(client[c], client'[c]) /\ client[c] \in Record
  BY TickRecord DEF TypeInv
<1>4. ASSUME NEW c \in Client, NEW e \in Todo(client[c]) PROVE e.left # 0
  BY <1>4 DEF Tick, Quiet, Due, Todo, ToSet
<1>5. ASSUME NEW c \in Started PROVE InOrder(c)'
  <2>1. c \in Client /\ time \in Int /\ started[c] \in Int
    BY Bounds DEF Started, TypeInv
  <2>2. CASE client[c].stopped
    BY <1>3, <2>1, <2>2 DEF Ticked, SameFields, InOrder
  <2>3. CASE ~client[c].stopped
    <3> DEFINE age == time - started[c]
    <3>1. OnCourse(client[c], toServer[c], toClient[c], age, HeldFor(c))
      BY <2>3 DEF Smooth, InOrder
    <3>2. time' - started'[c] = age + 1 /\ age \in Int
      BY <1>1, <2>1
    <3> HIDE DEF age
    <3>3. OnCourse(client'[c], toServer[c], toClient[c], age + 1, HeldFor(c))
      BY <1>1, <1>3, <1>4, <2>1, <3>1, <3>2, TickCourse
    <3> QED BY <1>1, <1>2, <3>2, <3>3 DEF InOrder
  <2> QED BY <2>2, <2>3
<1>6. ASSUME NEW c \in Client \ Started PROVE Unstarted(c)'
  <2>1. Idle(client[c])
    BY DEF Smooth, Unstarted
  <2>2. Idle(client'[c])
    BY <1>3, <2>1, TickTodo DEF Idle, Ticked, SameFields
  <2> QED BY <1>1, <2>2 DEF Unstarted
<1> QED BY <1>1, <1>2, <1>5, <1>6, SmoothFrame

\* A message of another client disturbs, and an answer to it is none of theirs.
LEMMA OtherSmooth ==
    ASSUME TypeInv, Smooth, NEW c \in Other, OtherReceives(c), Same
    PROVE  Smooth'
<1>1. /\ UNCHANGED <<server, toServer, client, time, started>>
      /\ toClient' = [toClient EXCEPT ![c] = Tail(@)]
  BY DEF OtherReceives, Same
<1>2. \A d \in Client : d # c
  BY ServerAssumption
<1>3. \A d \in Client : toClient'[d] = toClient[d]
  BY <1>1, <1>2 DEF TypeInv, Everyone
<1>4. Supplied' /\ \A d : HeldFor(d)' = HeldFor(d)
  BY <1>1, SameSupply, SameHeld DEF Smooth, Started, server
<1> QED BY <1>1, <1>3, <1>4, SmoothFrame DEF Unaffected

\* Once something was lost or too many were started, it stays so.
LEMMA DisturbedStays ==
    ASSUME TypeInv, [Next]_vars, Undisturbed'
    PROVE  /\ Undisturbed
           /\ \A c \in Other : ~OtherSends(c)
           /\ \A c \in Everyone : ~LoseOne(c)
<1>1. lost \in Nat /\ others \in Nat /\ lost' = 0 /\ others' = 0
  BY Bounds DEF TypeInv, Undisturbed
<1>2. /\ \A c \in Other : ~OtherSends(c)
      /\ \A c \in Everyone : ~LoseOne(c)
  BY <1>1 DEF OtherSends, LoseOne
<1>3. lost = 0 /\ others = 0 /\ Started \subseteq Started'
  <2>1. CASE \E c \in Client : Start(c)
    <3>1. PICK c \in Client : Start(c)
      BY <2>1
    <3>2. /\ lost' = lost /\ others' = others /\ time \in 0..MaxTime
          /\ started' = [started EXCEPT ![c] = time]
      BY <3>1 DEF Start, TypeInv
    <3>3. Started \subseteq Started'
      BY <3>2, Bounds DEF Started, TypeInv
    <3> QED BY <1>1, <3>2, <3>3
  <2>2. CASE UNCHANGED <<lost, others, started>>
    BY <1>1, <2>2 DEF Started
  <2> QED BY <1>2, <2>1, <2>2
          DEF Next, vars, Stop, Same, ServerTimer, Tick, Everyone
<1>4. Cardinality(Started) <= Cardinality(Started')
  <2>1. IsFiniteSet(Started')
    BY FS_Subset, ServerAssumption DEF Started
  <2> HIDE DEF Started
  <2> QED BY <1>3, <2>1, FS_Subset
<1>5. Cardinality(Started) \in Nat /\ Cardinality(Started') \in Nat
  <2>1. IsFiniteSet(Started) /\ IsFiniteSet(Started')
    BY FS_Subset, ServerAssumption DEF Started
  <2> QED BY <2>1, FS_CardinalityType
<1>6. Cardinality(Started) <= Len(Pool)
  <2>1. Cardinality(Started') <= Len(Pool) /\ Len(Pool) \in Nat
    BY ServerAssumption DEF Undisturbed
  <2> QED BY <1>4, <1>5, <2>1
<1> QED BY <1>2, <1>3, <1>6 DEF Undisturbed

LEMMA SmoothStep ==
    TypeInv /\ (Undisturbed => Smooth) /\ [Next]_vars => (Undisturbed => Smooth)'
<1> SUFFICES ASSUME TypeInv, Undisturbed => Smooth, [Next]_vars, Undisturbed'
             PROVE  Smooth'
  OBVIOUS
<1>1. /\ Smooth /\ Cardinality(Started) <= Len(Pool)
      /\ \A c \in Other : ~OtherSends(c)
      /\ \A c \in Everyone : ~LoseOne(c)
  BY DisturbedStays DEF Undisturbed
<1>2. CASE \E c \in Client : Start(c)
  BY <1>1, <1>2, StartSmooth
<1>3. CASE \E c \in Client : Stop(c)
  BY <1>1, <1>3, StopSmooth DEF Stop, Same
<1>4. CASE \E c \in Client : (ClientReceives(c) \/ ClientEvent(c)) /\ Same
  BY <1>1, <1>4, ReceiveSmooth, EventSmooth DEF Same
<1>5. CASE \E c \in Other : OtherReceives(c) /\ Same
  BY <1>1, <1>5, OtherSmooth
<1>6. CASE \E c \in Everyone : ServerReceives(c) /\ UNCHANGED client /\ Same
  BY <1>1, <1>6, ServerSmooth DEF Same
<1>7. CASE ServerTimer
  BY <1>1, <1>7, TimerSmooth
<1>8. CASE Tick
  BY <1>1, <1>8, TickSmooth
<1>9. CASE UNCHANGED vars
  <2>1. Supplied' /\ \A d : HeldFor(d)' = HeldFor(d)
    BY <1>1, <1>9, SameSupply, SameHeld DEF Smooth, Started, vars, server
  <2> QED BY <1>1, <1>9, <2>1, SmoothFrame DEF vars, Unaffected
<1> QED BY <1>1, <1>2, <1>3, <1>4, <1>5, <1>6, <1>7, <1>8, <1>9 DEF Next, Everyone

\* When everyone who started can have an address, nothing is lost and no client
\* of another server asks, a client has an address as soon as it has collected
\* the offers, and keeps it as long as it runs.
THEOREM KeepsCorrect == Spec => []KeepsAddress
<1>1. TypeInv /\ (Undisturbed => Smooth) => KeepsAddress
  <2> SUFFICES ASSUME TypeInv, Smooth, Quiet, NEW c \in Client,
                      time >= started[c] + Collect, ~client[c].stopped
               PROVE  \E a \in Address : Holds(c, a) /\ Known(c) /\ leased[c].addr = a
    BY DEF KeepsAddress, Undisturbed
  <2> DEFINE r == client[c]
             age == time - started[c]
             up == toServer[c]
             down == toClient[c]
  <2>1. /\ time \in 0..MaxTime /\ started[c] \in 0..(MaxTime + 1) /\ r \in Record
        /\ MaxTime \in Nat /\ Collect \in Nat
    BY Bounds, Constants DEF TypeInv
  <2>2. c \in Started
    BY <2>1 DEF Started
  <2>3. OnCourse(r, up, down, age, HeldFor(c)) /\ age >= Collect /\ age \in Int
    BY <2>1, <2>2 DEF Smooth, InOrder
  <2>4. up = <<>> /\ down = <<>> /\ \A e \in Todo(r) : e.left # 0
    BY DEF Quiet, Due, Todo, ToSet
  <2> HIDE DEF age, up, down
  <2>5. Bound(r, up, down, HeldFor(c))
    <3>1. ~Collecting(r, up, down, age, HeldFor(c))
      <4> SUFFICES ASSUME NEW n \in Nat, age + n = Collect, Todo(r) = {SelectIn(n)}
                   PROVE  FALSE
        BY DEF Collecting
      <4>1. n = 0
        BY <2>1, <2>3
      <4>2. SelectIn(n).left = 0
        BY <4>1 DEF SelectIn
      <4> QED BY <2>4, <4>2
    <3> QED BY <2>3, <2>4, <3>1 DEF OnCourse, Asking, Awaiting
  <2>6. r.my \in HeldFor(c) /\ r.iface = r.my /\ HeldFor(c) \subseteq Address
    BY <2>5, HeldAddress DEF Bound
  <2> QED BY <2>6 DEF HeldFor, Holds, Known
<1>2. Init => TypeInv /\ (Undisturbed => Smooth)
  BY InitTypeInv, InitSmooth
<1>3. /\ TypeInv /\ (Undisturbed => Smooth) /\ [Next]_vars
      => (TypeInv /\ (Undisturbed => Smooth))'
  BY TypeStep, SmoothStep
<1> QED BY <1>1, <1>2, <1>3, PTL DEF Spec
=============================================================================
