------------------------------ MODULE EventLists ------------------------------
(***************************************************************************)
(* The event lists of ns-3 behind the interface ns3::Scheduler, driven as  *)
(* the simulator drives them: it inserts events no earlier than the last   *)
(* one taken, each under the next uid; it takes the next event; it removes *)
(* events that wait; and at any moment it may replace the list by one of   *)
(* another kind (SetScheduler).                                            *)
(*                                                                         *)
(* list is the current list, as its kind keeps it: a set for the map, a    *)
(* sequence for the list and the heap, a record for the calendar.          *)
(***************************************************************************)
EXTENDS CalendarScheduler, HeapScheduler, Functions

CONSTANTS
    Kinds,       \* the kinds of list the program uses
    HeapRemoves, \* whether the program removes events from a HeapScheduler
    Delays,      \* the delays the program schedules with
    MaxInserts   \* bound on the events a behaviour inserts

ASSUME ListAssumption ==
    /\ Kinds \subseteq {"map", "list", "heap", "calendar"}
    /\ HeapRemoves \in BOOLEAN
    /\ Delays \subseteq Nat
    /\ MaxInserts \in Nat

VARIABLES
    kind,     \* the kind of the current list
    list,     \* its data
    last,     \* the key of the event last taken
    inserted, \* number of events inserted so far
    pending   \* history: the events inserted and not yet taken or removed

lvars == <<kind, list, last, inserted, pending>>

EmptyList(k) == CASE k = "map"      -> {}
                  [] k = "list"     -> <<>>
                  [] k = "heap"     -> <<>>
                  [] k = "calendar" -> EmptyCalendar

InsertInto(k, q, ev) == CASE k = "map"      -> q \cup {ev}
                          [] k = "list"     -> SortedInsert(q, ev)
                          [] k = "heap"     -> HeapInsert(q, ev)
                          [] k = "calendar" -> CalendarInsert(q, ev)

\* The event RemoveNext returns, and the list it leaves.
NextOf(k, q) == CASE k = "map"      -> Begin(q)
                  [] k = "list"     -> Head(q)
                  [] k = "heap"     -> q[1]
                  [] k = "calendar" -> PeekNext(q)

RestOf(k, q) == CASE k = "map"      -> q \ {Begin(q)}
                  [] k = "list"     -> Tail(q)
                  [] k = "heap"     -> HeapRemoveNext(q)
                  [] k = "calendar" -> CalendarRemoveNext(q)

RemoveFrom(k, q, ev) == CASE k = "map"      -> q \ {ev}
                          [] k = "list"     -> SortedRemove(q, ev)
                          [] k = "heap"     -> HeapRemove(q, ev)
                          [] k = "calendar" -> CalendarRemove(q, ev)

IsEmpty(k, q) == IF k = "calendar" THEN q.qSize = 0 ELSE q = EmptyList(k)

\* SetScheduler: take the events one by one and insert them.
RECURSIVE TransferAll(_, _, _, _)
TransferAll(k, q, to, target) ==
    IF IsEmpty(k, q) THEN target
    ELSE TransferAll(k, RestOf(k, q), to, InsertInto(to, target, NextOf(k, q)))

Transfer(k, q, to) == TransferAll(k, q, to, EmptyList(to))

\* The events in the list, whatever its kind.
Contents(k, q) ==
    CASE k = "map"      -> q
      [] k = "calendar" -> UNION {Range(q.buckets[i]) : i \in DOMAIN q.buckets}
      [] OTHER          -> Range(q)
-----------------------------------------------------------------------------
Init ==
    /\ kind \in Kinds
    /\ list = EmptyList(kind)
    /\ last = [ts |-> 0, uid |-> 0]
    /\ inserted = 0
    /\ pending = {}

Insert(delay) ==
    /\ inserted < MaxInserts
    /\ inserted' = inserted + 1
    /\ LET ev == [ts |-> last.ts + delay, uid |-> inserted']
       IN /\ list' = InsertInto(kind, list, ev)
          /\ pending' = pending \cup {ev}
    /\ UNCHANGED <<kind, last>>

RemoveNext ==
    /\ ~IsEmpty(kind, list)
    /\ last' = NextOf(kind, list)
    /\ list' = RestOf(kind, list)
    /\ pending' = pending \ {last'}
    /\ UNCHANGED <<kind, inserted>>

Remove(ev) ==
    /\ kind = "heap" => HeapRemoves
    /\ list' = RemoveFrom(kind, list, ev)
    /\ pending' = pending \ {ev}
    /\ UNCHANGED <<kind, last, inserted>>

SetScheduler(k) ==
    /\ list' = Transfer(kind, list, k)
    /\ kind' = k
    /\ UNCHANGED <<last, inserted, pending>>

Next ==
    \/ \E d \in Delays : Insert(d)
    \/ RemoveNext
    \/ \E ev \in pending : Remove(ev)
    \/ \E k \in Kinds : SetScheduler(k)

Spec == Init /\ [][Next]_lvars
-----------------------------------------------------------------------------
(***************************************************************************)
(* Properties.                                                             *)
(***************************************************************************)
\* Every variable has its type; a calendar has 1, 2, 4, ... buckets.
Entry == [ts : Nat, uid : 1..MaxInserts]
IsCalendar(c) ==
    /\ DOMAIN c.buckets = 0..(NBuckets(c) - 1)
    /\ \E n \in 0..15 : NBuckets(c) = 2 ^ n
    /\ \A i \in DOMAIN c.buckets : c.buckets[i] \in Seq(Entry)
    /\ c.width \in Nat \ {0}
    /\ c.lastPrio \in Nat /\ c.bucketTop \in Nat /\ c.qSize \in Nat
    /\ c.lastBucket \in DOMAIN c.buckets
TypeOK ==
    /\ kind \in Kinds
    /\ CASE kind = "map"      -> list \subseteq Entry
         [] kind = "calendar" -> IsCalendar(list)
         [] OTHER             -> list \in Seq(Entry)
    /\ last \in [ts : Nat, uid : 0..MaxInserts]
    /\ inserted \in 0..MaxInserts
    /\ pending \subseteq Entry

Contract == INSTANCE Scheduler WITH queue <- pending

\* Every kind of list, and a program that changes from one to another, keeps
\* the promise of Scheduler: the event taken is the earliest of those that
\* were inserted and neither taken nor removed before.
ImplementsScheduler == Contract!Spec

\* Nothing appears in a list, vanishes from it or is kept twice, whatever is
\* inserted, taken, removed, resized or moved to another kind of list; and a
\* calendar, whose IsEmpty and resizing go by its own counter, counts right.
Size(k, q) ==
    IF k = "calendar" THEN FoldFunction(+, 0, [i \in DOMAIN q.buckets |->
                                                 Len(q.buckets[i])])
    ELSE IF k = "map" THEN Cardinality(q) ELSE Len(q)
HoldsPending ==
    /\ Contents(kind, list) = pending
    /\ Size(kind, list) = Cardinality(pending)
    /\ kind = "calendar" => list.qSize = Cardinality(pending)

\* The calendar's search is sound where it starts: lastBucket and bucketTop
\* belong to the day of the last event taken, which no event precedes; every
\* event is in the bucket of its day, and every bucket is in order.
CalendarConsistent == kind = "calendar" =>
    /\ list.lastBucket = Hash(list, list.lastPrio)
    /\ list.bucketTop = Day(list, list.lastPrio)
    /\ \A i \in DOMAIN list.buckets :
          /\ IsSorted(list.buckets[i])
          /\ \A ev \in Range(list.buckets[i]) :
                Hash(list, ev.ts) = i /\ ev.ts >= list.lastPrio

\* The order the other lists rely on: a list is sorted, a heap is a heap.
Ordered == CASE kind = "list" -> IsSorted(list)
             [] kind = "heap" -> IsHeap(list)
             [] OTHER         -> TRUE

\* What the documentation of Scheduler::RemoveNext says: it removes the
\* earliest event of the list.
RemovesEarliest == [][last' # last => IsEarliest(last', pending)]_lvars
=============================================================================
