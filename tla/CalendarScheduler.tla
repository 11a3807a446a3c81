-------------------------- MODULE CalendarScheduler --------------------------
(***************************************************************************)
(* ns3::CalendarScheduler: a calendar queue, each operation in one.  The   *)
(* number of buckets doubles and halves with the number of events, and     *)
(* each time the width of a day is estimated anew.                         *)
(***************************************************************************)
EXTENDS Calendar

\* The first n events, as repeated calls of DoRemoveNext find them.
RECURSIVE Samples(_, _)
Samples(c, n) == IF n = 0 THEN <<>>
                 ELSE <<PeekNext(c)>> \o Samples(DoRemoveNext(c), n - 1)

\* Three times the sum of the gaps between the samples, the gaps of more than
\* twice the average left out.  Taking the samples and putting them back
\* leaves the calendar as it was: Restored of CalendarSteps, which is proved.
CalculateNewWidth(c) ==
    LET n    == NSamples(c)
        s    == Samples(c, n)
        gap  == [i \in 1..(n - 1) |-> s[i + 1].ts - s[i].ts]
        mean == SE!FoldSeq(+, 0, gap) \div (n - 1)
        near == SelectSeq(gap, LAMBDA g : g <= 2 * mean)
    IN IF c.qSize < 2 THEN 1 ELSE Max({3 * SE!FoldSeq(+, 0, near), 1})

\* Everything is dealt again to newSize buckets.
Resize(c, newSize) ==
    LET empty == NewCalendar(newSize, CalculateNewWidth(c), c.lastPrio, c.qSize)
        all   == SE!FlattenSeq([i \in 1..NBuckets(c) |-> c.buckets[i - 1]])
    IN SE!FoldLeft(DoInsert, empty, all)

\* A bug: the calendar grows by one bucket.
ResizeUpByOne(c) ==
    IF c.qSize > 2 * NBuckets(c) /\ NBuckets(c) < MaxBuckets
      THEN Resize(c, NBuckets(c) + 1) ELSE c
ResizeUp(c) ==
    IF c.qSize > 2 * NBuckets(c) /\ NBuckets(c) < MaxBuckets
      THEN Resize(c, 2 * NBuckets(c)) ELSE c

ResizeDown(c) ==
    IF c.qSize < NBuckets(c) \div 2 THEN Resize(c, NBuckets(c) \div 2) ELSE c

CalendarInsert(c, ev) == ResizeUp([DoInsert(c, ev) EXCEPT !.qSize = @ + 1])

CalendarRemoveNext(c) == ResizeDown([DoRemoveNext(c) EXCEPT !.qSize = @ - 1])

\* A bug: the size is left alone.
CalendarRemoveNoCount(c, ev) ==
    ResizeDown([c EXCEPT !.buckets[Hash(c, ev.ts)] = SortedRemove(@, ev)])
CalendarRemove(c, ev) ==
    ResizeDown([c EXCEPT !.buckets[Hash(c, ev.ts)] = SortedRemove(@, ev),
                         !.qSize = @ - 1])
=============================================================================
