---------------------------- MODULE HeapScheduler ----------------------------
(***************************************************************************)
(* ns3::HeapScheduler: a binary heap in a vector, each operation in one.   *)
(***************************************************************************)
EXTENDS BinaryHeap

RECURSIVE BottomUp(_, _)
BottomUp(h, i) ==
    IF MayRise(h, i) THEN BottomUp(Exch(h, i, Parent(i)), Parent(i)) ELSE h

RECURSIVE TopDown(_, _)
TopDown(h, i) ==
    IF MaySink(h, i) THEN TopDown(Exch(h, i, Child(h, i)), Child(h, i)) ELSE h

HeapInsert(h, ev) == BottomUp(Append(h, ev), Len(h) + 1)

\* The element last in the vector takes the place of the root and sinks.
\* A bug: it stays there.
HeapRemoveNextNoSink(h) == Pop(Exch(h, 1, Len(h)))
HeapRemoveNext(h) == TopDown(Pop(Exch(h, 1, Len(h))), 1)

\* The element last in the vector takes the place of ev.  It sinks if it is
\* too late for that place; it does not rise if it is too early.
HeapRemove(h, ev) ==
    LET i == CHOOSE j \in DOMAIN h : h[j].uid = ev.uid
    IN TopDown(Pop(Exch(h, i, Len(h))), i)
=============================================================================
