----------------------------- MODULE BinaryHeap -----------------------------
(***************************************************************************)
(* The vector of ns3::HeapScheduler as a binary tree.  The code leaves     *)
(* element 0 unused, so that the indices are those of a sequence.          *)
(***************************************************************************)
EXTENDS Naturals, Sequences, EventKey

Parent(i)     == i \div 2
LeftChild(i)  == 2 * i
RightChild(i) == 2 * i + 1

Exch(h, a, b) == [h EXCEPT ![a] = h[b], ![b] = h[a]]
Pop(h)        == SubSeq(h, 1, Len(h) - 1)

IsLessStrictly(h, a, b) == Less(h[a], h[b])
Smallest(h, a, b) == IF IsLessStrictly(h, a, b) THEN a ELSE b

\* The child an element changes places with when it sinks.
Child(h, i) == IF RightChild(i) > Len(h) THEN LeftChild(i)
               ELSE Smallest(h, LeftChild(i), RightChild(i))

\* Whether the loops of BottomUp and TopDown go on.
MayRise(h, i) == i # 1 /\ IsLessStrictly(h, i, Parent(i))
MaySink(h, i) == LeftChild(i) <= Len(h) /\ ~IsLessStrictly(h, i, Child(h, i))

IsHeap(h) == \A i \in 2..Len(h) : ~IsLessStrictly(h, i, Parent(i))
=============================================================================
