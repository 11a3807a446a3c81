------------------------------ MODULE HeapSteps ------------------------------
(***************************************************************************)
(* ns3::HeapScheduler with the loops of BottomUp and TopDown taken step by *)
(* step, for a client that keeps its side of the contract of Scheduler.    *)
(* No recursion is needed here, so that the heap can be proved about.      *)
(***************************************************************************)
EXTENDS BinaryHeap

VARIABLES
    heap,     \* m_heap
    index,    \* the loop variable of BottomUp and TopDown
    sifting,  \* the loop that runs: "up", "down" or "none"
    taken,    \* the key of the event last taken
    waiting   \* History: the events inserted and not yet taken or removed

hvars == <<heap, index, sifting, taken, waiting>>

HeapInit == /\ heap = <<>>
            /\ index = 1 /\ sifting = "none"
            /\ taken = [ts |-> 0, uid |-> 0]
            /\ waiting = {}

InsertEvent(ev) ==
    /\ sifting = "none"
    /\ Less(taken, ev) /\ \A f \in waiting : f.uid # ev.uid
    /\ heap' = Append(heap, ev)
    /\ index' = Len(heap) + 1 /\ sifting' = "up"
    /\ waiting' = waiting \cup {ev}
    /\ UNCHANGED taken

\* The root is taken, the last element comes in its place and sinks.
TakeRoot ==
    /\ sifting = "none" /\ heap # <<>>
    /\ taken' = heap[1]
    /\ heap' = Pop(Exch(heap, 1, Len(heap)))
    /\ index' = 1 /\ sifting' = "down"
    /\ waiting' = waiting \ {taken'}

RemoveAt(i) ==
    /\ sifting = "none"
    /\ heap' = Pop(Exch(heap, i, Len(heap)))
    /\ index' = i /\ sifting' = "down"
    /\ waiting' = waiting \ {heap[i]}
    /\ UNCHANGED taken

\* Once around the loop of BottomUp.
Rise == /\ sifting = "up"
        /\ IF MayRise(heap, index)
             THEN /\ heap' = Exch(heap, index, Parent(index))
                  /\ index' = Parent(index)
                  /\ UNCHANGED sifting
             ELSE /\ sifting' = "none"
                  /\ UNCHANGED <<heap, index>>
        /\ UNCHANGED <<taken, waiting>>

\* Once around the loop of TopDown.
Sink == /\ sifting = "down"
        /\ IF MaySink(heap, index)
             THEN /\ heap' = Exch(heap, index, Child(heap, index))
                  /\ index' = Child(heap, index)
                  /\ UNCHANGED sifting
             ELSE /\ sifting' = "none"
                  /\ UNCHANGED <<heap, index>>
        /\ UNCHANGED <<taken, waiting>>

HeapNext == \/ \E ts, uid \in Nat : InsertEvent([ts |-> ts, uid |-> uid])
            \/ TakeRoot
            \/ \E i \in DOMAIN heap : RemoveAt(i)
            \/ Rise
            \/ Sink

HeapSpec == HeapInit /\ [][HeapNext]_hvars
-----------------------------------------------------------------------------
(* Properties. *)

\* The heap holds the events inserted and neither taken nor removed, each
\* once, in the middle of a loop as well.
HoldsWaiting ==
    /\ {heap[i] : i \in DOMAIN heap} = waiting
    /\ \A i, j \in DOMAIN heap : heap[i].uid = heap[j].uid => i = j

\* Between two calls the vector is a heap.
RestsOrdered == sifting = "none" => IsHeap(heap)

\* A removal after which the element moved would have to rise: Remove does not
\* see to that.
MustRise(i) == /\ i \notin {1, Len(heap)}
               /\ Less(heap[Len(heap)], heap[Parent(i)])

NoneMustRise == \A i \in DOMAIN heap : RemoveAt(i) => ~MustRise(i)

HeapContract == INSTANCE Scheduler WITH queue <- waiting, last <- taken
=============================================================================
