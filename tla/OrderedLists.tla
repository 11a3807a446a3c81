---------------------------- MODULE OrderedLists ----------------------------
(***************************************************************************)
(* ListScheduler and MapScheduler side by side, given the same calls by a  *)
(* client that keeps its side of the contract of Scheduler.  Both keep     *)
(* that contract, and both hand out the same events: which of the two the  *)
(* program picks with SetScheduler changes nothing it can observe.         *)
(***************************************************************************)
EXTENDS SortedList

VARIABLES
    list,  \* ListScheduler::m_events
    map,   \* MapScheduler::m_list
    last   \* the key of the event last taken

ovars == <<list, map, last>>

Key == [ts : Nat, uid : Nat]

Entries(s) == {s[i] : i \in DOMAIN s}

Init == /\ list = <<>>
        /\ map = {}
        /\ last = [ts |-> 0, uid |-> 0]

Insert(ev) ==
    /\ Less(last, ev)
    /\ \A f \in map : f.uid # ev.uid
    /\ list' = SortedInsert(list, ev)
    /\ map' = map \cup {ev}
    /\ UNCHANGED last

\* The event the list takes is the one the client sees.
RemoveNext ==
    /\ list # <<>>
    /\ list' = Tail(list)
    /\ map' = map \ {Begin(map)}
    /\ last' = Head(list)

Remove(ev) ==
    /\ list' = SortedRemove(list, ev)
    /\ map' = map \ {ev}
    /\ UNCHANGED last

Next == \/ \E ev \in Key : Insert(ev)
        \/ RemoveNext
        \/ \E ev \in map : Remove(ev)

Spec == Init /\ [][Next]_ovars
-----------------------------------------------------------------------------
(* Properties. *)

\* Both hold the same events, the list in order, and no two of one uid: what
\* the list relies on when it removes by uid and when it takes its front.
Agree == /\ list \in Seq(Key)
         /\ last \in Key
         /\ IsSorted(list)
         /\ \A i, j \in DOMAIN list : list[i].uid = list[j].uid => i = j
         /\ map = Entries(list)

\* The front of the list is the first entry of the map.
SameNext == list # <<>> => Head(list) = Begin(map)

Contract == INSTANCE Scheduler WITH queue <- map
=============================================================================
