------------------------------ MODULE Scheduler ------------------------------
(***************************************************************************)
(* What ns3::Scheduler promises and what it may ask of its client: the     *)
(* event list as a set of keys, and the last event it handed out.          *)
(*                                                                         *)
(* The contract has two sides.  The client inserts only events that sort   *)
(* after the last one handed out, each with a uid of its own, and removes  *)
(* only events of the list (CalendarScheduler relies on the first,         *)
(* MapScheduler asserts the second).  In return RemoveNext hands out the   *)
(* earliest event.  The event lists of EventLists and the simulator of     *)
(* DefaultSimulator are both shown to implement this module.               *)
(***************************************************************************)
EXTENDS EventKey

VARIABLES
    queue,  \* the events inserted and not yet removed
    last    \* the key last handed out by RemoveNext

svars == <<queue, last>>

Init == /\ queue = {}
        /\ last = [ts |-> 0, uid |-> 0]

Insert == \E ev \in queue' \ queue :
    /\ queue' = queue \cup {ev}
    /\ Less(last, ev)
    /\ \A q \in queue : q.uid # ev.uid
    /\ UNCHANGED last

RemoveNext == \E ev \in queue :
    /\ IsEarliest(ev, queue)
    /\ queue' = queue \ {ev}
    /\ last' = [ts |-> ev.ts, uid |-> ev.uid]

Remove == \E ev \in queue :
    /\ queue' = queue \ {ev}
    /\ UNCHANGED last

Next == Insert \/ RemoveNext \/ Remove

Spec == Init /\ [][Next]_svars
=============================================================================
