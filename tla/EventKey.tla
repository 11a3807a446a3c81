------------------------------ MODULE EventKey ------------------------------
(***************************************************************************)
(* The order in which events are due: Scheduler::EventKey and its          *)
(* operator<, shared by the kernel and by every event list.                *)
(* A key is any record with the fields ts (time stamp) and uid.            *)
(***************************************************************************)
EXTENDS Naturals

\* By time stamp; events of the same time stamp by uid.
Less(a, b) == \/ a.ts < b.ts
              \/ a.ts = b.ts /\ a.uid < b.uid

\* ev is the next event of the list S: nothing in S sorts before it.
IsEarliest(ev, S) == ev \in S /\ \A f \in S : ~Less(f, ev)
=============================================================================
