---------------------------- MODULE MCEventLists ----------------------------
(***************************************************************************)
(* Values for the constants of EventLists in the TLC runs.                 *)
(***************************************************************************)
EXTENDS EventLists

AllKinds  == {"map", "list", "heap", "calendar"}
HeapOnly  == {"heap"}
FewDelays == {0, 1, 5}
=============================================================================
