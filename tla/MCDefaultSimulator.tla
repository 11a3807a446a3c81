------------------------ MODULE MCDefaultSimulator ------------------------
(***************************************************************************)
(* Values for the constants of DefaultSimulator in the TLC runs.           *)
(***************************************************************************)
EXTENDS DefaultSimulator

CONSTANT n1
MCNodes == {n1}
MCDelays == {0, 1}
=============================================================================
