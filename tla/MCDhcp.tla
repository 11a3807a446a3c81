------------------------------- MODULE MCDhcp -------------------------------
(***************************************************************************)
(* Values for the constants of Dhcp in the TLC runs.                       *)
(***************************************************************************)
EXTENDS Dhcp, TLC

CONSTANTS c1, c2, c3, a1

MCClient == {c1, c2}
MCOther == {c3}
MCOne == <<a1>>
ClientSymmetry == Permutations(MCClient)
MCNoStatic == [c \in {} |-> a1]
MCStatic == [c \in {c1} |-> a1]
=============================================================================
