--------------------------- MODULE MCPointToPoint ---------------------------
(***************************************************************************)
(* Values for the constants of PointToPoint in the TLC runs.               *)
(***************************************************************************)
EXTENDS PointToPoint

MCSizeOf == <<2, 1, 1, 2, 1>>
=============================================================================
