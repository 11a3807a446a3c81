---------------------------- MODULE MCVisualizer ----------------------------
(***************************************************************************)
(* Values for the constants of Visualizer in the TLC runs.                 *)
(***************************************************************************)
EXTENDS Visualizer

MCPeriods == {1, 2}
=============================================================================
