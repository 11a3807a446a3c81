---------------------------- MODULE MCTestRunner ----------------------------
(***************************************************************************)
(* Values for the constants of TestRunner in the TLC runs.                 *)
(***************************************************************************)
EXTENDS TestRunner

MCSkipped == {2}
MCExamples == {3}
=============================================================================
