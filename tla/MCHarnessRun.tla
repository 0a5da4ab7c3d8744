---------------------------- MODULE MCHarnessRun ----------------------------
(***************************************************************************)
(* A small instance of HarnessRun for TLC.                                 *)
(***************************************************************************)
EXTENDS HarnessRun
=============================================================================
