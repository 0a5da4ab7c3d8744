---------------------------- MODULE MCProjectTick ----------------------------
(***************************************************************************)
(* Small instances of ProjectTick for TLC.                                 *)
(***************************************************************************)
EXTENDS ProjectTick, TLC

IssueSymmetry == Permutations(Issues)
=============================================================================
