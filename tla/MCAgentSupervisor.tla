------------------------- MODULE MCAgentSupervisor -------------------------
(***************************************************************************)
(* Small instances of AgentSupervisor for TLC.                             *)
(***************************************************************************)
EXTENDS AgentSupervisor, TLC

CONSTANTS clean, edited, unsafe

DaemonSymmetry == Permutations(Daemons)
=============================================================================
