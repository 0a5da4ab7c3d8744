--------------------------- MODULE MCPhaseRecovery ---------------------------
(***************************************************************************)
(* Small instances of PhaseRecovery for TLC.                               *)
(***************************************************************************)
EXTENDS PhaseRecovery, TLC

CONSTANTS clean, edited, unsafe

DaemonSymmetry == Permutations(Daemons)
=============================================================================
