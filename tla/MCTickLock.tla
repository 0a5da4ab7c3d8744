----------------------------- MODULE MCTickLock -----------------------------
(***************************************************************************)
(* Small instances of TickLock for TLC.                                    *)
(***************************************************************************)
EXTENDS TickLock, TLC

TickSymmetry == Permutations(Ticks)
=============================================================================
