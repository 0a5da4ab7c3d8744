------------------------- MODULE MCRunRegistration -------------------------
(***************************************************************************)
(* A small instance of RunRegistration for TLC.                            *)
(***************************************************************************)
EXTENDS RunRegistration
=============================================================================
