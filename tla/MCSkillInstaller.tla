------------------------- MODULE MCSkillInstaller -------------------------
(***************************************************************************)
(* A small instance of SkillInstaller for TLC.                             *)
(***************************************************************************)
EXTENDS SkillInstaller
=============================================================================
