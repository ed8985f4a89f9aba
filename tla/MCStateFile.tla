----------------------------- MODULE MCStateFile -----------------------------
(***************************************************************************)
(* Small instances of StateFile for TLC.                                   *)
(***************************************************************************)
EXTENDS StateFile
=============================================================================
