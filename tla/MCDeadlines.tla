---------------------------- MODULE MCDeadlines ----------------------------
(***************************************************************************)
(* Instances of Deadlines for TLC, in units of ten seconds: the timeouts    *)
(* have the proportions they have in the code.                             *)
(***************************************************************************)
EXTENDS Deadlines
=============================================================================
