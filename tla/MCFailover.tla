----------------------------- MODULE MCFailover -----------------------------
(***************************************************************************)
(* Small instances of Failover for TLC.                                    *)
(***************************************************************************)
EXTENDS Failover
=============================================================================
