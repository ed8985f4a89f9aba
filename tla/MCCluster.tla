------------------------------ MODULE MCCluster ------------------------------
(***************************************************************************)
(* Small instances of Cluster for TLC.                                     *)
(***************************************************************************)
EXTENDS Cluster

O == INSTANCE Options

Ask(reclaim, snapshot) ==
    [size |-> 10, type |-> "pd-balanced", fs |-> "ext4", labels |-> O!NoLabels,
     sourceSnapshot |-> "", sourceImage |-> "",
     snapshotOnRemove |-> snapshot, reclaimPolicy |-> reclaim]

AskAny == {Ask("retain", FALSE), Ask("delete", FALSE), Ask("delete", TRUE)}

EmptyZone == {NoDisk}
=============================================================================
