------------------------------ MODULE MCDriver ------------------------------
(***************************************************************************)
(* Small instances of Driver for TLC.                                      *)
(***************************************************************************)
EXTENDS Driver, TLC

\* The options of `docker volume create` with the flags the runs need.
Ask(reclaim, snapshot) ==
    [size |-> 10, type |-> "pd-balanced", fs |-> "ext4", labels |-> NoLabels,
     sourceSnapshot |-> "", sourceImage |-> "",
     snapshotOnRemove |-> snapshot, reclaimPolicy |-> reclaim]

\* The default, a volume to delete, one to snapshot and delete.
AskRetain == Ask("retain", FALSE)
AskDelete == Ask("delete", FALSE)
AskSnapshot == Ask("delete", TRUE)

OneRequest == {AskDelete}
TwoRequests == {AskRetain, AskDelete}
ThreeRequests == {AskRetain, AskDelete, AskSnapshot}

\* A disk of somebody else's, in size and type like those of the plugin.
ForeignDisk ==
    [size |-> 10, type |-> "pd-balanced", labels |-> NoLabels,
     user |-> nobody, snapped |-> FALSE]

EmptyZone == {NoDisk}
MixedZone == {NoDisk, ForeignDisk}
=============================================================================
