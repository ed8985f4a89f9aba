------------------------------ MODULE Options ------------------------------
(***************************************************************************)
(* The options of `docker volume create`, as parsed, stored and turned into *)
(* the labels of a disk (internal/gce/options.go, internal/driver).         *)
(*                                                                         *)
(* A Go label map is a total function on the keys in play, with NoLabel     *)
(* where the map has no entry.                                             *)
(***************************************************************************)
EXTENDS Naturals

CONSTANTS
    Sizes,              \* disk sizes in GiB
    DiskTypes,          \* pd-standard, pd-balanced, ...
    FSTypes,            \* ext4, xfs
    Sources,            \* snapshots and images a disk may be created from
    UserLabelKeys,      \* label keys of the users, besides the plugin's own
    UserLabelValues     \* label values of the users

ManagedByLabelKey == "managed-by"
ManagedByLabelValue == "docker-gcepd"
DeletingLabelKey == "gcepd-deleting"
NoLabel == "no label"

LabelKeys == {ManagedByLabelKey, DeletingLabelKey} \cup UserLabelKeys
LabelValues == {ManagedByLabelValue, "true", ""} \cup UserLabelValues
Labels == [LabelKeys -> LabelValues \cup {NoLabel}]

ASSUME OptionsAssumption ==
    /\ "ext4" \in FSTypes
    /\ "" \notin Sources
    /\ NoLabel \notin UserLabelValues

\* No entry at all.
NoLabels == [k \in LabelKeys |-> NoLabel]

DiskOptions ==
    [size : Sizes, type : DiskTypes, fs : FSTypes, labels : Labels,
     sourceSnapshot : Sources \cup {""}, sourceImage : Sources \cup {""},
     snapshotOnRemove : BOOLEAN, reclaimPolicy : {"retain", "delete"}]

\* What ParseDiskOptions can return: managed-by is reserved, the two sources
\* exclude each other.
ParsedOptions ==
    {o \in DiskOptions :
        /\ o.labels[ManagedByLabelKey] = NoLabel
        /\ o.sourceSnapshot = "" \/ o.sourceImage = ""}

\* The labels of the Insert request: the user's, and managed-by.
EffectiveLabels(o) ==
    [o.labels EXCEPT ![ManagedByLabelKey] = ManagedByLabelValue]

\* The options startup reconciliation gives to a disk it finds in GCE.
ImportedOptions(size, type, labels) ==
    [size |-> size, type |-> type, fs |-> "ext4", labels |-> labels,
     sourceSnapshot |-> "", sourceImage |-> "",
     snapshotOnRemove |-> FALSE, reclaimPolicy |-> "retain"]
=============================================================================
