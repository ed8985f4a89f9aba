------------------------------ MODULE Compute ------------------------------
(***************************************************************************)
(* The disks of one zone as the Compute Engine API shows them, and the      *)
(* steps of the client in internal/gce that read and change them.           *)
(*                                                                         *)
(* A call is atomic.  Its outcomes are a set of records: the disk after the *)
(* call, and whether the client saw it succeed.  "error" is a call that     *)
(* fails without effect (a quota, a 5xx until the retries run out, the      *)
(* context's deadline), "lost" one that takes effect although the client    *)
(* gets an error (a lost reply, or a deadline that passes in waitOp).       *)
(***************************************************************************)
EXTENDS Options

CONSTANTS
    Instances,      \* the VMs of the zone
    nobody,         \* the user of a disk no VM has attached
    NoDisk,         \* no disk of that name in the zone
    ApiFaults       \* the faults of API calls, a subset of {"error", "lost"}

\* snapped: a snapshot of this very disk was taken on its way to deletion.
Disk == [size : Sizes, type : DiskTypes, labels : Labels,
         user : Instances \cup {nobody}, snapped : BOOLEAN]

ASSUME ComputeAssumption ==
    /\ nobody \notin Instances
    /\ NoDisk \notin Disk
    /\ ApiFaults \subseteq {"error", "lost"}

Managed(d) == d.labels[ManagedByLabelKey] = ManagedByLabelValue
Deleting(d) == d.labels[DeletingLabelKey] = "true"
Attached(d) == d.user # nobody

\* The disk that Insert makes of the request's options.
NewDisk(o) ==
    [size |-> o.size, type |-> o.type, labels |-> EffectiveLabels(o),
     user |-> nobody, snapped |-> FALSE]

Mark(d) == [d EXCEPT !.labels[DeletingLabelKey] = "true"]

Failed(d) == [disk |-> d, ok |-> FALSE]

\* The outcomes of a call that turns d into e when nothing goes wrong.
Outcomes(d, e) ==
    {[disk |-> e, ok |-> TRUE]}
        \cup (IF "error" \in ApiFaults THEN {Failed(d)} ELSE {})
        \cup (IF "lost" \in ApiFaults THEN {Failed(e)} ELSE {})

\* Get: a 404 is NoDisk with ok, as ErrDiskNotFound is no failure of the call.
GetCall(d) == Outcomes(d, d)

\* Insert: 409 when the name is taken.
InsertCall(d, o) == IF d = NoDisk THEN Outcomes(d, NewDisk(o)) ELSE {Failed(d)}

\* AttachDisk: only a disk nobody uses can be attached read-write.
AttachCall(d, i) ==
    IF d = NoDisk \/ Attached(d) THEN {Failed(d)}
    ELSE Outcomes(d, [d EXCEPT !.user = i])

\* DetachDisk of the disk from instance i.
DetachCall(d, i) ==
    IF d = NoDisk \/ d.user # i THEN {Failed(d)}
    ELSE Outcomes(d, [d EXCEPT !.user = nobody])

\* CreateSnapshot.
SnapshotCall(d) ==
    IF d = NoDisk THEN {Failed(d)} ELSE Outcomes(d, [d EXCEPT !.snapped = TRUE])

\* Get followed by SetLabels with the fingerprint it returned.  The caller
\* found the disk unmarked: when it is marked by now, another marking came
\* before the Get (and this one changes nothing) or after it (412).
MarkCall(d) ==
    IF d = NoDisk THEN {Failed(d)}
    ELSE Outcomes(d, Mark(d)) \cup (IF Deleting(d) THEN {Failed(d)} ELSE {})

(***************************************************************************)
(* DeleteDisk, one call at a time.  Each operator is the set of pairs of    *)
(* the disk after the call and the call DeleteDisk makes next; "idle" when   *)
(* it returns, whatever it returns: no caller looks at more than the log.   *)
(***************************************************************************)
DeleteSteps == {"delGet", "delMark", "delSnapshot", "delDelete"}

AfterMark(snapshotFirst) == IF snapshotFirst THEN "delSnapshot" ELSE "delDelete"

\* A deletion that goes straight to the slow work.
DeleteGet_NeverMarks(d, snapshotFirst) ==
    {[disk |-> d,
      next |-> IF ~r.ok \/ r.disk = NoDisk \/ Attached(r.disk) THEN "idle"
               ELSE AfterMark(snapshotFirst)] : r \in GetCall(d)}

DeleteGet(d, snapshotFirst) ==
    {[disk |-> d,
      next |-> IF ~r.ok \/ r.disk = NoDisk \/ Attached(r.disk) THEN "idle"
               ELSE IF Deleting(r.disk) THEN AfterMark(snapshotFirst)
               ELSE "delMark"] : r \in GetCall(d)}

DeleteMark(d, snapshotFirst) ==
    {[disk |-> r.disk, next |-> IF r.ok THEN AfterMark(snapshotFirst) ELSE "idle"]
        : r \in MarkCall(d)}

\* A deletion for which the snapshot is best effort.
DeleteSnapshot_IgnoresFailure(d) ==
    {[disk |-> r.disk, next |-> "delDelete"] : r \in SnapshotCall(d)}

DeleteSnapshot(d) ==
    {[disk |-> r.disk, next |-> IF r.ok THEN "delDelete" ELSE "idle"]
        : r \in SnapshotCall(d)}

\* The Delete call.  A lost reply may be retried: the next attempt finds a 404,
\* or whatever disk has got the name by then.
DeleteDelete(d) ==
    IF d = NoDisk \/ Attached(d) THEN {[disk |-> d, next |-> "idle"]}
    ELSE {[disk |-> r.disk, next |-> "idle"] : r \in Outcomes(d, NoDisk)}
            \cup (IF "lost" \in ApiFaults
                  THEN {[disk |-> NoDisk, next |-> "delDelete"]} ELSE {})

DeleteDisk(d, step, snapshotFirst) ==
    CASE step = "delGet" -> DeleteGet(d, snapshotFirst)
      [] step = "delMark" -> DeleteMark(d, snapshotFirst)
      [] step = "delSnapshot" -> DeleteSnapshot(d)
      [] step = "delDelete" -> DeleteDelete(d)
=============================================================================
