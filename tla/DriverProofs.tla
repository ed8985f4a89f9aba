---------------------------- MODULE DriverProofs ----------------------------
(***************************************************************************)
(* Theorems about Driver, for every set of names, VMs, requests, faults.    *)
(***************************************************************************)
EXTENDS Driver, TLAPS

(***************************************************************************)
(* The invariants.                                                         *)
(***************************************************************************)
\* Nothing runs while the plugin is down, no operation before it serves.
PhaseInv ==
    /\ phase = "down" => jobs = NoJobs
    /\ phase # "serving" => op = NoOp

(***************************************************************************)
(* The calls of the API and the steps of DeleteDisk.                       *)
(***************************************************************************)
MaybeDisk == Disk \cup {NoDisk}

LEMMA OutcomeIs ==
    ASSUME NEW d, NEW e, NEW r \in Outcomes(d, e)
    PROVE  r.disk \in {d, e}
BY DEF Outcomes, Failed

LEMMA OutcomeType ==
    ASSUME NEW d \in MaybeDisk, NEW e \in MaybeDisk, NEW r \in Outcomes(d, e)
    PROVE  r.disk \in MaybeDisk
BY OutcomeIs

LEMMA EmptyLabels == NoLabels \in Labels
BY DEF NoLabels, Labels

\* The disk of a request carries the plugin's label, and its mark only if the
\* request asks for it.
LEMMA NewDiskIs ==
    ASSUME NEW o \in DiskOptions
    PROVE  /\ NewDisk(o) \in Disk
           /\ Managed(NewDisk(o))
           /\ Deleting(NewDisk(o)) <=> o.labels[DeletingLabelKey] = "true"
<1>1. o.labels \in Labels /\ o.size \in Sizes /\ o.type \in DiskTypes
  BY DEF DiskOptions
<1>2. /\ EffectiveLabels(o) \in Labels
      /\ EffectiveLabels(o)[ManagedByLabelKey] = ManagedByLabelValue
      /\ EffectiveLabels(o)[DeletingLabelKey] = o.labels[DeletingLabelKey]
  BY <1>1 DEF EffectiveLabels, Labels, LabelKeys, LabelValues, ManagedByLabelKey,
              ManagedByLabelValue, DeletingLabelKey
<1> QED
  BY <1>1, <1>2 DEF NewDisk, Disk, Managed, Deleting

\* A mark changes the mark.
LEMMA MarkIs ==
    ASSUME NEW d \in Disk
    PROVE  /\ Mark(d) \in Disk
           /\ Mark(d).user = d.user
           /\ Managed(Mark(d)) <=> Managed(d)
           /\ Deleting(Mark(d))
<1> DEFINE l == [d.labels EXCEPT ![DeletingLabelKey] = "true"]
<1>1. d.labels \in Labels BY DEF Disk
<1>2. /\ l \in Labels
      /\ l[DeletingLabelKey] = "true"
      /\ l[ManagedByLabelKey] = d.labels[ManagedByLabelKey]
  BY <1>1 DEF Labels, LabelKeys, LabelValues, ManagedByLabelKey, DeletingLabelKey
<1>3. Mark(d) = [d EXCEPT !.labels = l]
  BY DEF Mark
<1> QED
  BY <1>2, <1>3 DEF Disk, Managed, Deleting

\* What a step of DeleteDisk does to a disk, and which step may come next.
LEMMA DeleteDiskIs ==
    ASSUME NEW d \in MaybeDisk, NEW step \in DeleteSteps, NEW snap \in BOOLEAN,
           NEW r \in DeleteDisk(d, step, snap)
    PROVE  /\ r.disk \in MaybeDisk
           /\ r.next \in DeleteSteps \cup {"idle"}
           /\ d = NoDisk => r.disk = NoDisk
           /\ d # NoDisk /\ r.disk = NoDisk => step = "delDelete" /\ ~Attached(d)
           /\ r.disk # NoDisk =>
                 /\ r.disk.user = d.user
                 /\ Managed(r.disk) <=> Managed(d)
                 /\ Deleting(d) => Deleting(r.disk)
           /\ r.next \in {"delSnapshot", "delDelete"} /\ r.disk # NoDisk =>
                 Deleting(r.disk) \/ step \in {"delSnapshot", "delDelete"}
<1> USE ComputeAssumption
<1>1. CASE step = "delGet"
  <2>1. r.disk = d /\ r.next \in {"idle", "delMark", "delSnapshot", "delDelete"}
    BY <1>1 DEF DeleteDisk, DeleteGet, AfterMark
  <2>2. r.next \in {"delSnapshot", "delDelete"} => Deleting(r.disk)
    BY <1>1, OutcomeIs DEF DeleteDisk, DeleteGet, GetCall
  <2> QED
    BY <1>1, <2>1, <2>2 DEF DeleteSteps
<1>2. CASE step = "delMark"
  <2>1. PICK q \in MarkCall(d) :
          /\ r.disk = q.disk
          /\ r.next = IF q.ok THEN AfterMark(snap) ELSE "idle"
    BY <1>2 DEF DeleteDisk, DeleteMark
  <2>2. CASE d = NoDisk
    <3>1. q.disk = d /\ ~q.ok
      BY <2>2 DEF MarkCall, Failed
    <3> QED
      BY <1>2, <2>1, <2>2, <3>1
  <2>3. CASE d # NoDisk
    <3>1. q.disk \in {d, Mark(d)} /\ (q.ok => q.disk = Mark(d))
      BY <2>3 DEF MarkCall, Failed, Outcomes
    <3>2. d \in Disk /\ Mark(d) \in Disk /\ Mark(d) # NoDisk
      BY <2>3, MarkIs DEF MaybeDisk
    <3>3. r.next \in {"idle", "delSnapshot", "delDelete"}
      BY <2>1 DEF AfterMark
    <3> QED
      BY <1>2, <2>1, <2>3, <3>1, <3>2, <3>3, MarkIs DEF MaybeDisk, DeleteSteps
  <2> QED
    BY <2>2, <2>3
<1>3. CASE step = "delSnapshot"
  <2> DEFINE e == [d EXCEPT !.snapped = TRUE]
  <2>1. PICK q \in SnapshotCall(d) :
          r.disk = q.disk /\ r.next = IF q.ok THEN "delDelete" ELSE "idle"
    BY <1>3 DEF DeleteDisk, DeleteSnapshot
  <2>2. CASE d = NoDisk
    <3>1. q.disk = d
      BY <2>2 DEF SnapshotCall, Failed
    <3> QED
      BY <1>3, <2>1, <2>2, <3>1 DEF DeleteSteps
  <2>3. CASE d # NoDisk
    <3>1. q.disk \in {d, e}
      BY <2>3, OutcomeIs DEF SnapshotCall
    <3>2. d \in Disk /\ e \in Disk /\ e.user = d.user /\ e.labels = d.labels
      BY <2>3 DEF MaybeDisk, Disk
    <3> QED
      BY <1>3, <2>1, <2>3, <3>1, <3>2 DEF MaybeDisk, DeleteSteps, Managed, Deleting
  <2> QED
    BY <2>2, <2>3
<1>4. CASE step = "delDelete"
  <2>1. /\ r.disk \in {d, NoDisk} /\ r.next \in {"idle", "delDelete"}
        /\ d # NoDisk /\ r.disk = NoDisk => ~Attached(d)
    <3>1. CASE d = NoDisk \/ Attached(d)
      BY <1>4, <3>1 DEF DeleteDisk, DeleteDelete
    <3>2. CASE ~(d = NoDisk \/ Attached(d))
      BY <1>4, <3>2, OutcomeIs DEF DeleteDisk, DeleteDelete
    <3> QED
      BY <3>1, <3>2
  <2> QED
    BY <1>4, <2>1 DEF MaybeDisk, DeleteSteps
<1> QED
  BY <1>1, <1>2, <1>3, <1>4 DEF DeleteSteps

(***************************************************************************)
(* The store.                                                              *)
(***************************************************************************)
LEMMA SavedIs ==
    ASSUME NEW m, NEW w \in Saved(m)
    PROVE  w.file \in {m, file} /\ (w.ok => w.file = m)
BY DEF Saved

\* The operations keep the type of the store, those on a count when they are
\* asked for a volume that is there.
LEMMA StoreType ==
    ASSUME NEW m \in Store, NEW n \in Name
    PROVE  /\ Dropped(m, n) \in Store
           /\ \A o \in DiskOptions : Added(m, n, o) \in Store
           /\ m[n] # NoVolume =>
                 IncRef(m, n) \in Store /\ DecRef(m, n) \in Store /\ SetMounted(m, n) \in Store
           /\ AllReset(m) \in Store
           /\ EmptyStore \in Store
<1>1. Dropped(m, n) \in Store
  BY DEF Dropped, Store
<1>2. \A o \in DiskOptions : Added(m, n, o) \in Store
  BY DEF Added, Store, Volume
<1>3. ASSUME m[n] # NoVolume
      PROVE  IncRef(m, n) \in Store /\ DecRef(m, n) \in Store /\ SetMounted(m, n) \in Store
  <2>1. m[n] \in Volume BY <1>3 DEF Store
  <2>2. [m[n] EXCEPT !.ref = @ + 1] \in Volume BY <2>1 DEF Volume
  <2>3. [m[n] EXCEPT !.ref = IF @ > 0 THEN @ - 1 ELSE 0] \in Volume BY <2>1 DEF Volume
  <2>4. [m[n] EXCEPT !.ref = 1] \in Volume BY <2>1 DEF Volume
  <2> QED BY <2>2, <2>3, <2>4 DEF IncRef, DecRef, SetMounted, Store
<1>4. AllReset(m) \in Store
  <2>1. ASSUME NEW k \in Name, m[k] # NoVolume
        PROVE  [m[k] EXCEPT !.ref = 0] \in Volume
    <3>1. m[k] \in Volume BY <2>1 DEF Store
    <3> QED BY <3>1 DEF Volume
  <2> QED BY <2>1 DEF AllReset, Store
<1>5. EmptyStore \in Store
  BY DEF EmptyStore, Store
<1> QED
  BY <1>1, <1>2, <1>3, <1>4, <1>5

\* An operation on one name leaves the volumes of the others where they are.
LEMMA StoreKeeps ==
    ASSUME NEW m \in Store, NEW n \in Name, NEW k \in Name
    PROVE  /\ k # n => Dropped(m, n)[k] = m[k]
           /\ Dropped(m, n)[n] = NoVolume
           /\ \A o \in DiskOptions :
                 /\ k # n => Added(m, n, o)[k] = m[k]
                 /\ Added(m, n, o)[n] # NoVolume
           /\ m[n] # NoVolume =>
                 /\ k # n => /\ IncRef(m, n)[k] = m[k]
                             /\ DecRef(m, n)[k] = m[k]
                             /\ SetMounted(m, n)[k] = m[k]
                 /\ IncRef(m, n)[n] # NoVolume
                 /\ DecRef(m, n)[n] # NoVolume
                 /\ SetMounted(m, n)[n] # NoVolume
           /\ AllReset(m)[k] = NoVolume <=> m[k] = NoVolume
<1>1. \A o \in DiskOptions : [opts |-> o, ref |-> 0] # NoVolume
  BY DriverAssumption DEF Volume
<1>2. ASSUME m[n] # NoVolume
      PROVE  /\ IncRef(m, n)[n] # NoVolume
             /\ DecRef(m, n)[n] # NoVolume
             /\ SetMounted(m, n)[n] # NoVolume
  <2>1. m[n] \in Volume BY <1>2 DEF Store
  <2>2. [m[n] EXCEPT !.ref = @ + 1] \in Volume BY <2>1 DEF Volume
  <2>3. [m[n] EXCEPT !.ref = IF @ > 0 THEN @ - 1 ELSE 0] \in Volume BY <2>1 DEF Volume
  <2>4. [m[n] EXCEPT !.ref = 1] \in Volume BY <2>1 DEF Volume
  <2>5. IncRef(m, n)[n] \in Volume /\ DecRef(m, n)[n] \in Volume /\ SetMounted(m, n)[n] \in Volume
    BY <2>2, <2>3, <2>4 DEF IncRef, DecRef, SetMounted, Store
  <2> QED BY <2>5, DriverAssumption
<1>3. AllReset(m)[k] = NoVolume <=> m[k] = NoVolume
  <2>1. ASSUME m[k] # NoVolume
        PROVE  [m[k] EXCEPT !.ref = 0] # NoVolume
    <3>1. m[k] \in Volume BY <2>1 DEF Store
    <3>2. [m[k] EXCEPT !.ref = 0] \in Volume BY <3>1 DEF Volume
    <3> QED BY <3>2, DriverAssumption
  <2> QED BY <2>1 DEF AllReset
<1>4. /\ k # n => Dropped(m, n)[k] = m[k]
      /\ Dropped(m, n)[n] = NoVolume
      /\ \A o \in DiskOptions :
            (k # n => Added(m, n, o)[k] = m[k]) /\ Added(m, n, o)[n] # NoVolume
  BY <1>1 DEF Dropped, Added, Store
<1>5. k # n => /\ IncRef(m, n)[k] = m[k]
               /\ DecRef(m, n)[k] = m[k]
               /\ SetMounted(m, n)[k] = m[k]
  BY DEF IncRef, DecRef, SetMounted, Store
<1> QED
  BY <1>2, <1>3, <1>4, <1>5

\* What the operations do to a count.
LEMMA CountIs ==
    ASSUME NEW m \in Store, NEW n \in Name
    PROVE  /\ \A o \in DiskOptions : Added(m, n, o)[n].ref = 0
           /\ m[n] # NoVolume =>
                 /\ m[n].ref \in Nat
                 /\ IncRef(m, n)[n].ref = m[n].ref + 1
                 /\ m[n].ref > 0 => DecRef(m, n)[n].ref = m[n].ref - 1
                 /\ SetMounted(m, n)[n].ref = 1
                 /\ AllReset(m)[n].ref = 0
<1>1. m[n] # NoVolume => m[n] \in Volume
  BY DEF Store
<1> QED
  BY <1>1 DEF Added, IncRef, DecRef, SetMounted, AllReset, Store, Volume

\* What startup makes of the file, when the listed disks are there.
LEMMA ReconciledIs ==
    ASSUME NEW m \in Store, NEW names \in SUBSET Name, NEW d \in [Name -> MaybeDisk],
           \A n \in names : d[n] # NoDisk
    PROVE  /\ Reconciled(m, names, d) \in Store
           /\ \A n \in Name : n \notin names <=> Reconciled(m, names, d)[n] = NoVolume
<1>1. ASSUME NEW n \in names
      PROVE  [opts |-> ImportedOptions(d[n].size, d[n].type, d[n].labels), ref |-> 0] \in Volume
  <2>1. d[n] \in Disk BY DEF MaybeDisk
  <2>2. ImportedOptions(d[n].size, d[n].type, d[n].labels) \in DiskOptions
    BY <2>1, OptionsAssumption DEF ImportedOptions, DiskOptions, Disk
  <2> QED BY <2>2 DEF Volume
<1> QED
  BY <1>1, DriverAssumption DEF Reconciled, Store

(***************************************************************************)
(* Types, and what they rest on: which steps find a volume.                *)
(***************************************************************************)
\* The operations of Mount have a volume; so have the names left to restore.
StoreInv ==
    /\ op # NoOp /\ op.step \in MountSteps => Tracked(op.name)
    /\ phase = "restore" => \A n \in todo : Tracked(n)

BaseInv == TypeOK /\ PhaseInv /\ StoreInv

LEMMA OpSet ==
    ASSUME NEW o \in Op, NEW step \in OpSteps
    PROVE  /\ [o EXCEPT !.step = step] \in Op
           /\ [o EXCEPT !.step = step] # NoOp
           /\ [o EXCEPT !.step = step].step = step
           /\ [o EXCEPT !.step = step].name = o.name
           /\ [o EXCEPT !.step = step].opts = o.opts
BY DriverAssumption DEF Op

LEMMA OpNew ==
    ASSUME NEW n \in Name, NEW o \in DiskOptions, NEW step \in OpSteps
    PROVE  /\ [step |-> step, name |-> n, opts |-> o] \in Op
           /\ [step |-> step, name |-> n, opts |-> o] # NoOp
BY DriverAssumption DEF Op

LEMMA BaseInit == Init => BaseInv
<1> SUFFICES ASSUME Init PROVE BaseInv
  OBVIOUS
<1>1. TypeOK
  BY StoreType, DriverAssumption DEF Init, TypeOK, Mounts, Phases, Dooms, NoJobs, Idle, Job,
     EmptyStore, Store
<1> QED
  BY <1>1 DEF Init, BaseInv, PhaseInv, StoreInv

\* While an operation runs, the plugin serves, and the operation knows a name.
LEMMA OpIs ==
    ASSUME BaseInv, op # NoOp
    PROVE  /\ op \in Op /\ op.name \in Name /\ op.opts \in DiskOptions
           /\ op.step \in OpSteps
           /\ disk[op.name] \in MaybeDisk
           /\ phase = "serving"
BY DEF BaseInv, TypeOK, PhaseInv, Op, MaybeDisk

\* A call on the disk of a name is a change of the zone.
LEMMA ZoneType ==
    ASSUME TypeOK, NEW n \in Name, NEW d \in MaybeDisk, SetDisk(n, d)
    PROVE  disk' \in [Name -> MaybeDisk]
BY DEF TypeOK, SetDisk, MaybeDisk

\* What each step of an operation has to show: it goes on, or returns; it loses
\* no volume; and the variables it changes keep their types.
GoesOn ==
    \/ op' = NoOp
    \/ \E step \in OpSteps :
          /\ op' = [op EXCEPT !.step = step]
          /\ step \in MountSteps => op.step \in MountSteps

KeepsTypes ==
    /\ disk' \in [Name -> MaybeDisk]
    /\ mnt' \in [Name -> Mounts]
    /\ using' \in [Name -> Nat]
    /\ mem' \in Store
    /\ file' \in Store
    /\ jobs' = jobs
    /\ doomed' \in [Name -> Dooms]

LEMMA StepKeeps ==
    ASSUME BaseInv, op # NoOp, GoesOn, KeepsTypes, UNCHANGED <<phase, todo>>,
           \A n \in Name : mem[n] # NoVolume => mem'[n] # NoVolume
    PROVE  BaseInv'
<1>1. /\ op \in Op
      /\ phase' = "serving" /\ todo' = todo
  BY OpIs
<1>2. /\ op' \in Op \cup {NoOp}
      /\ op' # NoOp => op'.name = op.name
      /\ op' # NoOp /\ op'.step \in MountSteps => op.step \in MountSteps
  <2>1. CASE op' = NoOp
    BY <2>1
  <2>2. ASSUME NEW step \in OpSteps, op' = [op EXCEPT !.step = step],
               step \in MountSteps => op.step \in MountSteps
        PROVE  op' \in Op /\ op'.name = op.name /\ op'.step = step
    BY <1>1, <2>2, OpSet
  <2> QED
    BY <2>1, <2>2 DEF GoesOn
<1>3. TypeOK'
  BY <1>1, <1>2 DEF BaseInv, TypeOK, KeepsTypes, MaybeDisk
<1>4. StoreInv'
  BY <1>1, <1>2, OpIs DEF BaseInv, StoreInv, Tracked
<1> QED
  BY <1>1, <1>3, <1>4 DEF BaseInv, PhaseInv

LEMMA BaseStep ==
    ASSUME BaseInv, Step
    PROVE  BaseInv'
<1>0. /\ op # NoOp
      /\ op \in Op /\ op.name \in Name /\ op.opts \in DiskOptions
      /\ disk[op.name] \in MaybeDisk
  BY OpIs DEF Step, At, CreateGetDisk, CreateAdopt, CreateInsert, CreateConfirm,
     CreateAdd, CreateRollback, MountAttachGet, MountAttach, MountPrepare,
     MountMount, MountIncRef, MountUnwind, UnmountUmount, DetachGet, Detach
<1>t. /\ disk \in [Name -> MaybeDisk] /\ mnt \in [Name -> Mounts]
      /\ using \in [Name -> Nat] /\ mem \in Store /\ file \in Store
      /\ doomed \in [Name -> Dooms]
  BY DEF BaseInv, TypeOK, MaybeDisk
<1> USE <1>0 DEF At, Goto, Return
<1>1. CASE CreateGetDisk
  <2>1. GoesOn
    BY <1>1 DEF CreateGetDisk, GoesOn, OpSteps, CreateSteps, MountSteps, UnmountSteps, DeleteSteps
  <2>2. KeepsTypes
    BY <1>1, <1>t DEF CreateGetDisk, KeepsTypes
  <2>3. /\ UNCHANGED <<phase, todo>>
        /\ \A n \in Name : mem[n] # NoVolume => mem'[n] # NoVolume
    BY <1>1, <1>t, StoreKeeps DEF CreateGetDisk, Save
  <2> QED
    BY <2>1, <2>2, <2>3, StepKeeps
<1>2. CASE CreateAdopt
  <2>1. GoesOn
    BY <1>2 DEF CreateAdopt, GoesOn, OpSteps, CreateSteps, MountSteps, UnmountSteps, DeleteSteps
  <2>2. KeepsTypes
    <3>1. mem' \in Store /\ file' \in Store
      <4>1. Added(mem, op.name, op.opts) \in Store
        BY <1>t, StoreType
      <4> QED
        BY <1>2, <1>t, <4>1, SavedIs DEF CreateAdopt, Save
    <3>2. doomed' \in [Name -> Dooms]
      BY <1>2, <1>t DEF CreateAdopt, Doom, Dooms
    <3> QED
      BY <1>2, <1>t, <3>1, <3>2 DEF CreateAdopt, KeepsTypes
  <2>3. /\ UNCHANGED <<phase, todo>>
        /\ \A n \in Name : mem[n] # NoVolume => mem'[n] # NoVolume
    BY <1>2, <1>t, StoreKeeps DEF CreateAdopt, Save
  <2> QED
    BY <2>1, <2>2, <2>3, StepKeeps
<1>3. CASE CreateInsert
  <2>1. GoesOn
    BY <1>3 DEF CreateInsert, GoesOn, OpSteps, CreateSteps, MountSteps, UnmountSteps, DeleteSteps
  <2>2. KeepsTypes
    <3>1. PICK r \in InsertCall(disk[op.name], op.opts) :
            /\ SetDisk(op.name, r.disk)
            /\ Doom(op.name, IF disk[op.name] = NoDisk /\ r.disk # NoDisk
                             THEN "no" ELSE doomed[op.name])
      BY <1>3 DEF CreateInsert
    <3>2. r.disk \in MaybeDisk
      BY NewDiskIs, OutcomeIs DEF InsertCall, Failed, MaybeDisk
    <3>3. disk' \in [Name -> MaybeDisk]
      BY <3>1, <3>2, ZoneType DEF BaseInv
    <3>4. doomed' \in [Name -> Dooms]
      BY <1>t, <3>1 DEF Doom, Dooms
    <3> QED
      BY <1>3, <1>t, <3>3, <3>4 DEF CreateInsert, KeepsTypes
  <2>3. /\ UNCHANGED <<phase, todo>>
        /\ \A n \in Name : mem[n] # NoVolume => mem'[n] # NoVolume
    BY <1>3, <1>t, StoreKeeps DEF CreateInsert, Save
  <2> QED
    BY <2>1, <2>2, <2>3, StepKeeps
<1>4. CASE CreateConfirm
  <2>1. GoesOn
    BY <1>4 DEF CreateConfirm, GoesOn, OpSteps, CreateSteps, MountSteps, UnmountSteps, DeleteSteps
  <2>2. KeepsTypes
    BY <1>4, <1>t DEF CreateConfirm, KeepsTypes
  <2>3. /\ UNCHANGED <<phase, todo>>
        /\ \A n \in Name : mem[n] # NoVolume => mem'[n] # NoVolume
    BY <1>4, <1>t, StoreKeeps DEF CreateConfirm, Save
  <2> QED
    BY <2>1, <2>2, <2>3, StepKeeps
<1>5. CASE CreateAdd
  <2>1. GoesOn
    BY <1>5 DEF CreateAdd, GoesOn, OpSteps, CreateSteps, MountSteps, UnmountSteps, DeleteSteps
  <2>2. KeepsTypes
    <3>1. mem' \in Store /\ file' \in Store
      <4>1. Added(mem, op.name, op.opts) \in Store
        BY <1>t, StoreType
      <4> QED
        BY <1>5, <1>t, <4>1, SavedIs DEF CreateAdd, Save
    <3>2. doomed' \in [Name -> Dooms]
      BY <1>5, <1>t DEF CreateAdd, Doom, Dooms
    <3> QED
      BY <1>5, <1>t, <3>1, <3>2 DEF CreateAdd, KeepsTypes
  <2>3. /\ UNCHANGED <<phase, todo>>
        /\ \A n \in Name : mem[n] # NoVolume => mem'[n] # NoVolume
    BY <1>5, <1>t, StoreKeeps DEF CreateAdd, Save
  <2> QED
    BY <2>1, <2>2, <2>3, StepKeeps
<1>6. CASE CreateRollback
  <2>1. GoesOn
    <3>1. PICK r \in DeleteDisk(disk[op.name], op.step, FALSE) :
            /\ SetDisk(op.name, r.disk)
            /\ IF r.next = "idle" THEN Return ELSE Goto(r.next)
      BY <1>6 DEF CreateRollback
    <3>2. r.disk \in MaybeDisk /\ r.next \in DeleteSteps \cup {"idle"}
      BY <1>6, DeleteDiskIs DEF CreateRollback
    <3> QED
      BY <3>1, <3>2 DEF GoesOn, OpSteps, MountSteps, DeleteSteps
  <2>2. KeepsTypes
    <3>1. PICK r \in DeleteDisk(disk[op.name], op.step, FALSE) :
            /\ SetDisk(op.name, r.disk)
            /\ IF r.next = "idle" THEN Return ELSE Goto(r.next)
      BY <1>6 DEF CreateRollback
    <3>2. r.disk \in MaybeDisk /\ r.next \in DeleteSteps \cup {"idle"}
      BY <1>6, DeleteDiskIs DEF CreateRollback
    <3>3. disk' \in [Name -> MaybeDisk]
      BY <3>1, <3>2, ZoneType DEF BaseInv
    <3> QED
      BY <1>6, <1>t, <3>3 DEF CreateRollback, KeepsTypes
  <2>3. /\ UNCHANGED <<phase, todo>>
        /\ \A n \in Name : mem[n] # NoVolume => mem'[n] # NoVolume
    BY <1>6, <1>t, StoreKeeps DEF CreateRollback, Save
  <2> QED
    BY <2>1, <2>2, <2>3, StepKeeps
<1>7. CASE MountAttachGet
  <2>1. GoesOn
    BY <1>7 DEF MountAttachGet, GoesOn, OpSteps, CreateSteps, MountSteps, UnmountSteps, DeleteSteps
  <2>2. KeepsTypes
    BY <1>7, <1>t DEF MountAttachGet, KeepsTypes
  <2>3. /\ UNCHANGED <<phase, todo>>
        /\ \A n \in Name : mem[n] # NoVolume => mem'[n] # NoVolume
    BY <1>7, <1>t, StoreKeeps DEF MountAttachGet, Save
  <2> QED
    BY <2>1, <2>2, <2>3, StepKeeps
<1>8. CASE MountAttach
  <2>1. GoesOn
    BY <1>8 DEF MountAttach, GoesOn, OpSteps, CreateSteps, MountSteps, UnmountSteps, DeleteSteps
  <2>2. KeepsTypes
    <3>1. PICK r \in AttachCall(disk[op.name], Self) : SetDisk(op.name, r.disk)
      BY <1>8 DEF MountAttach
    <3>2. r.disk \in MaybeDisk
      <4>1. disk[op.name] # NoDisk => [disk[op.name] EXCEPT !.user = Self] \in Disk
        BY DriverAssumption DEF MaybeDisk, Disk
      <4> QED
        BY <4>1, OutcomeIs DEF AttachCall, Failed, MaybeDisk
    <3>3. disk' \in [Name -> MaybeDisk]
      BY <3>1, <3>2, ZoneType DEF BaseInv
    <3> QED
      BY <1>8, <1>t, <3>3 DEF MountAttach, KeepsTypes
  <2>3. /\ UNCHANGED <<phase, todo>>
        /\ \A n \in Name : mem[n] # NoVolume => mem'[n] # NoVolume
    BY <1>8, <1>t, StoreKeeps DEF MountAttach, Save
  <2> QED
    BY <2>1, <2>2, <2>3, StepKeeps
<1>9. CASE MountPrepare
  <2>1. GoesOn
    BY <1>9 DEF MountPrepare, GoesOn, OpSteps, CreateSteps, MountSteps, UnmountSteps, DeleteSteps
  <2>2. KeepsTypes
    BY <1>9, <1>t DEF MountPrepare, KeepsTypes
  <2>3. /\ UNCHANGED <<phase, todo>>
        /\ \A n \in Name : mem[n] # NoVolume => mem'[n] # NoVolume
    BY <1>9, <1>t, StoreKeeps DEF MountPrepare, Save
  <2> QED
    BY <2>1, <2>2, <2>3, StepKeeps
<1>10. CASE MountMount
  <2>1. GoesOn
    BY <1>10 DEF MountMount, GoesOn, OpSteps, CreateSteps, MountSteps, UnmountSteps, DeleteSteps
  <2>2. KeepsTypes
    BY <1>10, <1>t DEF MountMount, KeepsTypes, Mounts
  <2>3. /\ UNCHANGED <<phase, todo>>
        /\ \A n \in Name : mem[n] # NoVolume => mem'[n] # NoVolume
    BY <1>10, <1>t, StoreKeeps DEF MountMount, Save
  <2> QED
    BY <2>1, <2>2, <2>3, StepKeeps
<1>11. CASE MountIncRef
  <2>1. GoesOn
    BY <1>11 DEF MountIncRef, GoesOn, OpSteps, CreateSteps, MountSteps, UnmountSteps, DeleteSteps
  <2>2. KeepsTypes
    <3>1. mem[op.name] # NoVolume
      BY <1>11 DEF MountIncRef, BaseInv, StoreInv, Tracked, MountSteps
    <3>2. mem' \in Store /\ file' \in Store
      BY <1>11, <1>t, <3>1, SavedIs, StoreType DEF MountIncRef, Save
    <3>3. using' \in [Name -> Nat]
      BY <1>11, <1>t DEF MountIncRef
    <3> QED
      BY <1>11, <1>t, <3>2, <3>3 DEF MountIncRef, KeepsTypes
  <2>3. /\ UNCHANGED <<phase, todo>>
        /\ \A n \in Name : mem[n] # NoVolume => mem'[n] # NoVolume
    <3>1. mem[op.name] # NoVolume
      BY <1>11 DEF MountIncRef, BaseInv, StoreInv, Tracked, MountSteps
    <3> QED
      BY <1>11, <1>t, <3>1, StoreKeeps DEF MountIncRef, Save
  <2> QED
    BY <2>1, <2>2, <2>3, StepKeeps
<1>12. CASE MountUnwind
  <2>1. GoesOn
    BY <1>12 DEF MountUnwind, GoesOn, OpSteps, CreateSteps, MountSteps, UnmountSteps, DeleteSteps
  <2>2. KeepsTypes
    BY <1>12, <1>t DEF MountUnwind, KeepsTypes, Mounts
  <2>3. /\ UNCHANGED <<phase, todo>>
        /\ \A n \in Name : mem[n] # NoVolume => mem'[n] # NoVolume
    BY <1>12, <1>t, StoreKeeps DEF MountUnwind, Save
  <2> QED
    BY <2>1, <2>2, <2>3, StepKeeps
<1>13. CASE UnmountUmount
  <2>1. GoesOn
    BY <1>13 DEF UnmountUmount, GoesOn, OpSteps, CreateSteps, MountSteps, UnmountSteps, DeleteSteps
  <2>2. KeepsTypes
    BY <1>13, <1>t DEF UnmountUmount, KeepsTypes, Mounts
  <2>3. /\ UNCHANGED <<phase, todo>>
        /\ \A n \in Name : mem[n] # NoVolume => mem'[n] # NoVolume
    BY <1>13, <1>t, StoreKeeps DEF UnmountUmount, Save
  <2> QED
    BY <2>1, <2>2, <2>3, StepKeeps
<1>14. CASE DetachGet
  <2>1. GoesOn
    BY <1>14 DEF DetachGet, GoesOn, OpSteps, CreateSteps, MountSteps, UnmountSteps, DeleteSteps
  <2>2. KeepsTypes
    BY <1>14, <1>t DEF DetachGet, KeepsTypes
  <2>3. /\ UNCHANGED <<phase, todo>>
        /\ \A n \in Name : mem[n] # NoVolume => mem'[n] # NoVolume
    BY <1>14, <1>t, StoreKeeps DEF DetachGet, Save
  <2> QED
    BY <2>1, <2>2, <2>3, StepKeeps
<1>15. CASE Detach
  <2>1. GoesOn
    BY <1>15 DEF Detach, GoesOn, OpSteps, CreateSteps, MountSteps, UnmountSteps, DeleteSteps
  <2>2. KeepsTypes
    <3>1. PICK r \in DetachCall(disk[op.name], Self) : SetDisk(op.name, r.disk)
      BY <1>15 DEF Detach
    <3>2. r.disk \in MaybeDisk
      <4>1. disk[op.name] # NoDisk => [disk[op.name] EXCEPT !.user = nobody] \in Disk
        BY DriverAssumption DEF MaybeDisk, Disk
      <4> QED
        BY <4>1, OutcomeIs DEF DetachCall, Failed, MaybeDisk
    <3>3. disk' \in [Name -> MaybeDisk]
      BY <3>1, <3>2, ZoneType DEF BaseInv
    <3> QED
      BY <1>15, <1>t, <3>3 DEF Detach, KeepsTypes, Mounts
  <2>3. /\ UNCHANGED <<phase, todo>>
        /\ \A n \in Name : mem[n] # NoVolume => mem'[n] # NoVolume
    BY <1>15, <1>t, StoreKeeps DEF Detach, Save
  <2> QED
    BY <2>1, <2>2, <2>3, StepKeeps
<1> QED
  BY <1>1, <1>2, <1>3, <1>4, <1>5, <1>6, <1>7, <1>8, <1>9, <1>10, <1>11, <1>12, <1>13, <1>14, <1>15 DEF Step

\* An operation is for one name, and leaves the others alone.
StepAlone ==
    /\ UNCHANGED <<phase, todo, jobs>>
    /\ op' = NoOp \/ op'.name = op.name
    /\ file' \in {file, mem'}
    /\ \A k \in Name : k # op.name =>
          /\ disk'[k] = disk[k] /\ mem'[k] = mem[k]
          /\ mnt'[k] = mnt[k] /\ using'[k] = using[k]

LEMMA StepIsAlone ==
    ASSUME BaseInv, Step
    PROVE  StepAlone
<1>0. /\ op # NoOp
      /\ op \in Op /\ op.name \in Name /\ op.opts \in DiskOptions
      /\ disk[op.name] \in MaybeDisk
  BY OpIs DEF Step, At, CreateGetDisk, CreateAdopt, CreateInsert, CreateConfirm,
     CreateAdd, CreateRollback, MountAttachGet, MountAttach, MountPrepare,
     MountMount, MountIncRef, MountUnwind, UnmountUmount, DetachGet, Detach
<1>t. /\ disk \in [Name -> MaybeDisk] /\ mem \in Store
      /\ mnt \in [Name -> Mounts] /\ using \in [Name -> Nat]
  BY DEF BaseInv, TypeOK, MaybeDisk
<1>n. \A step : [op EXCEPT !.step = step].name = op.name
  BY <1>0 DEF Op
<1> USE <1>0 DEF At, Goto, Return
\* The steps that touch neither the disk nor the store.
<1>1. CASE CreateGetDisk
  BY <1>1, <1>n DEF CreateGetDisk, StepAlone
<1>2. CASE CreateConfirm
  BY <1>2, <1>n DEF CreateConfirm, StepAlone
<1>3. CASE MountAttachGet
  BY <1>3, <1>n DEF MountAttachGet, StepAlone
<1>4. CASE MountPrepare
  BY <1>4, <1>n DEF MountPrepare, StepAlone
<1>5. CASE MountMount
  BY <1>5, <1>n, <1>t DEF MountMount, StepAlone
<1>6. CASE MountUnwind
  BY <1>6, <1>n, <1>t DEF MountUnwind, StepAlone
<1>7. CASE UnmountUmount
  BY <1>7, <1>n, <1>t DEF UnmountUmount, StepAlone
<1>8. CASE DetachGet
  BY <1>8, <1>n DEF DetachGet, StepAlone
\* Those that update the store.
<1>9. CASE CreateAdopt
  <2>1. \A k \in Name : k # op.name => Added(mem, op.name, op.opts)[k] = mem[k]
    BY <1>t, StoreKeeps
  <2> QED
    BY <1>9, <1>n, <2>1, SavedIs DEF CreateAdopt, StepAlone, Save
<1>10. CASE CreateAdd
  <2>1. \A k \in Name : k # op.name => Added(mem, op.name, op.opts)[k] = mem[k]
    BY <1>t, StoreKeeps
  <2> QED
    BY <1>10, <1>n, <2>1, SavedIs DEF CreateAdd, StepAlone, Save
<1>11. CASE MountIncRef
  <2>1. \A k \in Name : k # op.name => IncRef(mem, op.name)[k] = mem[k]
    BY <1>t DEF IncRef, Store
  <2> QED
    BY <1>11, <1>n, <1>t, <2>1, SavedIs DEF MountIncRef, StepAlone, Save
\* Those that change the disk.
<1>12. CASE CreateInsert
  BY <1>12, <1>n, <1>t DEF CreateInsert, StepAlone, SetDisk
<1>13. CASE CreateRollback
  BY <1>13, <1>n, <1>t DEF CreateRollback, StepAlone, SetDisk
<1>14. CASE MountAttach
  BY <1>14, <1>n, <1>t DEF MountAttach, StepAlone, SetDisk
<1>15. CASE Detach
  BY <1>15, <1>n, <1>t DEF Detach, StepAlone, SetDisk
<1> QED
  BY <1>1, <1>2, <1>3, <1>4, <1>5, <1>6, <1>7, <1>8, <1>9, <1>10, <1>11, <1>12,
     <1>13, <1>14, <1>15 DEF Step

LEMMA JobNew ==
    ASSUME TypeOK, NEW n \in Name, NEW s \in Slots, NEW j \in Job
    PROVE  [jobs EXCEPT ![n][s] = j] \in [Name -> [Slots -> Job]]
BY DEF TypeOK

LEMMA IdleIs == Idle \in Job /\ NoJobs \in [Name -> [Slots -> Job]]
BY DEF Idle, Job, NoJobs

LEMMA BaseCall ==
    ASSUME BaseInv, NEW n \in Name,
           \/ \E o \in Requests : Create(n, o)
           \/ RemoveRetain(n) \/ RemoveDelete(n)
           \/ MountAgain(n) \/ MountFirst(n)
           \/ UnmountNothing(n) \/ UnmountDecRef(n)
    PROVE  BaseInv'
<1>t. /\ disk \in [Name -> MaybeDisk] /\ mnt \in [Name -> Mounts]
      /\ using \in [Name -> Nat] /\ mem \in Store /\ file \in Store
      /\ doomed \in [Name -> Dooms] /\ todo \in SUBSET Name
      /\ jobs \in [Name -> [Slots -> Job]]
  BY DEF BaseInv, TypeOK, MaybeDisk
\* A call leaves the startup alone, which is over.
<1>0. ASSUME Free, UNCHANGED <<disk, mnt, phase, todo>>,
             op' \in Op \cup {NoOp}, using' \in [Name -> Nat],
             mem' \in Store, file' \in Store,
             doomed' \in [Name -> Dooms], jobs' \in [Name -> [Slots -> Job]],
             op' # NoOp /\ op'.step \in MountSteps => mem'[op'.name] # NoVolume
      PROVE  BaseInv'
  <2>1. TypeOK'
    BY <1>0 DEF BaseInv, TypeOK
  <2>2. phase' = "serving"
    BY <1>0 DEF Free
  <2> QED
    BY <1>0, <2>1, <2>2 DEF BaseInv, PhaseInv, StoreInv, Tracked
<1>1. ASSUME NEW o \in Requests, Create(n, o)
      PROVE  BaseInv'
  <2>1. o \in DiskOptions
    BY DriverAssumption DEF ParsedOptions
  <2>2. op' \in Op /\ op'.step = "getDisk"
    BY <1>1, <2>1, OpNew DEF Create, Begin, OpSteps, CreateSteps
  <2> QED
    BY <1>0, <1>1, <1>t, <2>2 DEF Create, MountSteps
<1>2. CASE RemoveRetain(n)
  <2>1. mem' \in Store /\ file' \in Store
    <3>1. Dropped(mem, n) \in Store
      BY <1>t, StoreType
    <3> QED
      BY <1>2, <1>t, <3>1, SavedIs DEF RemoveRetain, Save
  <2> QED
    BY <1>0, <1>2, <1>t, <2>1 DEF RemoveRetain, Removable, Free
<1>3. CASE RemoveDelete(n)
  <2>1. mem' \in Store /\ file' \in Store
    BY <1>3, <1>t, SavedIs, StoreType DEF RemoveDelete, Save
  <2>2. mem[n].opts.snapshotOnRemove \in BOOLEAN
    BY <1>3, <1>t DEF RemoveDelete, Removable, Tracked, Store, Volume, DiskOptions
  <2>3. jobs' \in [Name -> [Slots -> Job]]
    <3>1. [step |-> "delGet", snapshot |-> mem[n].opts.snapshotOnRemove] \in Job
      BY <2>2 DEF Job, DeleteSteps
    <3>2. \A s \in Slots : Spawned(n, s, mem[n].opts.snapshotOnRemove)
                              \in [Name -> [Slots -> Job]]
      BY <3>1, JobNew DEF Spawned, BaseInv
    <3> QED
      BY <1>3, <1>t, <3>2 DEF RemoveDelete
  <2>4. doomed' \in [Name -> Dooms]
    BY <1>3, <1>t DEF RemoveDelete, Doom, Dooms
  <2> QED
    BY <1>0, <1>3, <1>t, <2>1, <2>3, <2>4 DEF RemoveDelete, Removable, Free
<1>4. CASE MountAgain(n)
  <2>1. mem' \in Store /\ file' \in Store
    BY <1>4, <1>t, SavedIs, StoreType DEF MountAgain, Save, Tracked
  <2>2. using' \in [Name -> Nat]
    BY <1>4, <1>t DEF MountAgain
  <2> QED
    BY <1>0, <1>4, <1>t, <2>1, <2>2 DEF MountAgain, Free
<1>5. CASE MountFirst(n)
  <2>1. mem[n] # NoVolume /\ mem[n].opts \in DiskOptions
    BY <1>5, <1>t DEF MountFirst, Tracked, Store, Volume
  <2>2. op' \in Op /\ op'.name = n
    BY <1>5, <2>1, OpNew DEF MountFirst, Begin, OpSteps, MountSteps
  <2> QED
    BY <1>0, <1>5, <1>t, <2>1, <2>2 DEF MountFirst
<1>6. CASE UnmountNothing(n)
  <2>1. using' \in [Name -> Nat]
    BY <1>6, <1>t DEF UnmountNothing
  <2> QED
    BY <1>0, <1>6, <1>t, <2>1 DEF UnmountNothing, Free
<1>7. CASE UnmountDecRef(n)
  <2>1. mem' \in Store /\ file' \in Store
    BY <1>7, <1>t, SavedIs, StoreType DEF UnmountDecRef, Save, Tracked
  <2>2. using' \in [Name -> Nat]
    BY <1>7, <1>t DEF UnmountDecRef
  <2>3. mem[n].opts \in DiskOptions
    BY <1>7, <1>t DEF UnmountDecRef, Tracked, Store, Volume
  <2>4. op' = NoOp \/ (op' \in Op /\ op'.step = "umount")
    BY <1>7, <2>3, OpNew DEF UnmountDecRef, Begin, Free, OpSteps, UnmountSteps
  <2> QED
    BY <1>0, <1>7, <1>t, <2>1, <2>2, <2>4 DEF UnmountDecRef, MountSteps
<1> QED
  BY <1>1, <1>2, <1>3, <1>4, <1>5, <1>6, <1>7

\* A step of a deletion: its job goes on or ends, and only its disk changes.
BackgroundEffect(n, s, r) ==
    /\ jobs[n][s] # Idle
    /\ disk[n] \in MaybeDisk
    /\ jobs[n][s].step \in DeleteSteps
    /\ jobs[n][s].snapshot \in BOOLEAN
    /\ r.disk \in MaybeDisk
    /\ disk' = [disk EXCEPT ![n] = r.disk]
    /\ disk' \in [Name -> MaybeDisk]
    /\ jobs' \in [Name -> [Slots -> Job]]
    /\ \/ jobs'[n][s] = Idle
       \/ /\ r.next # "idle" /\ jobs'[n][s].step = r.next
          /\ jobs'[n][s].snapshot = jobs[n][s].snapshot
    /\ \A m \in Name, t \in Slots : m # n \/ t # s => jobs'[m][t] = jobs[m][t]

LEMMA BackgroundIs ==
    ASSUME TypeOK, NEW n \in Name, NEW s \in Slots, DeleteInBackground(n, s)
    PROVE  \E r \in DeleteDisk(disk[n], jobs[n][s].step, jobs[n][s].snapshot) :
              BackgroundEffect(n, s, r)
<1> DEFINE j == jobs[n][s]
<1>1. j \in Job /\ disk[n] \in MaybeDisk /\ j # Idle
  BY DEF TypeOK, MaybeDisk, DeleteInBackground
<1>2. j \in [step : DeleteSteps, snapshot : BOOLEAN]
  BY <1>1 DEF Job
<1>3. PICK r \in DeleteDisk(disk[n], j.step, j.snapshot) :
        /\ SetDisk(n, r.disk)
        /\ jobs' = [jobs EXCEPT ![n][s] =
                      IF r.next = "idle" THEN Idle ELSE [@ EXCEPT !.step = r.next]]
  BY DEF DeleteInBackground
<1>4. r.disk \in MaybeDisk /\ r.next \in DeleteSteps \cup {"idle"}
  BY <1>3, <1>1, <1>2, DeleteDiskIs
<1>5. /\ disk' = [disk EXCEPT ![n] = r.disk]
      /\ disk' \in [Name -> MaybeDisk]
  BY <1>3, <1>4, ZoneType DEF SetDisk
<1> DEFINE k == IF r.next = "idle" THEN Idle ELSE [j EXCEPT !.step = r.next]
<1>6. /\ k \in Job
      /\ k = Idle \/ (r.next # "idle" /\ k.step = r.next /\ k.snapshot = j.snapshot)
  BY <1>2, <1>4 DEF Job
<1>7. jobs' = [jobs EXCEPT ![n][s] = k]
  BY <1>3
<1>8. /\ jobs' \in [Name -> [Slots -> Job]]
      /\ jobs'[n][s] = k
      /\ \A m \in Name, t \in Slots : m # n \/ t # s => jobs'[m][t] = jobs[m][t]
  <2> HIDE DEF k, j
  <2> QED
    BY <1>6, <1>7, JobNew DEF TypeOK
<1>9. BackgroundEffect(n, s, r)
  BY <1>1, <1>2, <1>4, <1>5, <1>6, <1>8 DEF BackgroundEffect
<1> QED
  BY <1>9

LEMMA BaseBackground ==
    ASSUME BaseInv, NEW n \in Name, NEW s \in Slots, DeleteInBackground(n, s)
    PROVE  BaseInv'
<1>0. TypeOK
  BY DEF BaseInv
<1>1. PICK r \in DeleteDisk(disk[n], jobs[n][s].step, jobs[n][s].snapshot) :
        BackgroundEffect(n, s, r)
  BY <1>0, BackgroundIs
<1>2. UNCHANGED <<mnt, using, phase, todo, mem, file, op, doomed>>
  BY DEF DeleteInBackground
<1>3. TypeOK'
  BY <1>0, <1>1, <1>2 DEF TypeOK, BackgroundEffect, MaybeDisk
<1>4. PhaseInv'
  <2>1. phase # "down"
    BY <1>1, <1>0 DEF BackgroundEffect, BaseInv, PhaseInv, NoJobs
  <2> QED
    BY <2>1, <1>2 DEF BaseInv, PhaseInv
<1>5. StoreInv'
  BY <1>2 DEF BaseInv, StoreInv, Tracked
<1> QED
  BY <1>3, <1>4, <1>5 DEF BaseInv

\* The end of the process leaves nothing in memory to go wrong.
LEMMA BaseExit ==
    ASSUME BaseInv, Exit, disk' = disk, file' = file,
           mnt' \in [Name -> Mounts], using' \in [Name -> Nat],
           doomed' \in [Name -> Dooms]
    PROVE  BaseInv'
<1>1. TypeOK'
  BY StoreType, IdleIs DEF BaseInv, TypeOK, Exit, Phases, EmptyStore, Store
<1> QED
  BY <1>1 DEF BaseInv, PhaseInv, StoreInv, Exit

LEMMA BaseStartup ==
    ASSUME BaseInv, Startup
    PROVE  BaseInv'
<1>t. /\ disk \in [Name -> MaybeDisk] /\ mnt \in [Name -> Mounts]
      /\ using \in [Name -> Nat] /\ mem \in Store /\ file \in Store
      /\ doomed \in [Name -> Dooms] /\ todo \in SUBSET Name
      /\ jobs \in [Name -> [Slots -> Job]]
  BY DEF BaseInv, TypeOK, MaybeDisk
<1>0. op = NoOp
  BY DEF BaseInv, PhaseInv, Startup, Start, ReconcileStore, ResetRefCounts,
     RestoreMount, Serve
<1>1. CASE Start
  <2>1. todo' \in SUBSET Name
    BY <1>1 DEF Start, Listed
  <2>2. PICK s \in Slots : jobs' = Resumed(s)
    BY <1>1 DEF Start
  <2>3. jobs' \in [Name -> [Slots -> Job]]
    BY <2>2 DEF Resumed, Job, DeleteSteps
  <2>m. mem' \in Store
    <3>1. Listed \ Marked \in SUBSET Name /\ \A n \in Listed \ Marked : disk[n] # NoDisk
      BY DEF Listed
    <3>2. Reconciled(file, Listed \ Marked, disk) \in Store
      BY <1>t, <3>1, ReconciledIs
    <3> QED
      BY <1>1, <3>2 DEF Start
  <2>4. TypeOK'
    BY <1>1, <1>t, <2>m, <2>1, <2>3 DEF Start, BaseInv, TypeOK, Phases
  <2> QED
    BY <1>1, <1>0, <2>4 DEF Start, BaseInv, PhaseInv, StoreInv
<1>2. CASE ReconcileStore
  <2>1. mem \in Store
    BY <1>t
  <2>2. PICK w \in Saved(mem) :
          \/ /\ w.ok /\ mem' = mem /\ file' = w.file
             /\ phase' = "reset"
             /\ UNCHANGED <<todo, op, jobs>>
             /\ doomed' = [n \in Name |->
                   IF n \in todo /\ file[n] = NoVolume THEN "no" ELSE doomed[n]]
          \/ ~w.ok /\ Exit /\ UNCHANGED <<file, doomed>>
    BY <1>2 DEF ReconcileStore, Save
  <2>3. UNCHANGED <<disk, mnt, using>>
    BY <1>2 DEF ReconcileStore
  <2>4. CASE w.ok
    <3>1. file' \in Store /\ mem' \in Store
      BY <2>1, <2>2, <2>4, SavedIs
    <3>2. doomed' \in [Name -> Dooms]
      BY <1>t, <2>2, <2>4 DEF Dooms
    <3>3. TypeOK'
      BY <1>t, <2>2, <2>3, <2>4, <3>1, <3>2 DEF BaseInv, TypeOK, Phases
    <3> QED
      BY <1>0, <2>2, <2>4, <3>3 DEF BaseInv, PhaseInv, StoreInv
  <2>5. CASE ~w.ok
    BY <1>t, <2>2, <2>3, <2>5, BaseExit
  <2> QED
    BY <2>4, <2>5
<1>3. CASE ResetRefCounts
  <2> DEFINE R == AllReset(mem)
  <2>1. R \in Store
    <3>1. CASE Name = {}
      BY <3>1 DEF AllReset, Store
    <3>2. CASE Name # {}
      BY <3>2, <1>t, StoreType
    <3> QED
      BY <3>1, <3>2
  <2>k. \A n \in Name : R[n] # NoVolume <=> mem[n] # NoVolume
    BY <1>t, StoreKeeps
  <2>2. PICK w \in Saved(R) :
          \/ /\ w.ok /\ mem' = R /\ file' = w.file
             /\ phase' = "restore"
             /\ todo' = {n \in Name : Tracked(n)}
             /\ UNCHANGED <<op, jobs>>
          \/ ~w.ok /\ Exit /\ UNCHANGED file
    BY <1>3 DEF ResetRefCounts, Save
  <2>3. UNCHANGED <<disk, mnt, using, doomed>>
    BY <1>3 DEF ResetRefCounts
  <2>4. CASE w.ok
    <3>1. file' \in Store /\ mem' \in Store
      BY <2>1, <2>2, <2>4, SavedIs
    <3>3. TypeOK'
      BY <1>t, <2>2, <2>3, <2>4, <3>1 DEF BaseInv, TypeOK, Phases
    <3>4. \A n \in todo' : n \in Name /\ mem'[n] # NoVolume
      <4> HIDE DEF R
      <4> QED
        BY <2>2, <2>4, <2>k DEF Tracked
    <3> QED
      BY <1>0, <2>2, <2>4, <3>3, <3>4 DEF BaseInv, PhaseInv, StoreInv, Tracked
  <2>5. CASE ~w.ok
    BY <1>t, <2>2, <2>3, <2>5, BaseExit
  <2> QED
    BY <2>4, <2>5
<1>4. ASSUME NEW n \in Name, RestoreMount(n)
      PROVE  BaseInv'
  <2>1. n \in todo /\ mem[n] # NoVolume
    BY <1>4 DEF RestoreMount, BaseInv, StoreInv, Tracked
  <2>2. SetMounted(mem, n) \in Store
    BY <1>t, <2>1, StoreType
  <2>3. /\ mem' \in Store /\ file' \in Store
        /\ mem' \in {mem, SetMounted(mem, n)}
    BY <1>4, <1>t, <2>2, SavedIs DEF RestoreMount, Save
  <2>4. TypeOK'
    BY <1>4, <1>t, <2>3 DEF RestoreMount, BaseInv, TypeOK
  <2>5. \A k \in Name : mem[k] # NoVolume => mem'[k] # NoVolume
    BY <1>t, <2>1, <2>3, StoreKeeps
  <2> QED
    BY <1>4, <1>0, <1>t, <2>4, <2>5
    DEF RestoreMount, BaseInv, PhaseInv, StoreInv, Tracked
<1>5. CASE Serve
  <2>1. TypeOK'
    BY <1>5 DEF Serve, BaseInv, TypeOK, Phases
  <2> QED
    BY <1>5, <1>0, <2>1 DEF Serve, BaseInv, PhaseInv, StoreInv
<1> QED
  BY <1>1, <1>2, <1>3, <1>4, <1>5 DEF Startup

LEMMA BaseEnvironment ==
    ASSUME BaseInv, Environment
    PROVE  BaseInv'
<1>t. /\ disk \in [Name -> MaybeDisk] /\ mnt \in [Name -> Mounts]
      /\ using \in [Name -> Nat] /\ doomed \in [Name -> Dooms]
  BY DEF BaseInv, TypeOK, MaybeDisk
<1>1. CASE Crash
  BY <1>1, <1>t, BaseExit DEF Crash
<1>2. CASE Reboot
  <2>1. mnt' \in [Name -> Mounts] /\ using' \in [Name -> Nat]
    BY <1>2 DEF Reboot, Mounts
  <2> QED
    BY <1>2, <1>t, <2>1, BaseExit DEF Reboot
<1>3. ASSUME NEW n \in Name, UnmountUnheard(n)
      PROVE  BaseInv'
  <2>1. using' \in [Name -> Nat]
    BY <1>3, <1>t DEF UnmountUnheard
  <2>2. TypeOK'
    BY <1>3, <2>1 DEF UnmountUnheard, BaseInv, TypeOK
  <2> QED
    BY <1>3, <2>2 DEF UnmountUnheard, BaseInv, PhaseInv, StoreInv, Tracked
\* Another VM changes the user of a disk, and nothing else.
<1>4. ASSUME NEW n \in Name, NEW i \in Instances \cup {nobody},
             disk[n] # NoDisk, SetDisk(n, [disk[n] EXCEPT !.user = i]),
             UNCHANGED <<mnt, using, phase, todo, mem, file, op, jobs, doomed>>
      PROVE  BaseInv'
  <2> DEFINE e == [disk[n] EXCEPT !.user = i]
  <2>1. e \in Disk /\ e.labels = disk[n].labels /\ e # NoDisk
    BY <1>4, <1>t, ComputeAssumption DEF MaybeDisk, Disk
  <2>2. disk' \in [Name -> MaybeDisk]
    BY <1>4, <2>1, ZoneType DEF BaseInv, MaybeDisk
  <2>3. TypeOK'
    BY <1>4, <2>2 DEF BaseInv, TypeOK, MaybeDisk
  <2> QED
    BY <1>4, <2>3 DEF BaseInv, PhaseInv, StoreInv, Tracked
<1>5. ASSUME NEW n \in Name, OtherDetach(n)
      PROVE  BaseInv'
  BY <1>4, <1>5 DEF OtherDetach
<1>6. ASSUME NEW n \in Name, NEW i \in Instances, OtherAttach(n, i)
      PROVE  BaseInv'
  BY <1>4, <1>6 DEF OtherAttach
<1> QED
  BY <1>1, <1>2, <1>3, <1>5, <1>6 DEF Environment

LEMMA BaseNext == BaseInv /\ [Next]_vars => BaseInv'
<1> SUFFICES ASSUME BaseInv, [Next]_vars PROVE BaseInv'
  OBVIOUS
<1>1. CASE Call
  BY <1>1, BaseCall DEF Call
<1>2. CASE Step
  BY <1>2, BaseStep
<1>3. CASE Background
  BY <1>3, BaseBackground DEF Background
<1>4. CASE Startup
  BY <1>4, BaseStartup
<1>5. CASE Environment
  BY <1>5, BaseEnvironment
<1>6. CASE UNCHANGED vars
  BY <1>6 DEF vars, BaseInv, TypeOK, PhaseInv, StoreInv, Tracked
<1> QED
  BY <1>1, <1>2, <1>3, <1>4, <1>5, <1>6 DEF Next

LEMMA BaseAlways == Spec => []BaseInv
BY BaseInit, BaseNext, PTL DEF Spec

\* Every variable keeps its type, whatever fails and in whatever order: in
\* particular no step looks for a volume, or a disk, that is not there.
THEOREM TypeCorrect == Spec => []TypeOK
<1>1. BaseInv => TypeOK
  BY DEF BaseInv
<1> QED
  BY <1>1, BaseAlways, PTL

(***************************************************************************)
(* The disks that are not the plugin's stay as they are, whatever fails.    *)
(***************************************************************************)
Foreign(n) == disk[n] # NoDisk /\ ~Managed(disk[n])

\* A foreign disk has no record, no deletion, and no operation past the Get of
\* Create: nothing the plugin does next can reach it.
ForeignInv ==
    \A n \in Name :
        Foreign(n) =>
            /\ disk[n].user # Self
            /\ mem[n] = NoVolume
            /\ file[n] = NoVolume
            /\ n \notin todo
            /\ \A s \in Slots : jobs[n][s] = Idle
            /\ op # NoOp /\ op.name = n => op.step = "getDisk"

LEMMA ForeignInit == Init => ForeignInv
BY DriverAssumption DEF Init, ForeignInv, Foreign, EmptyStore, NoJobs

(***************************************************************************)
(* The steps of an operation.                                              *)
(***************************************************************************)
\* Its disk stays as it is, or is the plugin's when the step is over.
OwnDisk ==
    \/ disk'[op.name] = disk[op.name]
    \/ disk'[op.name] = NoDisk
    \/ Managed(disk'[op.name])
    \/ /\ disk[op.name] # NoDisk
       /\ Managed(disk'[op.name]) <=> Managed(disk[op.name])

LEMMA StepOwnsDisk ==
    ASSUME BaseInv, Step
    PROVE  OwnDisk
<1>0. /\ op # NoOp
      /\ op \in Op /\ op.name \in Name /\ op.opts \in DiskOptions
      /\ disk[op.name] \in MaybeDisk
  BY OpIs DEF Step, At, CreateGetDisk, CreateAdopt, CreateInsert, CreateConfirm,
     CreateAdd, CreateRollback, MountAttachGet, MountAttach, MountPrepare,
     MountMount, MountIncRef, MountUnwind, UnmountUmount, DetachGet, Detach
<1>t. disk \in [Name -> MaybeDisk]
  BY DEF BaseInv, TypeOK, MaybeDisk
<1> USE <1>0
<1>1. CASE UNCHANGED disk
  BY <1>1 DEF OwnDisk
<1>2. CASE CreateInsert
  <2>1. PICK r \in InsertCall(disk[op.name], op.opts) : SetDisk(op.name, r.disk)
    BY <1>2 DEF CreateInsert
  <2>2. r.disk \in {disk[op.name], NewDisk(op.opts)}
    BY OutcomeIs DEF InsertCall, Failed
  <2>3. disk'[op.name] = r.disk
    BY <1>t, <2>1 DEF SetDisk
  <2> QED
    BY <2>2, <2>3, NewDiskIs DEF OwnDisk
<1>3. CASE CreateRollback
  <2>1. PICK r \in DeleteDisk(disk[op.name], op.step, FALSE) : SetDisk(op.name, r.disk)
    BY <1>3 DEF CreateRollback
  <2>2. r.disk # NoDisk =>
          disk[op.name] # NoDisk /\ (Managed(r.disk) <=> Managed(disk[op.name]))
    <3>1. op.step \in DeleteSteps /\ FALSE \in BOOLEAN
      BY <1>3 DEF CreateRollback
    <3>2. PICK snap \in BOOLEAN : snap = FALSE
      OBVIOUS
    <3>3. r \in DeleteDisk(disk[op.name], op.step, snap)
      BY <2>1, <3>2
    <3>4. disk[op.name] = NoDisk => r.disk = NoDisk
      BY <3>1, <3>3, DeleteDiskIs
    <3>5. r.disk # NoDisk => (Managed(r.disk) <=> Managed(disk[op.name]))
      BY <3>1, <3>3, DeleteDiskIs
    <3> QED
      BY <3>4, <3>5
  <2>3. disk'[op.name] = r.disk
    BY <1>t, <2>1 DEF SetDisk
  <2> QED
    BY <2>2, <2>3 DEF OwnDisk
<1>4. CASE MountAttach
  <2> DEFINE e == [disk[op.name] EXCEPT !.user = Self]
  <2>1. PICK r \in AttachCall(disk[op.name], Self) : SetDisk(op.name, r.disk)
    BY <1>4 DEF MountAttach
  <2>2. disk[op.name] # NoDisk => e.labels = disk[op.name].labels
    BY DEF MaybeDisk, Disk
  <2>3. r.disk \in {disk[op.name]} \/ (disk[op.name] # NoDisk /\ r.disk \in {disk[op.name], e})
    BY OutcomeIs DEF AttachCall, Failed
  <2>4. disk'[op.name] = r.disk
    BY <1>t, <2>1 DEF SetDisk
  <2> QED
    BY <2>2, <2>3, <2>4 DEF OwnDisk, Managed
<1>5. CASE Detach
  <2> DEFINE e == [disk[op.name] EXCEPT !.user = nobody]
  <2>1. PICK r \in DetachCall(disk[op.name], Self) : SetDisk(op.name, r.disk)
    BY <1>5 DEF Detach
  <2>2. disk[op.name] # NoDisk => e.labels = disk[op.name].labels
    BY DEF MaybeDisk, Disk
  <2>3. r.disk \in {disk[op.name]} \/ (disk[op.name] # NoDisk /\ r.disk \in {disk[op.name], e})
    BY OutcomeIs DEF DetachCall, Failed
  <2>4. disk'[op.name] = r.disk
    BY <1>t, <2>1 DEF SetDisk
  <2> QED
    BY <2>2, <2>3, <2>4 DEF OwnDisk, Managed
<1> QED
  BY <1>1, <1>2, <1>3, <1>4, <1>5
  DEF Step, CreateGetDisk, CreateAdopt, CreateConfirm, CreateAdd, MountAttachGet,
      MountPrepare, MountMount, MountIncRef, MountUnwind, UnmountUmount, DetachGet

\* What has to be shown of a step for one name whose disk is not foreign.
LEMMA ForeignKeeps ==
    ASSUME ForeignInv, NEW n \in Name, ~Foreign(n), ~Foreign(n)',
           \A k \in Name : k # n => disk'[k] = disk[k] /\ mem'[k] = mem[k],
           file' \in {file, mem'},
           \A k \in Name, s \in Slots : k # n => jobs'[k][s] = jobs[k][s],
           todo' = todo,
           op' = NoOp \/ op' = op \/ op'.name = n
    PROVE  ForeignInv' /\ KeepsForeign
<1>1. ForeignInv'
  <2> SUFFICES ASSUME NEW k \in Name, Foreign(k)'
               PROVE  /\ disk'[k].user # Self
                      /\ mem'[k] = NoVolume
                      /\ file'[k] = NoVolume
                      /\ k \notin todo'
                      /\ \A s \in Slots : jobs'[k][s] = Idle
                      /\ op' # NoOp /\ op'.name = k => op'.step = "getDisk"
    BY DEF ForeignInv
  <2>1. k # n /\ Foreign(k)
    BY DEF Foreign
  <2> QED
    BY <2>1 DEF ForeignInv
<1>2. KeepsForeign
  BY DEF ForeignInv, Foreign, KeepsForeign
<1> QED
  BY <1>1, <1>2

\* Foreign disks as they are, in a step that leaves the zone alone.
LEMMA ForeignStays ==
    ASSUME ForeignInv, UNCHANGED disk
    PROVE  KeepsForeign
BY DEF ForeignInv, Foreign, KeepsForeign

LEMMA ForeignStep ==
    ASSUME BaseInv, ForeignInv, Step
    PROVE  ForeignInv' /\ KeepsForeign
<1>0. op # NoOp /\ op \in Op /\ op.name \in Name
  BY OpIs DEF Step, At, CreateGetDisk, CreateAdopt, CreateInsert, CreateConfirm,
     CreateAdd, CreateRollback, MountAttachGet, MountAttach, MountPrepare,
     MountMount, MountIncRef, MountUnwind, UnmountUmount, DetachGet, Detach
<1>1. StepAlone /\ OwnDisk
  BY StepIsAlone, StepOwnsDisk
\* The Get of Create is where a foreign disk is met, and left alone.
<1>2. CASE Foreign(op.name)
  <2>1. op.step = "getDisk"
    BY <1>0, <1>2 DEF ForeignInv
  <2>2. CreateGetDisk
    BY <2>1 DEF Step, At, CreateAdopt, CreateInsert, CreateConfirm, CreateAdd,
       CreateRollback, MountAttachGet, MountAttach, MountPrepare, MountMount,
       MountIncRef, MountUnwind, UnmountUmount, DetachGet, Detach, DeleteSteps
  <2>3. op' = NoOp /\ UNCHANGED <<disk, mem, file, jobs, todo>>
    <3>1. \A r \in GetCall(disk[op.name]) : r.disk = disk[op.name]
      BY OutcomeIs DEF GetCall
    <3> QED
      BY <1>2, <2>2, <3>1 DEF CreateGetDisk, Foreign, Adoptable, Return
  <2> QED
    BY <2>3, ForeignStays DEF ForeignInv, Foreign
<1>3. CASE ~Foreign(op.name)
  <2>1. PICK n \in Name : n = op.name
    BY <1>0
  <2>2. ~Foreign(n) /\ ~Foreign(n)'
    BY <1>1, <1>3, <2>1 DEF OwnDisk, Foreign
  <2> QED
    BY <1>1, <2>1, <2>2, ForeignKeeps DEF StepAlone
<1> QED
  BY <1>2, <1>3

(***************************************************************************)
(* The other processes.                                                    *)
(***************************************************************************)
\* A call is for a volume, of which no foreign disk has a record, or it is a
\* Create, which begins with a Get.
LEMMA ForeignCall ==
    ASSUME BaseInv, ForeignInv, NEW n \in Name,
           \/ \E o \in Requests : Create(n, o)
           \/ RemoveRetain(n) \/ RemoveDelete(n)
           \/ MountAgain(n) \/ MountFirst(n)
           \/ UnmountNothing(n) \/ UnmountDecRef(n)
    PROVE  ForeignInv' /\ KeepsForeign
<1>t. disk \in [Name -> MaybeDisk] /\ mem \in Store /\ jobs \in [Name -> [Slots -> Job]]
  BY DEF BaseInv, TypeOK, MaybeDisk
<1>0. UNCHANGED <<disk, todo>>
  BY DEF Create, RemoveRetain, RemoveDelete, MountAgain, MountFirst,
     UnmountNothing, UnmountDecRef
<1>f. Free
  BY DEF Create, RemoveRetain, RemoveDelete, MountAgain, MountFirst, Removable,
     UnmountNothing, UnmountDecRef
<1>1. ASSUME NEW o \in Requests, Create(n, o)
      PROVE  ForeignInv'
  BY <1>1 DEF Create, Begin, ForeignInv, Foreign
<1>2. CASE UnmountNothing(n)
  BY <1>0, <1>2, ForeignStays DEF UnmountNothing, ForeignInv, Foreign
\* The calls for a volume.
<1>3. ASSUME Tracked(n),
             mem' \in {mem, Dropped(mem, n), IncRef(mem, n), DecRef(mem, n)},
             file' \in {file, mem'},
             \A k \in Name, s \in Slots : k # n => jobs'[k][s] = jobs[k][s],
             op' = op \/ op'.name = n
      PROVE  ForeignInv' /\ KeepsForeign
  <2>1. ~Foreign(n) /\ ~Foreign(n)'
    BY <1>0, <1>3 DEF ForeignInv, Foreign, Tracked
  <2>2. \A k \in Name : k # n => mem'[k] = mem[k]
    BY <1>t, <1>3, StoreKeeps DEF Tracked
  <2> QED
    BY <1>0, <1>3, <2>1, <2>2, ForeignKeeps
<1>4. CASE RemoveRetain(n)
  BY <1>4, <1>3, SavedIs DEF RemoveRetain, Removable, Save
<1>5. CASE RemoveDelete(n)
  <2>1. \A k \in Name, s \in Slots : k # n => jobs'[k][s] = jobs[k][s]
    BY <1>5, <1>t DEF RemoveDelete, Spawned
  <2> QED
    BY <1>5, <1>3, <2>1, SavedIs DEF RemoveDelete, Removable, Save
<1>6. CASE MountAgain(n)
  BY <1>6, <1>3, SavedIs DEF MountAgain, Save
<1>7. CASE MountFirst(n)
  BY <1>7, <1>3 DEF MountFirst, Begin
<1>8. CASE UnmountDecRef(n)
  BY <1>8, <1>3, SavedIs DEF UnmountDecRef, Save, Begin
<1> QED
  BY <1>0, <1>1, <1>2, <1>4, <1>5, <1>6, <1>7, <1>8, ForeignStays

LEMMA ForeignBackground ==
    ASSUME BaseInv, ForeignInv, NEW n \in Name, NEW s \in Slots, DeleteInBackground(n, s)
    PROVE  ForeignInv' /\ KeepsForeign
<1>t. disk \in [Name -> MaybeDisk]
  BY DEF BaseInv, TypeOK, MaybeDisk
<1>1. PICK r \in DeleteDisk(disk[n], jobs[n][s].step, jobs[n][s].snapshot) :
        BackgroundEffect(n, s, r)
  BY BackgroundIs DEF BaseInv
<1>2. ~Foreign(n)
  BY <1>1 DEF BackgroundEffect, ForeignInv
<1>3. r.disk # NoDisk => (disk[n] # NoDisk /\ (Managed(r.disk) <=> Managed(disk[n])))
  BY <1>1, DeleteDiskIs DEF BackgroundEffect
<1>4. ~Foreign(n)'
  BY <1>t, <1>1, <1>2, <1>3 DEF BackgroundEffect, Foreign
<1> QED
  BY <1>t, <1>1, <1>2, <1>4, ForeignKeeps DEF BackgroundEffect, DeleteInBackground

\* The end of the process; the file and the disks stay.
LEMMA ForeignExit ==
    ASSUME ForeignInv, Exit, UNCHANGED <<disk, file>>
    PROVE  ForeignInv'
BY DEF ForeignInv, Foreign, Exit, EmptyStore, NoJobs

\* Startup: only what the label filter lists is imported, or deleted again.
LEMMA ForeignStartup ==
    ASSUME BaseInv, ForeignInv, Startup
    PROVE  ForeignInv' /\ KeepsForeign
<1>t. disk \in [Name -> MaybeDisk] /\ mem \in Store /\ todo \in SUBSET Name
  BY DEF BaseInv, TypeOK, MaybeDisk
<1>0. UNCHANGED disk
  BY DEF Startup, Start, ReconcileStore, ResetRefCounts, RestoreMount, Serve
<1>1. CASE Start
  <2>1. \A n \in Name : Foreign(n) => n \notin Listed /\ n \notin Marked
    BY DEF Foreign, Listed, Marked
  <2>2. \A n \in Name : Foreign(n) => \A s \in Slots : jobs'[n][s] = Idle
    BY <1>1, <2>1 DEF Start, Resumed
  <2>3. \A n \in Name : Foreign(n) => mem'[n] = NoVolume
    BY <1>1, <2>1 DEF Start, Reconciled
  <2> QED
    BY <1>0, <1>1, <2>1, <2>2, <2>3, ForeignStays DEF Start, ForeignInv, Foreign
<1>2. CASE ReconcileStore
  <2>2. PICK w \in Saved(mem) :
          \/ w.ok /\ Save(mem, w) /\ UNCHANGED <<todo, op, jobs>>
          \/ Exit /\ UNCHANGED file
    BY <1>2 DEF ReconcileStore
  <2>3. CASE w.ok /\ Save(mem, w) /\ UNCHANGED <<todo, op, jobs>>
    BY <1>0, <2>3, SavedIs, ForeignStays DEF Save, ForeignInv, Foreign
  <2> QED
    BY <1>0, <2>2, <2>3, ForeignExit, ForeignStays
<1>3. CASE ResetRefCounts
  <2> DEFINE R == AllReset(mem)
  <2>1. \A n \in Name : R[n] = NoVolume <=> mem[n] = NoVolume
    BY <1>t, StoreKeeps
  <2>2. PICK w \in Saved(R) :
          \/ w.ok /\ Save(R, w) /\ todo' = {n \in Name : Tracked(n)} /\ UNCHANGED <<op, jobs>>
          \/ Exit /\ UNCHANGED file
    BY <1>3 DEF ResetRefCounts
  <2> HIDE DEF R
  <2>3. CASE w.ok /\ Save(R, w) /\ todo' = {n \in Name : Tracked(n)} /\ UNCHANGED <<op, jobs>>
    BY <1>0, <2>1, <2>3, SavedIs, ForeignStays DEF Save, ForeignInv, Foreign, Tracked
  <2> QED
    BY <1>0, <2>2, <2>3, ForeignExit, ForeignStays
<1>4. ASSUME NEW n \in Name, RestoreMount(n)
      PROVE  ForeignInv' /\ KeepsForeign
  <2>1. n \in todo /\ mem[n] # NoVolume
    BY <1>4 DEF RestoreMount, BaseInv, StoreInv, Tracked
  <2>2. \A k \in Name : k # n => SetMounted(mem, n)[k] = mem[k]
    BY <1>t, <2>1, StoreKeeps
  <2>3. /\ \A k \in Name : k # n => mem'[k] = mem[k]
        /\ file' \in {file, mem'}
        /\ UNCHANGED <<op, jobs>>
        /\ todo' = todo \ {n}
    BY <1>4, <2>2, SavedIs DEF RestoreMount, Save
  <2>4. ForeignInv'
    BY <1>0, <2>1, <2>3 DEF ForeignInv, Foreign
  <2> QED
    BY <1>0, <2>4, ForeignStays
<1>5. CASE Serve
  BY <1>0, <1>5, ForeignStays DEF Serve, ForeignInv, Foreign
<1> QED
  BY <1>1, <1>2, <1>3, <1>4, <1>5 DEF Startup

\* Other VMs attach and detach what is theirs; never for this VM.
LEMMA ForeignEnvironment ==
    ASSUME BaseInv, ForeignInv, Environment
    PROVE  ForeignInv' /\ KeepsForeign
<1>t. disk \in [Name -> MaybeDisk]
  BY DEF BaseInv, TypeOK, MaybeDisk
<1>1. CASE Crash
  BY <1>1, ForeignExit, ForeignStays DEF Crash
<1>2. CASE Reboot
  BY <1>2, ForeignExit, ForeignStays DEF Reboot
<1>3. ASSUME NEW n \in Name, UnmountUnheard(n)
      PROVE  ForeignInv' /\ KeepsForeign
  BY <1>3, ForeignStays DEF UnmountUnheard, ForeignInv, Foreign
<1>4. ASSUME NEW n \in Name, NEW i \in Instances \cup {nobody}, i # Self,
             disk[n] # NoDisk, SetDisk(n, [disk[n] EXCEPT !.user = i]),
             UNCHANGED <<todo, mem, file, op, jobs>>
      PROVE  ForeignInv' /\ KeepsForeign
  <2> DEFINE e == [disk[n] EXCEPT !.user = i]
  <2>1. /\ e.labels = disk[n].labels /\ e.snapped = disk[n].snapped /\ e.user = i
        /\ e # NoDisk
    BY <1>4, <1>t, ComputeAssumption DEF MaybeDisk, Disk
  <2>2. \A k \in Name : disk[k] # NoDisk =>
          /\ disk'[k] # NoDisk
          /\ disk'[k].labels = disk[k].labels
          /\ disk'[k].snapped = disk[k].snapped
          /\ disk'[k].user = disk[k].user \/ disk'[k].user # Self
    BY <1>4, <1>t, <2>1 DEF SetDisk
  <2>3. \A k \in Name : disk[k] = NoDisk => disk'[k] = NoDisk
    BY <1>4, <1>t DEF SetDisk
  <2>4. KeepsForeign
    BY <2>2 DEF KeepsForeign, ForeignInv, Foreign
  <2>5. \A k \in Name : Foreign(k)' => Foreign(k) /\ disk'[k].user # Self
    BY <2>2, <2>3 DEF Foreign, Managed, ForeignInv
  <2> QED
    BY <1>4, <2>4, <2>5 DEF ForeignInv
<1>5. Self # nobody
  BY ComputeAssumption, DriverAssumption
<1>6. ASSUME NEW n \in Name, OtherDetach(n)
      PROVE  ForeignInv' /\ KeepsForeign
  BY <1>4, <1>5, <1>6 DEF OtherDetach
<1>7. ASSUME NEW n \in Name, NEW i \in Instances, OtherAttach(n, i)
      PROVE  ForeignInv' /\ KeepsForeign
  BY <1>4, <1>7 DEF OtherAttach
<1> QED
  BY <1>1, <1>2, <1>3, <1>6, <1>7 DEF Environment

LEMMA ForeignNext ==
    ASSUME BaseInv, ForeignInv, [Next]_vars
    PROVE  ForeignInv' /\ [KeepsForeign]_vars
<1>1. CASE Call
  BY <1>1, ForeignCall DEF Call
<1>2. CASE Step
  BY <1>2, ForeignStep
<1>3. CASE Background
  BY <1>3, ForeignBackground DEF Background
<1>4. CASE Startup
  BY <1>4, ForeignStartup
<1>5. CASE Environment
  BY <1>5, ForeignEnvironment
<1>6. CASE UNCHANGED vars
  BY <1>6 DEF vars, ForeignInv, Foreign
<1> QED
  BY <1>1, <1>2, <1>3, <1>4, <1>5, <1>6 DEF Next

LEMMA ForeignAlways == Spec => []ForeignInv
<1>1. BaseInv /\ ForeignInv /\ [Next]_vars => ForeignInv'
  BY ForeignNext
<1> QED
  BY <1>1, ForeignInit, BaseAlways, PTL DEF Spec

\* The disks without the plugin's label keep their content, their labels and
\* their users, in every zone, for any faults and any order of the calls.
THEOREM ForeignIsUntouched == Spec => ForeignUntouched
<1>1. Init => ForeignInv
  BY ForeignInit
<1>2. BaseInv /\ ForeignInv /\ [Next]_vars => ForeignInv' /\ [KeepsForeign]_vars
  BY ForeignNext
<1> QED
  BY <1>1, <1>2, BaseAlways, PTL DEF Spec, ForeignUntouched
=============================================================================
