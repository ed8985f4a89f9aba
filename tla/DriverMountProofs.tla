-------------------------- MODULE DriverMountProofs --------------------------
(***************************************************************************)
(* What Docker is told is mounted is mounted, and no container loses the    *)
(* file system under it, whatever API calls, devices and mounts fail, and   *)
(* whenever the plugin or the VM dies: when the state file can be written,  *)
(* a umount works, and /proc/mounts can be read.                           *)
(*                                                                         *)
(* The invariants ask of the zone only what the end of the module proves of *)
(* every other plugin (Spares), so that ClusterProofs can use them for the  *)
(* plugins of two VMs.                                                     *)
(***************************************************************************)
EXTENDS DriverProofs

Undisturbed ==
    /\ "persist" \notin Faults
    /\ "umount" \notin Faults
    /\ "probe" \notin Faults

\* A restart gives every mounted volume a count of one.
OneContainer == "crash" \in Faults => MaxContainers <= 1

Mounted(n) == mnt[n] = "live"
Counted(n) == Tracked(n) /\ mem[n].ref > 0

\* Between its mount and its count, and its count and its umount.
Halfway(n) == op # NoOp /\ op.name = n /\ op.step \in {"incRef", "umount"}

\* What is mounted, is mounted from a disk that is attached.
MountedIs(n) ==
    /\ mnt[n] # "dead"
    /\ Mounted(n) => AttachedHere(n)

\* Startup finds a record of every mount, but of a disk that is marked, and gives
\* it a count before it serves; then only the operation that holds the lock sees
\* the one without the other.
CountFits(n) ==
    /\ phase # "down" /\ Mounted(n) => Tracked(n) \/ Deleting(disk[n])
    /\ phase \in {"restore", "serving"} /\ Counted(n) => Mounted(n)
    /\ phase = "restore" /\ n \notin todo /\ Mounted(n) /\ Tracked(n) => Counted(n)
    /\ phase = "serving" /\ Mounted(n) /\ Tracked(n) => Counted(n) \/ Halfway(n)

\* The containers of a volume are at most its count.
UseFits(n) ==
    /\ using[n] > 0 => Mounted(n)
    /\ phase = "serving" /\ Tracked(n) => using[n] <= mem[n].ref
    /\ phase # "serving" \/ "crash" \in Faults => using[n] <= 1

\* An operation works on a volume without a count, which is mounted halfway; only
\* the first step of a Create may still meet a mount, of a marked disk.
WorkInv ==
    op # NoOp =>
        /\ op.step # "unwind"
        /\ ~Counted(op.name)
        /\ op.step \in {"incRef", "umount"} => Mounted(op.name) /\ Tracked(op.name)
        /\ op.step \notin {"incRef", "umount", "getDisk"} => ~Mounted(op.name)
        /\ op.step = "getDisk" => ~Tracked(op.name)
        /\ op.step \in {"prepare", "mount", "incRef"} => AttachedHere(op.name)

Fits(n) == MountedIs(n) /\ CountFits(n) /\ (OneContainer => UseFits(n))

MountInv == WorkInv /\ \A n \in Name : Fits(n)

LEMMA MountInit == Init => MountInv
<1> SUFFICES ASSUME Init PROVE MountInv
  OBVIOUS
<1>1. \A n \in Name : ~Mounted(n) /\ mnt[n] = "none" /\ using[n] = 0 /\ ~Tracked(n)
  BY DEF Init, Mounted, EmptyStore, Tracked
<1>2. op = NoOp /\ phase = "down"
  BY DEF Init
<1> QED
  BY <1>1, <1>2 DEF MountInv, WorkInv, Fits, MountedIs, CountFits, UseFits, Counted

(***************************************************************************)
(* Steps that do not work on a volume.                                     *)
(***************************************************************************)
\* A disk keeps its user, as far as this VM can tell, and its mark.
Keeps(n) ==
    /\ AttachedHere(n)' <=> AttachedHere(n)
    /\ AttachedHere(n) /\ Deleting(disk[n]) => Deleting(disk'[n])

LEMMA SameDiskKeeps ==
    ASSUME NEW n \in Name, disk'[n] = disk[n]
    PROVE  Keeps(n)
BY DEF Keeps, AttachedHere

LEMMA OthersFit ==
    ASSUME NEW k \in Name, Fits(k), UNCHANGED phase, Keeps(k),
           mem'[k] = mem[k], mnt'[k] = mnt[k], using'[k] = using[k],
           k \in todo' <=> k \in todo,
           Halfway(k) => Halfway(k)'
    PROVE  Fits(k)'
BY DEF Fits, MountedIs, CountFits, UseFits, Mounted, Counted, Tracked, Keeps, OneContainer

\* What others do to the zone.
LEMMA ZoneMounts ==
    ASSUME BaseInv, MountInv, \A n \in Name : Keeps(n),
           UNCHANGED <<mnt, using, phase, todo, mem, op>>
    PROVE  MountInv'
<1>1. \A k \in Name : Fits(k)'
  BY OthersFit DEF MountInv, Halfway
<1>2. op # NoOp => op.name \in Name
  BY OpIs
<1>3. WorkInv'
  BY <1>2 DEF MountInv, WorkInv, Counted, Tracked, Mounted, Keeps
<1> QED
  BY <1>1, <1>3 DEF MountInv

(***************************************************************************)
(* The steps of an operation.                                              *)
(***************************************************************************)
\* What a step has to show of the volume it works on.
StepFits(n) ==
    /\ mnt'[n] # "dead"
    /\ Mounted(n)' => AttachedHere(n)' /\ (Tracked(n)' \/ Deleting(disk'[n]))
    /\ OneContainer =>
          /\ using'[n] > 0 => Mounted(n)'
          /\ Tracked(n)' => using'[n] <= mem'[n].ref
          /\ "crash" \in Faults => using'[n] <= 1
    /\ op' = NoOp /\ Counted(n)' => Mounted(n)'
    /\ op' = NoOp /\ Mounted(n)' /\ Tracked(n)' => Counted(n)'
    /\ op' # NoOp => WorkInv' /\ op'.step # "getDisk"

LEMMA StepMounts ==
    ASSUME BaseInv, MountInv, StepAlone,
           op # NoOp, NEW n \in Name, n = op.name, StepFits(n)
    PROVE  MountInv'
<1>1. phase = "serving" /\ UNCHANGED <<phase, todo>>
  BY OpIs DEF StepAlone
<1>2. op' # NoOp => op'.name = n
  BY DEF StepAlone
<1>3. ASSUME NEW k \in Name, k # n
      PROVE  Fits(k)'
  BY <1>1, <1>3, OthersFit, SameDiskKeeps DEF MountInv, StepAlone, Halfway
<1>4. Fits(n)'
  <2>1. MountedIs(n)'
    BY DEF MountedIs, StepFits
  <2>2. Counted(n)' => Mounted(n)'
    BY <1>2 DEF StepFits, WorkInv
  <2>3. Mounted(n)' /\ Tracked(n)' => Counted(n)' \/ Halfway(n)'
    BY <1>2 DEF StepFits, WorkInv, Halfway
  <2>4. CountFits(n)'
    BY <1>1, <2>2, <2>3 DEF CountFits, StepFits
  <2>5. OneContainer => UseFits(n)'
    BY <1>1 DEF UseFits, StepFits
  <2> QED
    BY <2>1, <2>4, <2>5 DEF Fits, OneContainer
<1>5. WorkInv'
  BY DEF StepFits, WorkInv
<1> QED
  BY <1>3, <1>4, <1>5 DEF MountInv

\* Steps of an operation whose volume is not mounted, nor will be.
LEMMA UnmountedFits ==
    ASSUME BaseInv, BaseInv', MountInv, op # NoOp, NEW n \in Name, n = op.name, ~Mounted(n),
           mnt'[n] = mnt[n], using'[n] = using[n], ~Counted(n)',
           op' # NoOp => /\ op'.name = n
                         /\ op'.step \notin {"unwind", "incRef", "umount", "getDisk"}
                         /\ op'.step \in {"prepare", "mount"} => AttachedHere(n)'
    PROVE  StepFits(n)
<1>1. mnt[n] # "dead"
  BY DEF MountInv, Fits, MountedIs
<1>2. ~Mounted(n)' /\ mnt'[n] # "dead"
  BY <1>1 DEF Mounted
<1>3. OneContainer => using'[n] = 0
  <2>1. using[n] \in Nat
    BY DEF BaseInv, TypeOK
  <2> QED
    BY <2>1 DEF MountInv, Fits, UseFits
<1>4. op' # NoOp => WorkInv'
  BY <1>2 DEF WorkInv
<1>5. Tracked(n)' => mem'[n].ref \in Nat
  BY CountIs DEF BaseInv, TypeOK, Tracked
<1> QED
  BY <1>2, <1>3, <1>4, <1>5 DEF StepFits

LEMMA CreateStepFits ==
    ASSUME Undisturbed, BaseInv, BaseInv', MountInv, NEW n \in Name, n = op.name,
           \/ CreateGetDisk \/ CreateAdopt \/ CreateInsert \/ CreateConfirm
           \/ CreateAdd \/ CreateRollback
    PROVE  StepFits(n)
<1>0. /\ op # NoOp /\ op \in Op /\ op.opts \in DiskOptions
      /\ op.step \in CreateSteps \cup DeleteSteps
      /\ disk[n] \in MaybeDisk /\ phase = "serving"
  BY OpIs DEF At, CreateGetDisk, CreateAdopt, CreateInsert, CreateConfirm,
     CreateAdd, CreateRollback, CreateSteps
<1>t. mem \in Store
  BY DEF BaseInv, TypeOK
<1>g. \A step : LET o == [op EXCEPT !.step = step] IN o.step = step /\ o.name = n
  BY <1>0 DEF Op
<1>1. op' = NoOp \/ (op'.name = n /\ op'.step \in (CreateSteps \ {"getDisk"}) \cup DeleteSteps)
  <2>1. CASE CreateGetDisk \/ CreateAdopt \/ CreateInsert \/ CreateConfirm
    BY <1>g, <2>1 DEF CreateGetDisk, CreateAdopt, CreateInsert, CreateConfirm,
       Goto, Return, CreateSteps
  <2>2. CASE CreateAdd
    BY <1>g, <2>2 DEF CreateAdd, Goto, Return, DeleteSteps
  <2>3. CASE CreateRollback
    <3>1. PICK snap \in BOOLEAN : snap = FALSE
      OBVIOUS
    <3>2. PICK r \in DeleteDisk(disk[n], op.step, snap) :
            IF r.next = "idle" THEN Return ELSE Goto(r.next)
      BY <2>3, <3>1 DEF CreateRollback
    <3>3. r.next \in DeleteSteps \cup {"idle"}
      BY <1>0, <2>3, <3>2, DeleteDiskIs DEF CreateRollback
    <3> QED
      BY <1>g, <3>2, <3>3 DEF Goto, Return
  <2> QED
    BY <2>1, <2>2, <2>3
<1>2. mnt' = mnt /\ using' = using
  BY DEF CreateGetDisk, CreateAdopt, CreateInsert, CreateConfirm, CreateAdd, CreateRollback
<1>3. ~Counted(n)'
  <2>1. mem' \in {mem, Added(mem, n, op.opts)}
    BY DEF CreateGetDisk, CreateAdopt, CreateInsert, CreateConfirm, CreateAdd,
       CreateRollback, Save
  <2>2. ~Counted(n)
    BY <1>0 DEF MountInv, WorkInv
  <2>3. Added(mem, n, op.opts)[n].ref = 0
    BY <1>0, <1>t, CountIs
  <2> QED
    BY <2>1, <2>2, <2>3 DEF Counted, Tracked
<1>4. CASE ~Mounted(n)
  BY <1>0, <1>1, <1>2, <1>3, <1>4, UnmountedFits DEF CreateSteps, DeleteSteps
\* What is mounted without a record is a marked disk, which Create leaves alone.
<1>5. CASE Mounted(n)
  <2>1. op.step = "getDisk" /\ ~Tracked(n)
    BY <1>0, <1>5 DEF MountInv, WorkInv, CreateSteps, DeleteSteps
  <2>2. AttachedHere(n) /\ Deleting(disk[n])
    BY <1>0, <1>5, <2>1 DEF MountInv, Fits, MountedIs, CountFits
  <2>3. CreateGetDisk
    BY <2>1 DEF At, CreateAdopt, CreateInsert, CreateConfirm, CreateAdd, CreateRollback,
       DeleteSteps
  <2>4. \A r \in GetCall(disk[n]) : r.disk = disk[n]
    BY OutcomeIs DEF GetCall
  <2>5. op' = NoOp /\ UNCHANGED <<disk, mem>>
    BY <2>2, <2>3, <2>4 DEF CreateGetDisk, AttachedHere, Adoptable, Return
  <2>6. OneContainer =>
          /\ using[n] > 0 => Mounted(n)
          /\ "crash" \in Faults => using[n] <= 1
    BY DEF MountInv, Fits, UseFits
  <2>7. mnt[n] # "dead"
    BY DEF MountInv, Fits, MountedIs
  <2> QED
    BY <1>2, <1>3, <2>1, <2>2, <2>5, <2>6, <2>7
       DEF StepFits, Mounted, Tracked, AttachedHere
<1> QED
  BY <1>4, <1>5

LEMMA MountStepFits ==
    ASSUME Undisturbed, BaseInv, BaseInv', MountInv, NEW n \in Name, n = op.name,
           \/ MountAttachGet \/ MountAttach \/ MountPrepare \/ MountMount
           \/ MountIncRef \/ MountUnwind \/ UnmountUmount \/ DetachGet \/ Detach
    PROVE  StepFits(n)
<1>0. /\ op # NoOp /\ op \in Op /\ disk[n] \in MaybeDisk
      /\ phase = "serving"
      /\ op.step \in MountSteps \cup UnmountSteps
  BY OpIs DEF At, MountAttachGet, MountAttach, MountPrepare, MountMount,
     MountIncRef, MountUnwind, UnmountUmount, DetachGet, Detach, MountSteps, UnmountSteps
<1>t. /\ disk \in [Name -> MaybeDisk] /\ mem \in Store
      /\ mnt \in [Name -> Mounts] /\ using \in [Name -> Nat]
  BY DEF BaseInv, TypeOK, MaybeDisk
<1>g. \A step : LET o == [op EXCEPT !.step = step] IN o.step = step /\ o.name = n
  BY <1>0 DEF Op
<1>i. /\ op.step # "unwind"
      /\ ~Counted(n)
      /\ mnt[n] # "dead"
      /\ Mounted(n) <=> op.step \in {"incRef", "umount"}
      /\ op.step \in {"prepare", "mount", "incRef"} => AttachedHere(n)
      /\ Mounted(n) => AttachedHere(n) /\ Tracked(n)
  BY <1>0 DEF MountInv, WorkInv, Fits, MountedIs, CountFits, MountSteps, UnmountSteps
<1>u. OneContainer => using[n] = 0
  <2>1. OneContainer => /\ using[n] > 0 => Mounted(n)
                        /\ Tracked(n) => using[n] <= mem[n].ref
    BY <1>0 DEF MountInv, Fits, UseFits
  <2>2. Tracked(n) => mem[n].ref \in Nat
    BY <1>t, CountIs DEF Tracked
  <2> QED
    BY <1>i, <1>t, <2>1, <2>2 DEF Counted
<1>s. UNCHANGED mem => ~Counted(n)'
  BY <1>i DEF Counted, Tracked
<1>r. Tracked(n)' => mem'[n].ref \in Nat
  BY CountIs DEF BaseInv, TypeOK, Tracked
<1>1. CASE MountAttachGet
  <2>1. PICK r \in GetCall(disk[n]) :
          \/ r.disk # NoDisk /\ r.disk.user = Self /\ Goto("prepare")
          \/ Goto("attach")
          \/ Return
    BY <1>1 DEF MountAttachGet
  <2>2. r.disk = disk[n] /\ op.step = "attachGet" /\ UNCHANGED <<disk, mnt, using, mem>>
    BY <1>1, OutcomeIs DEF GetCall, MountAttachGet, At
  <2>3. op' # NoOp => /\ op'.name = n
                      /\ op'.step \in {"prepare", "attach"}
                      /\ op'.step = "prepare" => AttachedHere(n)'
    BY <1>g, <2>1, <2>2 DEF Goto, Return, AttachedHere
  <2> QED
    BY <1>0, <1>i, <1>s, <2>2, <2>3, UnmountedFits
<1>2. CASE MountAttach
  <2> DEFINE e == [disk[n] EXCEPT !.user = Self]
  <2>1. PICK r \in AttachCall(disk[n], Self) :
          SetDisk(n, r.disk) /\ IF r.ok THEN Goto("prepare") ELSE Return
    BY <1>2 DEF MountAttach
  <2>2. r.ok => disk[n] # NoDisk /\ r.disk = e
    BY DEF AttachCall, Outcomes, Failed
  <2>3. disk[n] # NoDisk => e # NoDisk /\ e.user = Self
    <3>1. disk[n] # NoDisk => e \in Disk /\ e.user = Self
      BY <1>0, DriverAssumption DEF MaybeDisk, Disk
    <3> QED
      BY <3>1, ComputeAssumption
  <2>4. r.ok => AttachedHere(n)'
    BY <1>t, <2>1, <2>2, <2>3 DEF SetDisk, AttachedHere
  <2>5. op.step = "attach" /\ UNCHANGED <<mnt, using, mem>>
    BY <1>2 DEF MountAttach, At
  <2>6. op' # NoOp => op'.name = n /\ op'.step = "prepare" /\ AttachedHere(n)'
    BY <1>g, <2>1, <2>4 DEF Goto, Return
  <2> QED
    BY <1>0, <1>i, <1>s, <2>5, <2>6, UnmountedFits
<1>3. CASE MountPrepare
  <2>1. /\ op.step = "prepare" /\ UNCHANGED <<disk, mnt, using, mem>>
        /\ op'.name = n /\ op'.step \in {"mount", "detachGet"}
    BY <1>3, <1>g DEF MountPrepare, At, Goto
  <2>2. AttachedHere(n)'
    BY <1>i, <2>1 DEF AttachedHere
  <2> QED
    BY <1>0, <1>i, <1>s, <2>1, <2>2, UnmountedFits
<1>4. CASE MountMount
  <2>1. op.step = "mount" /\ UNCHANGED <<disk, using, mem>>
    BY <1>4 DEF MountMount, At
  <2>2. CASE Goto("detachGet") /\ UNCHANGED mnt
    <3>1. op'.name = n /\ op'.step = "detachGet"
      BY <1>g, <2>2 DEF Goto
    <3> QED
      BY <1>0, <1>i, <1>s, <2>1, <2>2, <3>1, UnmountedFits
  <2>3. CASE Goto("incRef") /\ mnt' = [mnt EXCEPT ![n] = IF @ = "none" THEN "live" ELSE @]
    <3>1. op'.name = n /\ op'.step = "incRef" /\ op' # NoOp
      BY <1>0, <1>g, <2>3, OpSet DEF Goto, OpSteps, MountSteps
    <3>2. mnt'[n] = "live"
      BY <1>i, <1>t, <2>1, <2>3 DEF Mounted, Mounts
    <3>3. Tracked(n)' /\ AttachedHere(n)'
      BY <1>0, <1>i, <2>1 DEF BaseInv, StoreInv, Tracked, AttachedHere, MountSteps
    <3> QED
      BY <1>r, <1>s, <1>u, <2>1, <3>1, <3>2, <3>3 DEF StepFits, WorkInv, Mounted
  <2> QED
    BY <1>4, <2>2, <2>3 DEF MountMount
<1>5. CASE MountIncRef
  <2>1. PICK w \in Saved(IncRef(mem, n)) :
          /\ Save(IncRef(mem, n), w)
          /\ w.ok => Return /\ using' = [using EXCEPT ![n] = @ + 1]
    BY <1>5 DEF MountIncRef
  <2>2. /\ w.ok
        /\ op' = NoOp /\ mem' = IncRef(mem, n) /\ using'[n] = using[n] + 1
    BY <1>t, <2>1 DEF Undisturbed, Saved, Save, Return
  <2>3. op.step = "incRef" /\ UNCHANGED <<disk, mnt>>
    BY <1>5 DEF MountIncRef, At
  <2>4. Mounted(n) /\ AttachedHere(n) /\ Tracked(n)
    BY <1>i, <2>3
  <2>5. mem'[n] # NoVolume /\ mem'[n].ref = mem[n].ref + 1 /\ mem[n].ref \in Nat
    BY <1>t, <2>2, <2>4, StoreKeeps, CountIs DEF Tracked
  <2>6. Counted(n)' /\ Mounted(n)' /\ AttachedHere(n)' /\ Tracked(n)'
    BY <2>3, <2>4, <2>5 DEF Counted, Tracked, Mounted, AttachedHere
  <2>7. OneContainer => using'[n] = 1 /\ using'[n] <= mem'[n].ref
    BY <1>u, <2>2, <2>5
  <2> QED
    BY <2>2, <2>6, <2>7 DEF StepFits, Mounted
<1>6. CASE MountUnwind
  BY <1>6, <1>i DEF MountUnwind, At
<1>7. CASE UnmountUmount
  <2>1. /\ mnt' = [mnt EXCEPT ![n] = "none"] /\ Goto("detachGet")
        /\ UNCHANGED <<disk, using, mem>>
    BY <1>7 DEF UnmountUmount, Undisturbed
  <2>2. op'.name = n /\ op'.step = "detachGet"
    BY <1>g, <2>1 DEF Goto
  <2>3. mnt'[n] = "none"
    BY <1>t, <2>1
  <2> QED
    BY <1>r, <1>s, <1>u, <2>1, <2>2, <2>3 DEF StepFits, WorkInv, Mounted
<1>8. CASE DetachGet
  <2>1. op.step = "detachGet" /\ UNCHANGED <<disk, mnt, using, mem>>
    BY <1>8 DEF DetachGet, At
  <2>2. op' # NoOp => op'.name = n /\ op'.step = "detach"
    BY <1>8, <1>g DEF DetachGet, Goto, Return
  <2> QED
    BY <1>0, <1>i, <1>s, <2>1, <2>2, UnmountedFits
\* The mount is gone before the disk is.
<1>9. CASE Detach
  <2>1. op.step = "detach" /\ op' = NoOp /\ UNCHANGED <<using, mem>>
    BY <1>9 DEF Detach, At, Return
  <2>2. ~Mounted(n)
    BY <1>i, <2>1
  <2>3. mnt'[n] = mnt[n]
    BY <1>9, <1>t, <2>2 DEF Detach, Mounted
  <2> QED
    BY <1>0, <1>i, <1>s, <2>1, <2>3, UnmountedFits
<1> QED
  BY <1>1, <1>2, <1>3, <1>4, <1>5, <1>6, <1>7, <1>8, <1>9

(***************************************************************************)
(* The other processes.                                                    *)
(***************************************************************************)
\* A call on one name, which begins without an operation.
LEMMA CallMounts ==
    ASSUME Undisturbed, BaseInv, MountInv, NEW n \in Name,
           \/ \E o \in Requests : Create(n, o)
           \/ RemoveRetain(n) \/ RemoveDelete(n)
           \/ MountAgain(n) \/ MountFirst(n)
           \/ UnmountNothing(n) \/ UnmountDecRef(n)
    PROVE  MountInv'
<1>t. /\ mem \in Store /\ using \in [Name -> Nat]
  BY DEF BaseInv, TypeOK
<1>w. \A m, w : /\ w \in Saved(m) => w.ok
                /\ Save(m, w) => mem' = m
  BY DEF Undisturbed, Saved, Save
<1>0. op = NoOp /\ phase = "serving" /\ UNCHANGED <<phase, disk, mnt, todo>>
  BY DEF Free, Create, RemoveRetain, RemoveDelete, Removable, MountAgain, MountFirst,
     UnmountNothing, UnmountDecRef
<1>i. /\ mnt[n] # "dead"
      /\ Counted(n) => Mounted(n)
      /\ Mounted(n) => AttachedHere(n) /\ (Counted(n) \/ Deleting(disk[n]))
      /\ Mounted(n) /\ Tracked(n) => Counted(n)
  BY <1>0 DEF MountInv, Fits, MountedIs, CountFits, Halfway
<1>r. Tracked(n) => mem[n].ref \in Nat
  BY <1>t, CountIs DEF Tracked
<1>u. OneContainer =>
        /\ using[n] > 0 => Mounted(n)
        /\ Tracked(n) => using[n] <= mem[n].ref
        /\ "crash" \in Faults => using[n] <= 1
  BY <1>0, <1>i DEF MountInv, Fits, UseFits
<1>x. /\ \A k \in Name : k # n => Dropped(mem, n)[k] = mem[k]
      /\ Dropped(mem, n)[n] = NoVolume
      /\ Tracked(n) => \A k \in Name : k # n => /\ IncRef(mem, n)[k] = mem[k]
                                                /\ DecRef(mem, n)[k] = mem[k]
      /\ Tracked(n) => /\ IncRef(mem, n)[n] # NoVolume
                       /\ DecRef(mem, n)[n] # NoVolume
                       /\ IncRef(mem, n)[n].ref = mem[n].ref + 1
                       /\ mem[n].ref > 0 => DecRef(mem, n)[n].ref = mem[n].ref - 1
  BY <1>t, StoreKeeps, CountIs DEF Tracked
\* What has to be shown of the name, and the rest of it.
<1> DEFINE Own ==
      /\ \A k \in Name : k # n =>
            mem'[k] = mem[k] /\ using'[k] = using[k]
      /\ Mounted(n) => \/ Tracked(n)' /\ (Counted(n)' \/ Halfway(n)')
                       \/ ~Tracked(n)' /\ Deleting(disk[n])
      /\ Counted(n)' => Mounted(n)
      /\ OneContainer =>
            /\ using'[n] > 0 => Mounted(n)
            /\ Tracked(n)' => using'[n] <= mem'[n].ref
            /\ "crash" \in Faults => using'[n] <= 1
      /\ op' # NoOp => /\ op'.name = n
                       /\ ~Counted(n)'
                       /\ \/ op'.step = "getDisk" /\ ~Tracked(n)'
                          \/ op'.step = "attachGet" /\ ~Mounted(n)
                          \/ op'.step = "umount" /\ Mounted(n) /\ Tracked(n)'
<1>q. ASSUME Own
      PROVE  MountInv'
  <2>1. ASSUME NEW k \in Name, k # n
        PROVE  Fits(k)'
    BY <1>0, <1>q, <2>1, OthersFit, SameDiskKeeps DEF MountInv, Halfway
  <2>2. Mounted(n)' <=> Mounted(n)
    BY <1>0 DEF Mounted
  <2>3. MountedIs(n)'
    BY <1>0, <1>i, <2>2 DEF MountedIs, AttachedHere
  <2>4. CountFits(n)'
    BY <1>0, <1>q, <2>2 DEF CountFits
  <2>5. OneContainer => UseFits(n)'
    BY <1>0, <1>q, <2>2 DEF UseFits
  <2>6. WorkInv'
    BY <1>q, <2>2 DEF WorkInv
  <2> QED
    BY <2>1, <2>3, <2>4, <2>5, <2>6 DEF MountInv, Fits, OneContainer
<1>1. ASSUME NEW o \in Requests, Create(n, o)
      PROVE  MountInv'
  <2>1. /\ op'.name = n /\ op'.step = "getDisk" /\ ~Tracked(n)
        /\ UNCHANGED <<mem, using>>
    BY <1>1 DEF Create, Begin
  <2>2. ~Counted(n)' /\ ~Tracked(n)' /\ ~Counted(n)
    BY <2>1 DEF Counted, Tracked
  <2>3. Own
    BY <1>i, <1>u, <2>1, <2>2
  <2> QED
    BY <1>q, <2>3
<1>2. CASE RemoveRetain(n) \/ RemoveDelete(n)
  <2>1. /\ mem' = Dropped(mem, n) /\ op' = NoOp /\ using' = using
        /\ Tracked(n) /\ mem[n].ref = 0
    BY <1>2, <1>w DEF RemoveRetain, RemoveDelete, Removable, Free
  <2>2. ~Counted(n) /\ ~Mounted(n) /\ ~Counted(n)' /\ ~Tracked(n)'
    BY <1>i, <1>x, <2>1 DEF Counted, Tracked
  <2>3. Own
    BY <1>t, <1>u, <1>x, <2>1, <2>2
  <2> QED
    BY <1>q, <2>3
<1>3. CASE MountAgain(n)
  <2>1. /\ mem' = IncRef(mem, n) /\ op' = NoOp
        /\ Counted(n) /\ using[n] < MaxContainers
        /\ using' = [using EXCEPT ![n] = @ + 1]
    BY <1>3, <1>0, <1>w DEF MountAgain, Counted
  <2>2. Counted(n)' /\ Tracked(n)' /\ mem'[n].ref = mem[n].ref + 1
    BY <1>r, <1>x, <2>1 DEF Counted, Tracked
  <2>3. OneContainer =>
          /\ using'[n] <= mem'[n].ref
          /\ "crash" \in Faults => using'[n] <= 1
    BY <1>r, <1>t, <1>u, <2>1, <2>2, DriverAssumption DEF OneContainer, Counted
  <2>4. Own
    BY <1>i, <1>t, <1>x, <2>1, <2>2, <2>3 DEF Counted
  <2> QED
    BY <1>q, <2>4
<1>4. CASE MountFirst(n)
  <2>1. /\ op'.name = n /\ op'.step = "attachGet" /\ mem[n].ref = 0 /\ Tracked(n)
        /\ UNCHANGED <<mem, using>>
    BY <1>4 DEF MountFirst, Begin
  <2>2. ~Counted(n) /\ ~Counted(n)' /\ ~Mounted(n) /\ (Tracked(n)' <=> Tracked(n))
    BY <1>i, <2>1 DEF Counted, Tracked
  <2>3. Own
    BY <1>u, <2>1, <2>2
  <2> QED
    BY <1>q, <2>3
<1>5. CASE UnmountNothing(n)
  <2>1. /\ using[n] > 0 /\ using' = [using EXCEPT ![n] = @ - 1]
        /\ Tracked(n) => mem[n].ref = 0
        /\ op' = NoOp /\ UNCHANGED mem
    BY <1>5, <1>0 DEF UnmountNothing
  <2>2. ~Counted(n) /\ ~Counted(n)' /\ (Tracked(n)' <=> Tracked(n))
    BY <2>1 DEF Counted, Tracked
  <2>3. using'[n] = using[n] - 1 /\ using[n] \in Nat
    BY <1>t, <2>1
  <2>4. OneContainer =>
          /\ using'[n] > 0 => Mounted(n)
          /\ Tracked(n)' => using'[n] <= mem'[n].ref
          /\ "crash" \in Faults => using'[n] <= 1
    <3>1. OneContainer /\ using[n] > 0 => Mounted(n) /\ ~Tracked(n)
      BY <1>t, <1>u, <2>1
    <3> QED
      BY <1>u, <2>1, <2>2, <2>3, <3>1
  <2>5. Own
    BY <1>i, <1>t, <2>1, <2>2, <2>4
  <2> QED
    BY <1>q, <2>5
<1>6. CASE UnmountDecRef(n)
  <2>1. /\ using[n] > 0 /\ using' = [using EXCEPT ![n] = @ - 1]
        /\ Counted(n) /\ mem' = DecRef(mem, n)
        /\ op' = IF mem[n].ref = 1
                 THEN [step |-> "umount", name |-> n, opts |-> mem[n].opts] ELSE NoOp
    BY <1>6, <1>0, <1>w DEF UnmountDecRef, Counted, Begin
  <2>2. Tracked(n)' /\ mem'[n].ref = mem[n].ref - 1 /\ using'[n] = using[n] - 1
    BY <1>t, <1>x, <2>1 DEF Counted, Tracked
  <2>3. Counted(n)' <=> mem[n].ref > 1
    BY <1>r, <2>1, <2>2 DEF Counted
  <2>4. OneContainer =>
          /\ using'[n] <= mem'[n].ref
          /\ "crash" \in Faults => using'[n] <= 1
    BY <1>r, <1>t, <1>u, <2>1, <2>2, <2>3 DEF Counted
  <2>5. op' # NoOp => op'.name = n /\ op'.step = "umount" /\ mem[n].ref = 1
    BY <2>1
  <2>6. mem[n].ref = 1 => Halfway(n)'
    <3>1. mem[n].opts \in DiskOptions
      BY <1>t, <2>1 DEF Store, Counted, Tracked, Volume
    <3>2. mem[n].ref = 1 => op' # NoOp
      BY <2>1, <3>1, OpNew DEF OpSteps, UnmountSteps
    <3> QED
      BY <2>1, <3>2, <2>5 DEF Halfway
  <2>7. /\ mem[n].ref # 1 => Counted(n)'
        /\ op' # NoOp => ~Counted(n)'
    BY <1>r, <2>1, <2>3, <2>5 DEF Counted
  <2>8. Own
    BY <1>i, <1>t, <1>x, <2>1, <2>2, <2>4, <2>5, <2>6, <2>7 DEF Counted
  <2> QED
    BY <1>q, <2>8
<1> QED
  BY <1>1, <1>2, <1>3, <1>4, <1>5, <1>6

\* A deletion, whoever resumed it, leaves an attached disk where it is.
LEMMA BackgroundKeeps ==
    ASSUME BaseInv, NEW n \in Name, NEW s \in Slots, DeleteInBackground(n, s)
    PROVE  \A k \in Name : Keeps(k)
<1>t. disk \in [Name -> MaybeDisk]
  BY DEF BaseInv, TypeOK, MaybeDisk
<1>1. PICK r \in DeleteDisk(disk[n], jobs[n][s].step, jobs[n][s].snapshot) :
        BackgroundEffect(n, s, r)
  BY BackgroundIs DEF BaseInv
<1>2. \A k \in Name : k # n => Keeps(k)
  BY <1>t, <1>1, SameDiskKeeps DEF BackgroundEffect
<1>3. /\ disk[n] = NoDisk => r.disk = NoDisk
      /\ disk[n] # NoDisk /\ r.disk = NoDisk => ~Attached(disk[n])
      /\ r.disk # NoDisk => /\ r.disk.user = disk[n].user
                            /\ Deleting(disk[n]) => Deleting(r.disk)
  BY <1>1, DeleteDiskIs DEF BackgroundEffect
<1>4. Keeps(n)
  <2>1. Self # nobody
    BY ComputeAssumption, DriverAssumption
  <2> QED
    BY <1>t, <1>1, <1>3, <2>1 DEF BackgroundEffect, Keeps, AttachedHere, Attached
<1> QED
  BY <1>2, <1>4

LEMMA BackgroundMounts ==
    ASSUME BaseInv, MountInv, NEW n \in Name, NEW s \in Slots, DeleteInBackground(n, s)
    PROVE  MountInv'
<1>1. UNCHANGED <<mnt, using, phase, todo, mem, op>>
  BY DEF DeleteInBackground
<1> QED
  BY <1>1, BackgroundKeeps, ZoneMounts

LEMMA StartupMounts ==
    ASSUME Undisturbed, BaseInv, ForeignInv, MountInv, Startup
    PROVE  MountInv'
<1>0. op = NoOp
  BY DEF BaseInv, PhaseInv, Startup, Start, ReconcileStore, ResetRefCounts,
     RestoreMount, Serve
<1>t. /\ mem \in Store /\ file \in Store /\ disk \in [Name -> MaybeDisk]
      /\ mnt \in [Name -> Mounts] /\ using \in [Name -> Nat]
  BY DEF BaseInv, TypeOK, MaybeDisk
<1>w. \A m, w : /\ w \in Saved(m) => w.ok
                /\ Save(m, w) => mem' = m
  BY DEF Undisturbed, Saved, Save
<1>u. UNCHANGED <<disk, mnt, using>>
  BY DEF Startup, Start, ReconcileStore, ResetRefCounts, RestoreMount, Serve
<1>p. phase \in {"down", "listed", "reset", "restore"}
  BY DEF Startup, Start, ReconcileStore, ResetRefCounts, RestoreMount, Serve
<1>f. \A k \in Name : Fits(k)
  BY DEF MountInv
\* What has to be shown while the plugin does not serve yet.
<1>q. ASSUME op' = NoOp, phase' # "serving",
             \A k \in Name : MountedIs(k)' /\ CountFits(k)'
      PROVE  MountInv'
  <2>1. \A k \in Name : OneContainer => UseFits(k)'
    BY <1>f, <1>p, <1>q, <1>u DEF Fits, UseFits, Mounted
  <2> QED
    BY <1>q, <2>1 DEF MountInv, WorkInv, Fits, OneContainer
<1>m. \A k \in Name : MountedIs(k)'
  BY <1>f, <1>u DEF Fits, MountedIs, Mounted, AttachedHere
<1>1. CASE Start
  <2>1. /\ phase' = "listed" /\ op' = NoOp
        /\ mem' = Reconciled(file, Listed \ Marked, disk)
    BY <1>0, <1>1 DEF Start
  <2>2. \A k \in Listed \ Marked : Tracked(k)'
    <3>1. Listed \ Marked \in SUBSET Name /\ \A k \in Listed \ Marked : disk[k] # NoDisk
      BY DEF Listed
    <3> QED
      BY <1>t, <2>1, <3>1, ReconciledIs DEF Tracked
  <2>3. ASSUME NEW k \in Name, Mounted(k)
        PROVE  Tracked(k)' \/ Deleting(disk[k])
    <3>1. disk[k] # NoDisk /\ disk[k].user = Self
      BY <1>f, <2>3 DEF Fits, MountedIs, AttachedHere
    <3>2. Managed(disk[k])
      BY <3>1 DEF ForeignInv, Foreign
    <3> QED
      BY <2>2, <3>1, <3>2 DEF Listed, Marked
  <2>4. \A k \in Name : CountFits(k)'
    BY <1>u, <2>1, <2>3 DEF CountFits, Mounted
  <2> QED
    BY <1>m, <1>q, <2>1, <2>4
<1>2. CASE ReconcileStore
  <2>1. /\ mem' = mem /\ phase' = "reset" /\ phase = "listed"
        /\ UNCHANGED op
    BY <1>2, <1>w DEF ReconcileStore
  <2>2. \A k \in Name : CountFits(k)'
    BY <1>f, <1>u, <2>1 DEF Fits, CountFits, Mounted, Tracked
  <2> QED
    BY <1>0, <1>m, <1>q, <2>1, <2>2
<1>3. CASE ResetRefCounts
  <2>1. /\ mem' = AllReset(mem) /\ phase' = "restore" /\ phase = "reset"
        /\ todo' = {n \in Name : Tracked(n)}
        /\ UNCHANGED op
    BY <1>3, <1>w DEF ResetRefCounts
  <2>2. ASSUME NEW k \in Name
        PROVE  CountFits(k)'
    <3>1. /\ Tracked(k)' <=> Tracked(k)
          /\ ~Counted(k)'
      BY <1>t, <2>1, StoreKeeps, CountIs DEF Counted, Tracked
    <3>2. /\ Mounted(k)' => Tracked(k) \/ Deleting(disk'[k])
          /\ Tracked(k) => k \in todo'
      BY <1>f, <1>u, <2>1 DEF Fits, CountFits, Mounted
    <3> QED
      BY <2>1, <3>1, <3>2 DEF CountFits
  <2> QED
    BY <1>0, <1>m, <1>q, <2>1, <2>2
<1>4. ASSUME NEW n \in Name, RestoreMount(n)
      PROVE  MountInv'
  <2>1. /\ phase = "restore" /\ phase' = "restore" /\ n \in todo /\ todo' = todo \ {n}
        /\ mnt[n] # "none" => mem' = SetMounted(mem, n)
        /\ mnt[n] = "none" => mem' = mem
        /\ UNCHANGED op
    BY <1>4, <1>w DEF RestoreMount, Undisturbed
  <2>2. Tracked(n)
    BY <2>1 DEF BaseInv, StoreInv
  <2>3. mnt[n] # "none" <=> Mounted(n)
    BY <1>f, <1>t DEF Fits, MountedIs, Mounted, Mounts
  <2>4. CountFits(n)'
    <3>1. CASE Mounted(n)
      <4>1. Tracked(n)' /\ Counted(n)' /\ Mounted(n)'
        BY <1>t, <1>u, <2>1, <2>2, <2>3, <3>1, StoreKeeps, CountIs
           DEF Counted, Tracked, Mounted
      <4> QED
        BY <2>1, <4>1 DEF CountFits
    <3>2. CASE ~Mounted(n)
      BY <1>f, <1>u, <2>1, <2>3, <3>2 DEF Fits, CountFits, Counted, Tracked, Mounted
    <3> QED
      BY <3>1, <3>2
  <2>5. ASSUME NEW k \in Name, k # n
        PROVE  CountFits(k)'
    <3>1. mem'[k] = mem[k]
      BY <1>t, <2>1, <2>2, <2>5, StoreKeeps DEF Tracked
    <3> QED
      BY <1>f, <1>u, <2>1, <2>5, <3>1 DEF Fits, CountFits, Counted, Tracked, Mounted
  <2> QED
    BY <1>0, <1>m, <1>q, <2>1, <2>4, <2>5
<1>5. CASE Serve
  <2>1. /\ phase = "restore" /\ phase' = "serving" /\ todo = {}
        /\ UNCHANGED <<todo, mem, op>>
    BY <1>5 DEF Serve
  <2>2. ASSUME NEW k \in Name
        PROVE  CountFits(k)' /\ (OneContainer => UseFits(k)')
    <3>1. /\ Counted(k) => Mounted(k)
          /\ Mounted(k) => Tracked(k) \/ Deleting(disk[k])
          /\ Mounted(k) /\ Tracked(k) => Counted(k)
          /\ Mounted(k)' <=> Mounted(k)
          /\ Counted(k)' <=> Counted(k)
          /\ Tracked(k)' <=> Tracked(k)
      BY <1>f, <1>u, <2>1 DEF Fits, CountFits, Mounted, Counted, Tracked
    <3>2. CountFits(k)'
      BY <1>u, <2>1, <3>1 DEF CountFits
    <3>3. OneContainer => UseFits(k)'
      <4>1. Tracked(k) => mem[k].ref \in Nat
        BY <1>t, CountIs DEF Tracked
      <4>2. OneContainer => /\ using[k] > 0 => Mounted(k)
                            /\ using[k] <= 1
        BY <1>f, <2>1 DEF Fits, UseFits
      <4> QED
        BY <1>t, <1>u, <2>1, <3>1, <4>1, <4>2 DEF UseFits, Counted
    <3> QED
      BY <3>2, <3>3
  <2> QED
    BY <1>0, <1>m, <2>1, <2>2 DEF MountInv, WorkInv, Fits, OneContainer
<1> QED
  BY <1>1, <1>2, <1>3, <1>4, <1>5 DEF Startup

\* Another VM takes a disk nobody uses, and detaches its own.
LEMMA OtherKeeps ==
    ASSUME disk \in [Name -> MaybeDisk], NEW n \in Name,
           NEW i \in Instances \cup {nobody}, i # Self,
           disk[n] # NoDisk, disk[n].user # Self,
           SetDisk(n, [disk[n] EXCEPT !.user = i])
    PROVE  \A k \in Name : Keeps(k)
<1>1. \A k \in Name : k # n => Keeps(k)
  BY SameDiskKeeps DEF SetDisk
<1>2. disk'[n].user = i
  BY DEF SetDisk, MaybeDisk, Disk
<1>3. Keeps(n)
  BY <1>2 DEF Keeps, AttachedHere
<1> QED
  BY <1>1, <1>3

\* Mounts survive the plugin, and go with the VM; nobody else takes a disk that
\* is attached here.
LEMMA EnvironmentMounts ==
    ASSUME BaseInv, MountInv, Environment
    PROVE  MountInv'
<1>t. /\ disk \in [Name -> MaybeDisk] /\ using \in [Name -> Nat]
  BY DEF BaseInv, TypeOK, MaybeDisk
<1>f. \A k \in Name : Fits(k)
  BY DEF MountInv
<1>1. CASE Crash
  <2>1. /\ phase' = "down" /\ op' = NoOp
        /\ "crash" \in Faults /\ UNCHANGED <<disk, mnt, using>>
    BY <1>1 DEF Crash, Exit
  <2>2. ASSUME NEW k \in Name
        PROVE  Fits(k)'
    <3>1. MountedIs(k)'
      BY <1>f, <2>1 DEF Fits, MountedIs, Mounted, AttachedHere
    <3>2. CountFits(k)' /\ (OneContainer => UseFits(k)')
      BY <1>f, <2>1 DEF Fits, CountFits, UseFits, Mounted
    <3> QED
      BY <3>1, <3>2 DEF Fits, OneContainer
  <2> QED
    BY <2>1, <2>2 DEF MountInv, WorkInv
<1>2. CASE Reboot
  <2>1. /\ phase' = "down" /\ op' = NoOp
        /\ \A k \in Name : mnt'[k] = "none" /\ using'[k] = 0
    BY <1>2 DEF Reboot, Exit
  <2>2. \A k \in Name : Fits(k)'
    BY <2>1 DEF Fits, MountedIs, CountFits, UseFits, Mounted
  <2> QED
    BY <2>1, <2>2 DEF MountInv, WorkInv
<1>3. ASSUME NEW n \in Name, UnmountUnheard(n)
      PROVE  MountInv'
  <2>1. /\ phase # "serving" /\ using[n] > 0
        /\ using' = [using EXCEPT ![n] = @ - 1]
        /\ UNCHANGED <<disk, mnt, phase, todo, mem, op>>
    BY <1>3 DEF UnmountUnheard
  <2>2. ASSUME NEW k \in Name
        PROVE  Fits(k)'
    <3>1. MountedIs(k)' /\ CountFits(k)'
      BY <1>f, <2>1 DEF Fits, MountedIs, CountFits, Mounted, Counted, Tracked,
         AttachedHere, Halfway
    <3>2. using'[k] \in Nat /\ using'[k] <= using[k]
      BY <1>t, <2>1
    <3>3. OneContainer => UseFits(k)'
      BY <1>f, <1>t, <2>1, <3>2 DEF Fits, UseFits, Mounted
    <3> QED
      BY <3>1, <3>3 DEF Fits, OneContainer
  <2> QED
    BY <2>1, <2>2 DEF MountInv, WorkInv, Counted, Tracked, Mounted, AttachedHere
<1>4. ASSUME NEW n \in Name, NEW i \in Instances \cup {nobody},
             disk[n] # NoDisk, disk[n].user # Self,
             SetDisk(n, [disk[n] EXCEPT !.user = i]),
             i # Self, UNCHANGED <<mnt, using, phase, todo, mem, op>>
      PROVE  MountInv'
  BY <1>4, <1>t, OtherKeeps, ZoneMounts
<1>5. ASSUME NEW n \in Name, OtherDetach(n)
      PROVE  MountInv'
  BY <1>4, <1>5, DriverAssumption, ComputeAssumption DEF OtherDetach
<1>6. ASSUME NEW n \in Name, NEW i \in Instances, OtherAttach(n, i)
      PROVE  MountInv'
  BY <1>4, <1>6, DriverAssumption, ComputeAssumption DEF OtherAttach
<1> QED
  BY <1>1, <1>2, <1>3, <1>5, <1>6 DEF Environment

(***************************************************************************)
(* The theorems.                                                           *)
(***************************************************************************)
LEMMA MountNext ==
    ASSUME Undisturbed, BaseInv, ForeignInv, MountInv, [Next]_vars
    PROVE  MountInv'
<1>1. BaseInv'
  BY BaseNext
<1>2. CASE Call
  BY <1>2, CallMounts DEF Call
<1>3. CASE Step
  <2>1. op # NoOp
    BY <1>3 DEF Step, At, CreateGetDisk, CreateAdopt, CreateInsert, CreateConfirm,
       CreateAdd, CreateRollback, MountAttachGet, MountAttach, MountPrepare,
       MountMount, MountIncRef, MountUnwind, UnmountUmount, DetachGet, Detach
  <2>2. PICK n \in Name : n = op.name
    BY <2>1, OpIs
  <2>3. StepFits(n)
    BY <1>1, <1>3, <2>2, CreateStepFits, MountStepFits DEF Step
  <2> QED
    BY <1>3, <2>1, <2>2, <2>3, StepIsAlone, StepMounts
<1>4. CASE Background
  BY <1>4, BackgroundMounts DEF Background
<1>5. CASE Startup
  BY <1>5, StartupMounts
<1>6. CASE Environment
  BY <1>6, EnvironmentMounts
<1>7. CASE UNCHANGED vars
  BY <1>7 DEF vars, MountInv, WorkInv, Fits, MountedIs, CountFits, UseFits, Mounted,
     Counted, Tracked, AttachedHere, Halfway
<1> QED
  BY <1>2, <1>3, <1>4, <1>5, <1>6, <1>7 DEF Next

LEMMA MountAlways == Undisturbed => (Spec => []MountInv)
<1> SUFFICES ASSUME Undisturbed PROVE Spec => []MountInv
  OBVIOUS
<1>1. Init => MountInv
  BY MountInit
<1>2. BaseInv /\ ForeignInv /\ MountInv /\ [Next]_vars => MountInv'
  BY MountNext
<1> QED
  BY <1>1, <1>2, BaseAlways, ForeignAlways, PTL DEF Spec

\* A positive count stands for a live mount of an attached disk, after a restart
\* of the plugin or of the VM and in the middle of an operation too (Mount,
\* Unmount, Reconcile).
THEOREM CountIsMounted == Undisturbed => (Spec => []AdvertisedIsMounted)
<1>1. MountInv => AdvertisedIsMounted
  BY DEF MountInv, Fits, MountedIs, CountFits, Counted, AdvertisedIsMounted, Mounted
<1> QED
  BY <1>1, MountAlways, PTL

\* Mount's own steps before the count work, and its unwinding, where a write can
\* fail, umounts.
DevicesWork ==
    /\ "device" \notin Faults
    /\ "persist" \notin Faults \/ "umount" \notin Faults

\* DetachDisk is called when the umount has worked.
TornInv ==
    /\ NeverTorn
    /\ op # NoOp /\ op.step \in {"detachGet", "detach"} => mnt[op.name] = "none"
    /\ "persist" \notin Faults => op = NoOp \/ op.step # "unwind"

LEMMA StepNotTorn ==
    ASSUME DevicesWork, BaseInv, TornInv, Step
    PROVE  TornInv'
<1>0. /\ op # NoOp /\ op \in Op /\ op.name \in Name
      /\ mnt \in [Name -> Mounts]
  BY OpIs DEF Step, At, CreateGetDisk, CreateAdopt, CreateInsert, CreateConfirm,
     CreateAdd, CreateRollback, MountAttachGet, MountAttach, MountPrepare,
     MountMount, MountIncRef, MountUnwind, UnmountUmount, DetachGet, Detach,
     BaseInv, TypeOK
<1>g. \A step : LET o == [op EXCEPT !.step = step] IN
        o.step = step /\ o.name = op.name
  BY <1>0 DEF Op
\* Steps that neither umount nor come to a detach.
<1>1. ASSUME \A n \in Name : mnt'[n] = mnt[n] \/ mnt'[n] \in {"none", "live"},
             op' = NoOp \/ op'.step \notin {"detachGet", "detach", "unwind"}
      PROVE  TornInv'
  BY <1>1 DEF TornInv, NeverTorn
<1>2. CASE \/ CreateGetDisk \/ CreateAdopt \/ CreateInsert \/ CreateConfirm
           \/ CreateAdd \/ CreateRollback
  <2>1. op' = NoOp \/ op'.step \in CreateSteps \cup DeleteSteps
    <3>1. CASE CreateRollback
      <4>1. PICK snap \in BOOLEAN : snap = FALSE
        OBVIOUS
      <4>2. PICK r \in DeleteDisk(disk[op.name], op.step, snap) :
              IF r.next = "idle" THEN Return ELSE Goto(r.next)
        BY <3>1, <4>1 DEF CreateRollback
      <4>3. op.step \in DeleteSteps /\ disk[op.name] \in MaybeDisk
        BY <1>0, <3>1 DEF CreateRollback, BaseInv, TypeOK, MaybeDisk
      <4>4. r.next \in DeleteSteps \cup {"idle"}
        BY <4>3, DeleteDiskIs
      <4> QED
        BY <1>g, <4>2, <4>4 DEF Return, Goto
    <3>2. CASE \/ CreateGetDisk \/ CreateAdopt \/ CreateInsert \/ CreateConfirm
               \/ CreateAdd
      BY <1>g, <3>2 DEF CreateGetDisk, CreateAdopt, CreateInsert, CreateConfirm,
         CreateAdd, Return, Goto, CreateSteps, DeleteSteps
    <3> QED
      BY <1>2, <3>1, <3>2
  <2>2. UNCHANGED mnt
    BY <1>2 DEF CreateGetDisk, CreateAdopt, CreateInsert, CreateConfirm, CreateAdd,
       CreateRollback
  <2> QED
    BY <1>1, <2>1, <2>2 DEF CreateSteps, DeleteSteps
<1>3. CASE MountAttachGet \/ MountAttach
  BY <1>1, <1>3, <1>g DEF MountAttachGet, MountAttach, Return, Goto
<1>4. CASE MountPrepare
  BY <1>1, <1>4, <1>g DEF MountPrepare, Goto, DevicesWork
<1>5. CASE MountMount
  <2>1. /\ op'.step = "incRef"
        /\ \A n \in Name : mnt'[n] = mnt[n] \/ mnt'[n] \in {"none", "live"}
    BY <1>0, <1>5, <1>g DEF MountMount, Goto, DevicesWork
  <2> QED
    BY <1>1, <2>1
<1>6. CASE MountIncRef
  <2>1. UNCHANGED mnt /\ (op' = NoOp \/ ("persist" \in Faults /\ op'.step = "unwind"))
    <3>1. PICK w \in Saved(IncRef(mem, op.name)) :
            (w.ok /\ Return) \/ (~w.ok /\ Goto("unwind"))
      BY <1>6 DEF MountIncRef
    <3>2. ~w.ok => "persist" \in Faults
      BY DEF Saved
    <3> QED
      BY <1>6, <1>g, <3>1, <3>2 DEF MountIncRef, Return, Goto
  <2> QED
    BY <2>1 DEF TornInv, NeverTorn
\* A write has failed, so a umount does not.
<1>7. CASE MountUnwind
  <2>1. "umount" \notin Faults
    BY <1>0, <1>7 DEF MountUnwind, At, TornInv, DevicesWork
  <2>2. /\ mnt' = [mnt EXCEPT ![op.name] = "none"]
        /\ op'.step = "detachGet" /\ op'.name = op.name
    BY <1>7, <1>g, <2>1 DEF MountUnwind, Goto
  <2> QED
    BY <1>0, <2>2 DEF TornInv, NeverTorn
<1>8. CASE UnmountUmount
  <2>1. \/ /\ mnt' = [mnt EXCEPT ![op.name] = "none"]
           /\ op'.step = "detachGet" /\ op'.name = op.name
        \/ UNCHANGED mnt /\ op' = NoOp
    BY <1>8, <1>g DEF UnmountUmount, Goto, Return
  <2> QED
    BY <1>0, <2>1 DEF TornInv, NeverTorn
<1>9. CASE DetachGet
  <2>1. /\ op.step = "detachGet" /\ UNCHANGED mnt
        /\ op' = NoOp \/ (op'.step = "detach" /\ op'.name = op.name)
    BY <1>9, <1>g DEF DetachGet, At, Goto, Return
  <2> QED
    BY <1>0, <2>1 DEF TornInv, NeverTorn
<1>10. CASE Detach
  <2>1. mnt[op.name] = "none" /\ op' = NoOp
    BY <1>0, <1>10 DEF Detach, At, Return, TornInv
  <2>2. UNCHANGED mnt
    BY <1>0, <1>10, <2>1 DEF Detach
  <2> QED
    BY <2>1, <2>2 DEF TornInv, NeverTorn
<1> QED
  BY <1>2, <1>3, <1>4, <1>5, <1>6, <1>7, <1>8, <1>9, <1>10 DEF Step

LEMMA TornNext ==
    ASSUME DevicesWork, BaseInv, TornInv, [Next]_vars
    PROVE  TornInv'
<1>1. CASE Call
  <2>1. UNCHANGED mnt
    BY <1>1 DEF Call, Create, RemoveRetain, RemoveDelete, MountAgain, MountFirst,
       UnmountNothing, UnmountDecRef
  <2>2. op' = NoOp \/ op'.step \in {"getDisk", "attachGet", "umount"}
    BY <1>1 DEF Call, Create, RemoveRetain, RemoveDelete, MountAgain, MountFirst,
       UnmountNothing, UnmountDecRef, Begin, Free, Removable
  <2> QED
    BY <2>1, <2>2 DEF TornInv, NeverTorn
<1>2. CASE Step
  BY <1>2, StepNotTorn
<1>3. CASE UNCHANGED <<mnt, op>>
  BY <1>3 DEF TornInv, NeverTorn
<1>4. CASE UNCHANGED mnt /\ op' = NoOp
  BY <1>4 DEF TornInv, NeverTorn
<1>5. CASE Reboot
  BY <1>5 DEF Reboot, Exit, TornInv, NeverTorn
<1> QED
  BY <1>1, <1>2, <1>3, <1>4, <1>5 DEF Next, vars, Background, DeleteInBackground,
     Startup, Start, ReconcileStore, ResetRefCounts, RestoreMount, Serve, Exit,
     Environment, Crash, UnmountUnheard, OtherDetach, OtherAttach

\* Every detach comes after the umount, on the error paths of Mount too: no disk is
\* detached under its mount, unless a umount that failed, or a mount that startup
\* did not see, meets an error path (Mount, Unmount, Reconcile).
THEOREM NothingIsTorn == Undisturbed \/ DevicesWork => (Spec => []NeverTorn)
<1>1. MountInv => NeverTorn
  BY DEF MountInv, Fits, MountedIs, NeverTorn
<1>2. ASSUME DevicesWork PROVE Spec => []NeverTorn
  <2>1. Init => TornInv
    BY DEF Init, TornInv, NeverTorn
  <2>2. BaseInv /\ TornInv /\ [Next]_vars => TornInv'
    BY <1>2, TornNext
  <2>3. TornInv => NeverTorn
    BY DEF TornInv
  <2> QED
    BY <2>1, <2>2, <2>3, BaseAlways, PTL DEF Spec
<1>3. ASSUME Undisturbed PROVE Spec => []NeverTorn
  BY <1>1, <1>3, MountAlways, PTL
<1> QED
  BY <1>2, <1>3

\* No container loses the file system under it: any number of containers, if the
\* plugin does not die, one a volume, if it does (Reconcile).
THEOREM ContainersKeepVolumes ==
    Undisturbed /\ OneContainer => (Spec => []UsedIsMounted)
<1> SUFFICES ASSUME Undisturbed, OneContainer PROVE Spec => []UsedIsMounted
  OBVIOUS
<1>1. MountInv => UsedIsMounted
  BY DEF MountInv, Fits, MountedIs, UseFits, UsedIsMounted, Mounted
<1> QED
  BY <1>1, MountAlways, PTL

(***************************************************************************)
(* The count and the attachment are one, when every call and write succeeds *)
(* and nothing dies: devices and mounts may fail, and other VMs take the    *)
(* disks when they can.                                                    *)
(***************************************************************************)
Quiet == ApiFaults = {} /\ Faults \subseteq {"device", "other"}

\* From AttachDisk to DetachDisk.
WorkSteps == {"prepare", "mount", "incRef", "umount", "detachGet", "detach"}
Working(n) == op # NoOp /\ op.name = n /\ op.step \in WorkSteps

Agrees(n) ==
    /\ using[n] = IF Tracked(n) THEN mem[n].ref ELSE 0
    /\ AttachedHere(n) <=> Counted(n) \/ Working(n)

\* Before the plugin has served for the first time.
Fresh(n) ==
    /\ using[n] = 0 /\ mnt[n] = "none" /\ ~AttachedHere(n)
    /\ mem[n] # NoVolume => mem[n].ref = 0
    /\ file[n] # NoVolume => file[n].ref = 0

QuietInv ==
    /\ op # NoOp => op.step # "unwind" /\ ~Counted(op.name)
    /\ \A n \in Name : IF phase = "serving" THEN Agrees(n) ELSE Fresh(n)

LEMMA QuietInit == Init => QuietInv
<1>1. Init => \A n \in Name : ~AttachedHere(n)
  BY DriverAssumption DEF Init, AttachedHere
<1> QED
  BY <1>1 DEF Init, QuietInv, Fresh, EmptyStore

LEMMA ZoneQuiet ==
    ASSUME QuietInv, \A n \in Name : Keeps(n),
           UNCHANGED <<mnt, using, phase, mem, file, op>>
    PROVE  QuietInv'
BY DEF QuietInv, Agrees, Fresh, Counted, Tracked, Working, Keeps

\* Without faults a call has one outcome.
LEMMA QuietCall ==
    ASSUME Quiet
    PROVE  /\ \A d, e : \A r \in Outcomes(d, e) : r.ok /\ r.disk = e
           /\ \A m : \A w \in Saved(m) : w.ok /\ w.file = m
BY DEF Quiet, Outcomes, Saved

LEMMA QuietStep ==
    ASSUME Quiet, BaseInv, BaseInv', QuietInv, Step
    PROVE  QuietInv'
<1>0. /\ op # NoOp /\ op \in Op /\ op.opts \in DiskOptions
      /\ phase = "serving"
  BY OpIs DEF Step, At, CreateGetDisk, CreateAdopt, CreateInsert, CreateConfirm,
     CreateAdd, CreateRollback, MountAttachGet, MountAttach, MountPrepare,
     MountMount, MountIncRef, MountUnwind, UnmountUmount, DetachGet, Detach
<1>n. PICK n \in Name : n = op.name
  BY <1>0, OpIs
<1>t. /\ disk \in [Name -> MaybeDisk] /\ mem \in Store
      /\ using \in [Name -> Nat] /\ disk[n] \in MaybeDisk
  BY DEF BaseInv, TypeOK, MaybeDisk
<1>g. \A step : LET o == [op EXCEPT !.step = step] IN o.step = step /\ o.name = n
  BY <1>0, <1>n DEF Op
<1>s. Self # nobody
  BY ComputeAssumption, DriverAssumption
\* The volume has no count, no container, and a disk from attach to detach.
<1>i. /\ op.step # "unwind" /\ ~Counted(n)
      /\ AttachedHere(n) <=> op.step \in WorkSteps
      /\ using[n] = 0
      /\ Tracked(n) => mem[n].ref = 0
  <2>1. Tracked(n) => mem[n].ref \in Nat
    BY <1>t, CountIs DEF Tracked
  <2> QED
    BY <1>0, <1>n, <2>1 DEF QuietInv, Agrees, Counted, Working
\* What has to be shown of the volume.
<1>q. ASSUME op' # NoOp => op'.name = n /\ op'.step # "unwind" /\ ~Counted(n)',
             Agrees(n)'
      PROVE  QuietInv'
  <2>1. StepAlone
    BY StepIsAlone
  <2>2. ASSUME NEW k \in Name, k # n
        PROVE  Agrees(k)'
    BY <1>0, <1>n, <2>1, <2>2
       DEF StepAlone, QuietInv, Agrees, AttachedHere, Counted, Tracked, Working
  <2> QED
    BY <1>0, <1>q, <2>1, <2>2 DEF StepAlone, QuietInv
\* Steps that change the disk alone, or nothing.
<1>k. ASSUME UNCHANGED <<mem, using>>,
             AttachedHere(n)' <=> op' # NoOp /\ op'.step \in WorkSteps,
             op' # NoOp => op'.name = n /\ op'.step # "unwind"
      PROVE  QuietInv'
  <2>1. ~Counted(n)' /\ using'[n] = 0 /\ (Tracked(n)' => mem'[n].ref = 0)
    BY <1>i, <1>k DEF Counted, Tracked
  <2> QED
    BY <1>k, <1>q, <2>1 DEF Agrees, Working
<1>u. UNCHANGED disk => (AttachedHere(n)' <=> op.step \in WorkSteps)
  BY <1>i DEF AttachedHere
<1> USE <1>g, <1>n DEF At, Goto, Return, WorkSteps
<1>1. CASE CreateGetDisk
  <2>1. op.step = "getDisk" /\ UNCHANGED <<disk, mem, using>>
    BY <1>1 DEF CreateGetDisk
  <2>2. op' # NoOp => op'.name = n /\ op'.step \in {"insert", "adopt"}
    BY <1>1 DEF CreateGetDisk
  <2> QED
    BY <1>k, <1>u, <2>1, <2>2
<1>2. CASE CreateAdopt \/ CreateAdd
  <2>1. /\ op' = NoOp /\ UNCHANGED <<disk, using>>
        /\ mem' = Added(mem, n, op.opts)
        /\ op.step \in {"adopt", "add"}
    BY <1>2, QuietCall DEF CreateAdopt, CreateAdd, Save
  <2>2. mem'[n] # NoVolume /\ mem'[n].ref = 0
    BY <1>0, <1>t, <2>1, StoreKeeps, CountIs
  <2> QED
    BY <1>i, <1>q, <1>u, <2>1, <2>2 DEF Agrees, Counted, Tracked, Working
<1>3. CASE CreateInsert
  <2>1. PICK r \in InsertCall(disk[n], op.opts) :
          SetDisk(n, r.disk) /\ IF r.ok THEN Goto("confirm") ELSE Return
    BY <1>3 DEF CreateInsert
  <2>2. r.disk = disk[n] \/ r.disk.user = nobody
    BY OutcomeIs DEF InsertCall, Failed, NewDisk
  <2>3. op.step = "insert" /\ UNCHANGED <<mem, using>>
    BY <1>3 DEF CreateInsert
  <2>4. ~AttachedHere(n)'
    BY <1>i, <1>s, <1>t, <2>1, <2>2, <2>3 DEF SetDisk, AttachedHere
  <2> QED
    BY <1>k, <2>1, <2>3, <2>4
<1>4. CASE CreateConfirm
  <2>1. op.step = "confirm" /\ UNCHANGED <<disk, mem, using>>
    BY <1>4 DEF CreateConfirm
  <2>2. op' # NoOp => op'.name = n /\ op'.step = "add"
    BY <1>4 DEF CreateConfirm
  <2> QED
    BY <1>k, <1>u, <2>1, <2>2
<1>5. CASE CreateRollback
  <2>1. op.step \in DeleteSteps /\ UNCHANGED <<mem, using>>
    BY <1>5 DEF CreateRollback
  <2>2. PICK snap \in BOOLEAN : snap = FALSE
    OBVIOUS
  <2>3. PICK r \in DeleteDisk(disk[n], op.step, snap) :
          SetDisk(n, r.disk) /\ IF r.next = "idle" THEN Return ELSE Goto(r.next)
    BY <1>5, <2>2 DEF CreateRollback
  <2>4. /\ r.next \in DeleteSteps \cup {"idle"}
        /\ disk[n] = NoDisk => r.disk = NoDisk
        /\ r.disk # NoDisk => r.disk.user = disk[n].user
    BY <1>t, <2>1, <2>3, DeleteDiskIs
  <2>5. ~AttachedHere(n)'
    BY <1>i, <1>t, <2>1, <2>3, <2>4 DEF SetDisk, AttachedHere, DeleteSteps
  <2> QED
    BY <1>k, <2>1, <2>3, <2>4, <2>5 DEF DeleteSteps
\* The disk that Mount attaches was not attached.
<1>6. CASE MountAttachGet
  <2>1. op.step = "attachGet" /\ UNCHANGED <<disk, mem, using>>
    BY <1>6 DEF MountAttachGet
  <2>2. \A r \in GetCall(disk[n]) : r.disk = disk[n]
    BY OutcomeIs DEF GetCall
  <2>3. ~AttachedHere(n)
    BY <1>i, <2>1
  <2>4. Goto("attach") \/ Return
    <3>1. PICK r \in GetCall(disk[n]) :
            \/ r.ok /\ r.disk # NoDisk /\ r.disk.user = Self /\ Goto("prepare")
            \/ Goto("attach") \/ Return
      BY <1>6 DEF MountAttachGet
    <3> QED
      BY <2>2, <2>3, <3>1 DEF AttachedHere
  <2>5. op' # NoOp => op'.name = n /\ op'.step = "attach"
    BY <2>4
  <2> QED
    BY <1>k, <1>u, <2>1, <2>5
<1>7. CASE MountAttach
  <2> DEFINE e == [disk[n] EXCEPT !.user = Self]
  <2>1. PICK r \in AttachCall(disk[n], Self) :
          SetDisk(n, r.disk) /\ IF r.ok THEN Goto("prepare") ELSE Return
    BY <1>7 DEF MountAttach
  <2>2. op.step = "attach" /\ UNCHANGED <<mem, using>>
    BY <1>7 DEF MountAttach
  <2>3. disk'[n] = r.disk
    BY <1>t, <2>1 DEF SetDisk
  <2>4. CASE r.ok
    <3>1. disk[n] # NoDisk /\ r.disk = e
      BY <2>4, QuietCall DEF AttachCall, Failed
    <3>2. e \in Disk /\ e.user = Self
      BY <1>t, <3>1, DriverAssumption DEF MaybeDisk, Disk
    <3>3. AttachedHere(n)'
      BY <2>3, <3>1, <3>2, ComputeAssumption DEF AttachedHere
    <3>4. op' = [op EXCEPT !.step = "prepare"]
      BY <2>1, <2>4
    <3>5. op'.name = n /\ op'.step = "prepare" /\ op' # NoOp
      BY <1>0, <3>4, OpSet DEF OpSteps, MountSteps
    <3> QED
      BY <1>k, <2>2, <3>3, <3>5
  <2>5. CASE ~r.ok
    <3>1. r.disk = disk[n]
      BY <2>5, QuietCall DEF AttachCall, Failed
    <3>2. ~AttachedHere(n)' /\ op' = NoOp
      BY <1>i, <2>1, <2>2, <2>3, <2>5, <3>1 DEF AttachedHere
    <3> QED
      BY <1>k, <2>2, <3>2
  <2> QED
    BY <2>4, <2>5
<1>8. CASE MountPrepare \/ MountMount
  <2>1. op.step \in {"prepare", "mount"} /\ UNCHANGED <<disk, mem, using>>
    BY <1>8 DEF MountPrepare, MountMount
  <2>2. \E step \in {"mount", "incRef", "detachGet"} : op' = [op EXCEPT !.step = step]
    BY <1>8 DEF MountPrepare, MountMount
  <2>3. op' # NoOp /\ op'.name = n /\ op'.step \in {"mount", "incRef", "detachGet"}
    BY <1>0, <2>2, OpSet DEF OpSteps, MountSteps, UnmountSteps
  <2> QED
    BY <1>k, <1>u, <2>1, <2>3
<1>9. CASE MountIncRef
  <2>1. /\ op.step = "incRef" /\ op' = NoOp /\ UNCHANGED disk
        /\ mem' = IncRef(mem, n) /\ using' = [using EXCEPT ![n] = @ + 1]
    BY <1>9, QuietCall DEF MountIncRef, Save
  <2>2. Tracked(n)
    BY <1>0, <2>1 DEF BaseInv, StoreInv, MountSteps
  <2>3. mem'[n] # NoVolume /\ mem'[n].ref = 1 /\ using'[n] = 1
    BY <1>i, <1>t, <2>1, <2>2, StoreKeeps, CountIs DEF Tracked
  <2> QED
    BY <1>q, <1>u, <2>1, <2>3 DEF Agrees, Counted, Tracked, Working
<1>10. CASE MountUnwind
  BY <1>10, <1>i DEF MountUnwind
<1>11. CASE UnmountUmount
  <2>1. op.step = "umount" /\ UNCHANGED <<disk, mem, using>> /\ Goto("detachGet")
    BY <1>11 DEF UnmountUmount, Quiet
  <2>2. op' # NoOp /\ op'.name = n /\ op'.step = "detachGet"
    BY <1>0, <2>1, OpSet DEF OpSteps, UnmountSteps
  <2> QED
    BY <1>k, <1>u, <2>1, <2>2
\* The disk is found attached, and detached.
<1>12. CASE DetachGet
  <2>1. op.step = "detachGet" /\ UNCHANGED <<disk, mem, using>>
    BY <1>12 DEF DetachGet
  <2>2. \A r \in GetCall(disk[n]) : r.ok /\ r.disk = disk[n]
    BY QuietCall DEF GetCall
  <2>3. Goto("detach")
    BY <1>12, <1>i, <2>1, <2>2 DEF DetachGet, AttachedHere
  <2>4. op' # NoOp /\ op'.name = n /\ op'.step = "detach"
    BY <1>0, <2>3, OpSet DEF OpSteps, UnmountSteps
  <2> QED
    BY <1>k, <1>u, <2>1, <2>4
<1>13. CASE Detach
  <2> DEFINE e == [disk[n] EXCEPT !.user = nobody]
  <2>1. PICK r \in DetachCall(disk[n], Self) : SetDisk(n, r.disk)
    BY <1>13 DEF Detach
  <2>2. op.step = "detach" /\ op' = NoOp /\ UNCHANGED <<mem, using>>
    BY <1>13 DEF Detach
  <2>3. disk[n] # NoDisk /\ r.disk = e
    BY <1>i, <2>2, QuietCall DEF DetachCall, AttachedHere
  <2>4. e.user = nobody
    BY <1>t, <2>3 DEF MaybeDisk, Disk
  <2>5. ~AttachedHere(n)'
    BY <1>s, <1>t, <2>1, <2>3, <2>4 DEF SetDisk, AttachedHere
  <2> QED
    BY <1>k, <2>2, <2>5
<1> QED
  BY <1>1, <1>2, <1>3, <1>4, <1>5, <1>6, <1>7, <1>8, <1>9, <1>10, <1>11, <1>12, <1>13 DEF Step

LEMMA QuietCalls ==
    ASSUME Quiet, BaseInv, QuietInv, NEW n \in Name,
           \/ \E o \in Requests : Create(n, o)
           \/ RemoveRetain(n) \/ RemoveDelete(n)
           \/ MountAgain(n) \/ MountFirst(n)
           \/ UnmountNothing(n) \/ UnmountDecRef(n)
    PROVE  QuietInv'
<1>t. mem \in Store /\ using \in [Name -> Nat]
  BY DEF BaseInv, TypeOK
<1>0. op = NoOp /\ phase = "serving" /\ UNCHANGED <<phase, disk>>
  BY DEF Free, Create, RemoveRetain, RemoveDelete, Removable, MountAgain, MountFirst,
     UnmountNothing, UnmountDecRef
<1>r. Tracked(n) => mem[n].ref \in Nat
  BY <1>t, CountIs DEF Tracked
<1>i. /\ using[n] = IF Tracked(n) THEN mem[n].ref ELSE 0
      /\ AttachedHere(n) <=> Counted(n)
      /\ AttachedHere(n)' <=> AttachedHere(n)
  BY <1>0 DEF QuietInv, Agrees, Working, AttachedHere
<1>q. ASSUME Agrees(n)',
             \A k \in Name : k # n => mem'[k] = mem[k] /\ using'[k] = using[k],
             op' # NoOp => op'.name = n /\ op'.step # "unwind" /\ ~Counted(n)'
      PROVE  QuietInv'
  <2>1. ASSUME NEW k \in Name, k # n
        PROVE  Agrees(k)'
    BY <1>0, <1>q, <2>1 DEF QuietInv, Agrees, AttachedHere, Counted, Tracked, Working
  <2> QED
    BY <1>0, <1>q, <2>1 DEF QuietInv
<1>x. /\ \A k \in Name : k # n => Dropped(mem, n)[k] = mem[k]
      /\ Dropped(mem, n)[n] = NoVolume
      /\ Tracked(n) => \A k \in Name : k # n => /\ IncRef(mem, n)[k] = mem[k]
                                                /\ DecRef(mem, n)[k] = mem[k]
      /\ Tracked(n) => /\ IncRef(mem, n)[n] # NoVolume
                       /\ DecRef(mem, n)[n] # NoVolume
                       /\ IncRef(mem, n)[n].ref = mem[n].ref + 1
                       /\ mem[n].ref > 0 => DecRef(mem, n)[n].ref = mem[n].ref - 1
  BY <1>t, StoreKeeps, CountIs DEF Tracked
<1>w. \A m : \A w \in Saved(m) : w.ok /\ (Save(m, w) => mem' = m)
  BY QuietCall DEF Save
<1>1. ASSUME NEW o \in Requests, Create(n, o)
      PROVE  QuietInv'
  <2>1. op'.name = n /\ op'.step = "getDisk" /\ ~Tracked(n) /\ UNCHANGED <<mem, using>>
    BY <1>1 DEF Create, Begin
  <2> QED
    BY <1>i, <1>q, <2>1 DEF Agrees, Counted, Tracked, Working, WorkSteps
<1>2. CASE RemoveRetain(n) \/ RemoveDelete(n)
  <2>1. /\ mem' = Dropped(mem, n) /\ op' = NoOp /\ using' = using
        /\ Tracked(n) /\ mem[n].ref = 0
    BY <1>2, <1>w DEF RemoveRetain, RemoveDelete, Removable, Free
  <2> QED
    BY <1>i, <1>q, <1>x, <2>1 DEF Agrees, Counted, Tracked, Working
<1>3. CASE MountAgain(n)
  <2>1. /\ mem' = IncRef(mem, n) /\ op' = NoOp /\ Counted(n)
        /\ using' = [using EXCEPT ![n] = @ + 1]
    BY <1>3, <1>0, <1>w DEF MountAgain, Counted
  <2> QED
    BY <1>i, <1>q, <1>r, <1>t, <1>x, <2>1 DEF Agrees, Counted, Tracked, Working
<1>4. CASE MountFirst(n)
  <2>1. /\ op'.name = n /\ op'.step = "attachGet" /\ mem[n].ref = 0
        /\ UNCHANGED <<mem, using>>
    BY <1>4 DEF MountFirst, Begin
  <2> QED
    BY <1>i, <1>q, <2>1 DEF Agrees, Counted, Tracked, Working, WorkSteps
<1>5. CASE UnmountNothing(n)
  BY <1>5, <1>i, <1>t DEF UnmountNothing
<1>6. CASE UnmountDecRef(n)
  <2>1. /\ using' = [using EXCEPT ![n] = @ - 1]
        /\ Counted(n) /\ mem' = DecRef(mem, n)
        /\ op' = IF mem[n].ref = 1
                 THEN [step |-> "umount", name |-> n, opts |-> mem[n].opts] ELSE NoOp
    BY <1>6, <1>0, <1>w DEF UnmountDecRef, Counted, Begin
  <2>2. Tracked(n)' /\ mem'[n].ref = mem[n].ref - 1 /\ using'[n] = using[n] - 1
    BY <1>t, <1>x, <2>1 DEF Counted, Tracked
  <2>3. mem[n].ref = 1 => op' # NoOp /\ op'.name = n /\ op'.step = "umount"
    <3>1. mem[n].opts \in DiskOptions
      BY <1>t, <2>1 DEF Store, Counted, Tracked, Volume
    <3> QED
      BY <2>1, <3>1, OpNew DEF OpSteps, UnmountSteps
  <2>4. \A k \in Name : k # n => mem'[k] = mem[k] /\ using'[k] = using[k]
    BY <1>t, <1>x, <2>1 DEF Counted
  <2>5. Counted(n)' <=> mem[n].ref # 1
    BY <1>r, <2>1, <2>2 DEF Counted
  <2>6. Agrees(n)'
    BY <1>i, <2>1, <2>2, <2>3, <2>5 DEF Agrees, Counted, Tracked, Working, WorkSteps
  <2> QED
    BY <1>q, <2>1, <2>3, <2>4, <2>5, <2>6
<1> QED
  BY <1>1, <1>2, <1>3, <1>4, <1>5, <1>6

LEMMA QuietStartup ==
    ASSUME Quiet, BaseInv, QuietInv, Startup
    PROVE  QuietInv'
<1>0. op = NoOp /\ phase # "serving"
  BY DEF BaseInv, PhaseInv, Startup, Start, ReconcileStore, ResetRefCounts,
     RestoreMount, Serve
<1>t. mem \in Store /\ file \in Store
  BY DEF BaseInv, TypeOK
<1>u. UNCHANGED <<disk, mnt, using>>
  BY DEF Startup, Start, ReconcileStore, ResetRefCounts, RestoreMount, Serve
<1>f. \A n \in Name : Fresh(n)
  BY <1>0 DEF QuietInv
<1>w. \A m : \A w \in Saved(m) : w.ok /\ (Save(m, w) => mem' = m /\ file' = m)
  BY QuietCall DEF Save
\* What has to be shown of the counts, until the plugin serves.
<1>q. ASSUME op' = op, phase' # "serving",
             \A n \in Name : /\ mem'[n] # NoVolume => mem'[n].ref = 0
                             /\ file'[n] # NoVolume => file'[n].ref = 0
      PROVE  QuietInv'
  <2>1. \A n \in Name : Fresh(n)'
    BY <1>f, <1>q, <1>u DEF Fresh, AttachedHere
  <2> QED
    BY <1>0, <1>q, <2>1 DEF QuietInv
<1>1. CASE Start
  <2>1. /\ UNCHANGED <<file, op>> /\ phase' = "listed"
        /\ mem' = Reconciled(file, Listed \ Marked, disk)
    BY <1>1 DEF Start
  <2>2. \A n \in Name : mem'[n] # NoVolume => mem'[n].ref = 0
    BY <1>f, <2>1 DEF Reconciled, Fresh
  <2> QED
    BY <1>f, <1>q, <2>1, <2>2 DEF Fresh
<1>2. CASE ReconcileStore
  <2>1. mem' = mem /\ file' = mem /\ phase' = "reset" /\ op' = op
    BY <1>2, <1>w DEF ReconcileStore
  <2> QED
    BY <1>f, <1>q, <2>1 DEF Fresh
<1>3. CASE ResetRefCounts
  <2>1. mem' = AllReset(mem) /\ file' = AllReset(mem) /\ phase' = "restore" /\ op' = op
    BY <1>3, <1>w DEF ResetRefCounts
  <2>2. \A n \in Name : mem'[n] # NoVolume => mem'[n].ref = 0
    BY <1>t, <2>1, StoreKeeps, CountIs
  <2> QED
    BY <1>q, <2>1, <2>2
<1>4. ASSUME NEW n \in Name, RestoreMount(n)
      PROVE  QuietInv'
  <2>1. UNCHANGED <<mem, file, op>> /\ phase' = "restore"
    BY <1>4, <1>f DEF RestoreMount, Fresh
  <2> QED
    BY <1>f, <1>q, <2>1 DEF Fresh
<1>5. CASE Serve
  <2>1. UNCHANGED <<mem, op>> /\ phase' = "serving"
    BY <1>5 DEF Serve
  <2>2. ASSUME NEW n \in Name
        PROVE  Agrees(n)'
    BY <1>0, <1>f, <1>u, <2>1 DEF Fresh, Agrees, AttachedHere, Counted, Tracked, Working
  <2> QED
    BY <1>0, <2>1, <2>2 DEF QuietInv
<1> QED
  BY <1>1, <1>2, <1>3, <1>4, <1>5 DEF Startup

LEMMA QuietEnvironment ==
    ASSUME Quiet, BaseInv, QuietInv, Environment
    PROVE  QuietInv'
<1>t. disk \in [Name -> MaybeDisk]
  BY DEF BaseInv, TypeOK, MaybeDisk
<1>1. ASSUME NEW n \in Name, NEW i \in Instances \cup {nobody},
             disk[n] # NoDisk, disk[n].user # Self,
             SetDisk(n, [disk[n] EXCEPT !.user = i]),
             i # Self, UNCHANGED <<mnt, using, phase, todo, mem, file, op>>
      PROVE  QuietInv'
  BY <1>1, <1>t, OtherKeeps, ZoneQuiet
<1>2. ASSUME NEW n \in Name, OtherDetach(n)
      PROVE  QuietInv'
  BY <1>1, <1>2, DriverAssumption, ComputeAssumption DEF OtherDetach
<1>3. ASSUME NEW n \in Name, NEW i \in Instances, OtherAttach(n, i)
      PROVE  QuietInv'
  BY <1>1, <1>3, DriverAssumption, ComputeAssumption DEF OtherAttach
<1> QED
  BY <1>2, <1>3 DEF Environment, Crash, Reboot, UnmountUnheard, Quiet

LEMMA QuietNext ==
    ASSUME Quiet, BaseInv, QuietInv, [Next]_vars
    PROVE  QuietInv'
<1>1. CASE Call
  BY <1>1, QuietCalls DEF Call
<1>2. CASE Step
  BY <1>2, BaseNext, QuietStep
<1>3. CASE Background
  <2>1. PICK n \in Name, s \in Slots : DeleteInBackground(n, s)
    BY <1>3 DEF Background
  <2>2. UNCHANGED <<mnt, using, phase, mem, file, op>>
    BY <2>1 DEF DeleteInBackground
  <2> QED
    BY <2>1, <2>2, BackgroundKeeps, ZoneQuiet
<1>4. CASE Startup
  BY <1>4, QuietStartup
<1>5. CASE Environment
  BY <1>5, QuietEnvironment
<1>6. CASE UNCHANGED vars
  BY <1>6, SameDiskKeeps, ZoneQuiet DEF vars
<1> QED
  BY <1>1, <1>2, <1>3, <1>4, <1>5, <1>6 DEF Next

LEMMA QuietAlways == Quiet => (Spec => []QuietInv)
<1> SUFFICES ASSUME Quiet PROVE Spec => []QuietInv
  OBVIOUS
<1>1. BaseInv /\ QuietInv /\ [Next]_vars => QuietInv'
  BY QuietNext
<1> QED
  BY <1>1, QuietInit, BaseAlways, PTL DEF Spec

\* When no operation runs, the disks attached to this VM are those of the volumes
\* with a positive count, and that is the number of their containers (Mount,
\* Unmount).
THEOREM CountIsAttached == Quiet => (Spec => []AttachedIsCounted)
<1>1. QuietInv => AttachedIsCounted
  BY DEF QuietInv, Agrees, Counted, Working, Free, AttachedIsCounted
<1> QED
  BY <1>1, QuietAlways, PTL

\* A deletion is accepted by a Remove, which looked at the count.
LEMMA QuietRefuses ==
    ASSUME BaseInv, QuietInv, Next, NEW n \in Name, AcceptsDeletion(n)
    PROVE  ~AttachedHere(n)
<1>j. jobs \in [Name -> [Slots -> Job]]
  BY DEF BaseInv, TypeOK
<1>0. PICK s \in Slots : phase = "serving" /\ jobs[n][s] = Idle /\ jobs'[n][s] # Idle
  BY DEF AcceptsDeletion
<1>1. \E k \in Name : RemoveDelete(k)
  <2>1. ASSUME NEW k \in Name, NEW t \in Slots, DeleteInBackground(k, t)
        PROVE  FALSE
    <3>1. PICK r \in DeleteDisk(disk[k], jobs[k][t].step, jobs[k][t].snapshot) :
            BackgroundEffect(k, t, r)
      BY <2>1, BackgroundIs DEF BaseInv
    <3> QED
      BY <1>0, <3>1 DEF BackgroundEffect
  <2>2. ~Exit
    BY <1>0 DEF Exit, NoJobs
  <2>3. jobs' # jobs
    BY <1>0
  <2>4. ~Step
    BY <2>3, StepIsAlone DEF StepAlone
  <2>5. ~Startup
    BY <1>0, <2>2, <2>3 DEF Startup, Start, ReconcileStore, ResetRefCounts,
       RestoreMount, Serve
  <2>6. ~Environment
    BY <2>2, <2>3 DEF Environment, Crash, Reboot, UnmountUnheard, OtherDetach,
       OtherAttach
  <2>7. Call
    BY <2>1, <2>4, <2>5, <2>6 DEF Next, Background
  <2> QED
    BY <2>3, <2>7 DEF Call, Create, RemoveRetain, MountAgain, MountFirst,
       UnmountNothing, UnmountDecRef
<1>2. PICK k \in Name : RemoveDelete(k)
  BY <1>1
<1>3. k = n
  BY <1>0, <1>2, <1>j DEF RemoveDelete, Spawned
<1>4. op = NoOp /\ Tracked(n) /\ mem[n].ref = 0
  BY <1>2, <1>3 DEF RemoveDelete, Removable, Free
<1> QED
  BY <1>0, <1>4 DEF QuietInv, Agrees, Counted, Working

\* Remove accepts the deletion of no disk that is attached to this VM ("refuses if
\* still attached/in use", README.md).
THEOREM AttachedIsRefused == Quiet => (Spec => RefusesAttached)
<1>1. BaseInv /\ QuietInv /\ [Next]_vars =>
        [\A n \in Name : AcceptsDeletion(n) => ~AttachedHere(n)]_vars
  BY QuietRefuses
<1> QED
  BY <1>1, QuietAlways, BaseAlways, PTL DEF Spec, RefusesAttached

(***************************************************************************)
(* What a plugin does to the zone as the plugin of another VM sees it: its  *)
(* guarantee, and what the invariants above rely on.                       *)
(***************************************************************************)
UsedBy(v, n) == disk[n] # NoDisk /\ disk[n].user = v

\* VM v keeps the disks it has, with their marks, and is given no other; and no
\* disk gets the plugin's name without its label.
Spares(v) ==
    \A n \in Name :
        /\ UsedBy(v, n)' <=> UsedBy(v, n)
        /\ UsedBy(v, n) /\ Deleting(disk[n]) => Deleting(disk'[n])
        /\ Foreign(n)' => Foreign(n)

LEMMA SparesOne ==
    ASSUME disk \in [Name -> MaybeDisk], NEW v, NEW n \in Name, NEW d, SetDisk(n, d),
           d # NoDisk /\ d.user = v <=> UsedBy(v, n),
           UsedBy(v, n) /\ Deleting(disk[n]) => Deleting(d),
           d # NoDisk /\ ~Managed(d) => Foreign(n)
    PROVE  Spares(v)
<1>1. disk'[n] = d /\ \A k \in Name : k # n => disk'[k] = disk[k]
  BY DEF SetDisk
<1>2. ASSUME NEW k \in Name
      PROVE  /\ UsedBy(v, k)' <=> UsedBy(v, k)
             /\ UsedBy(v, k) /\ Deleting(disk[k]) => Deleting(disk'[k])
             /\ Foreign(k)' => Foreign(k)
  <2>1. CASE k = n
    BY <1>1, <2>1 DEF UsedBy, Foreign
  <2>2. CASE k # n
    BY <1>1, <2>2 DEF UsedBy, Foreign
  <2> QED
    BY <2>1, <2>2
<1> QED
  BY <1>2 DEF Spares

\* A step of DeleteDisk, of the rollback or of a background deletion.
LEMMA DeletionSpares ==
    ASSUME disk \in [Name -> MaybeDisk], NEW v \in Instances, NEW n \in Name,
           NEW step \in DeleteSteps, NEW snap \in BOOLEAN,
           NEW r \in DeleteDisk(disk[n], step, snap), SetDisk(n, r.disk)
    PROVE  Spares(v)
<1>1. /\ disk[n] = NoDisk => r.disk = NoDisk
      /\ disk[n] # NoDisk /\ r.disk = NoDisk => ~Attached(disk[n])
      /\ r.disk # NoDisk => /\ r.disk.user = disk[n].user
                            /\ Managed(r.disk) <=> Managed(disk[n])
                            /\ Deleting(disk[n]) => Deleting(r.disk)
  <2>1. disk[n] \in MaybeDisk
    OBVIOUS
  <2> QED
    BY <2>1, DeleteDiskIs
<1>2. v # nobody
  BY ComputeAssumption
<1>3. /\ r.disk # NoDisk /\ r.disk.user = v <=> UsedBy(v, n)
      /\ UsedBy(v, n) /\ Deleting(disk[n]) => Deleting(r.disk)
      /\ r.disk # NoDisk /\ ~Managed(r.disk) => Foreign(n)
  BY <1>1, <1>2 DEF UsedBy, Attached, Foreign
<1> QED
  BY <1>3, SparesOne

LEMMA StepSpares ==
    ASSUME BaseInv, NEW v \in Instances, v # Self, Step
    PROVE  Spares(v)
<1>0. /\ op # NoOp /\ op.opts \in DiskOptions
  BY OpIs DEF Step, At, CreateGetDisk, CreateAdopt, CreateInsert, CreateConfirm,
     CreateAdd, CreateRollback, MountAttachGet, MountAttach, MountPrepare,
     MountMount, MountIncRef, MountUnwind, UnmountUmount, DetachGet, Detach
<1>n. PICK n \in Name : n = op.name
  BY <1>0, OpIs
<1>t. disk \in [Name -> MaybeDisk] /\ disk[n] \in MaybeDisk
  BY DEF BaseInv, TypeOK, MaybeDisk
<1>s. v # nobody
  BY ComputeAssumption
<1> USE <1>n
<1>1. CASE UNCHANGED disk
  BY <1>1 DEF Spares, UsedBy, Foreign
<1>2. CASE CreateInsert
  <2>1. PICK r \in InsertCall(disk[n], op.opts) : SetDisk(n, r.disk)
    BY <1>2 DEF CreateInsert
  <2>2. r.disk = disk[n] \/ (disk[n] = NoDisk /\ r.disk = NewDisk(op.opts))
    BY OutcomeIs DEF InsertCall, Failed
  <2>3. NewDisk(op.opts).user = nobody /\ Managed(NewDisk(op.opts))
    BY <1>0, NewDiskIs DEF NewDisk
  <2>4. /\ r.disk # NoDisk /\ r.disk.user = v <=> UsedBy(v, n)
        /\ UsedBy(v, n) /\ Deleting(disk[n]) => Deleting(r.disk)
        /\ r.disk # NoDisk /\ ~Managed(r.disk) => Foreign(n)
    BY <1>s, <2>2, <2>3 DEF UsedBy, Foreign
  <2> QED
    BY <1>t, <2>1, <2>4, SparesOne
<1>3. CASE CreateRollback
  <2>1. PICK snap \in BOOLEAN : snap = FALSE
    OBVIOUS
  <2>2. PICK r \in DeleteDisk(disk[n], op.step, snap) : SetDisk(n, r.disk)
    BY <1>3, <2>1 DEF CreateRollback
  <2>3. op.step \in DeleteSteps
    BY <1>3 DEF CreateRollback
  <2> QED
    BY <1>t, <2>2, <2>3, DeletionSpares
\* From nobody to this VM, and back.
<1>4. ASSUME NEW r, NEW i \in {Self, nobody}, SetDisk(n, r.disk),
             \/ r.disk = disk[n]
             \/ /\ disk[n] # NoDisk /\ disk[n].user # v
                /\ r.disk = [disk[n] EXCEPT !.user = i]
      PROVE  Spares(v)
  <2> DEFINE e == [disk[n] EXCEPT !.user = i]
  <2>1. disk[n] # NoDisk => e.labels = disk[n].labels /\ e.user = i
    BY <1>t DEF MaybeDisk, Disk
  <2> HIDE DEF e
  <2>2. /\ r.disk # NoDisk /\ r.disk.user = v <=> UsedBy(v, n)
        /\ UsedBy(v, n) /\ Deleting(disk[n]) => Deleting(r.disk)
        /\ r.disk # NoDisk /\ ~Managed(r.disk) => Foreign(n)
    <3>1. r.disk = disk[n] \/ (disk[n] # NoDisk /\ disk[n].user # v /\ r.disk = e)
      BY <1>4 DEF e
    <3> QED
      BY <1>4, <1>s, <2>1, <3>1 DEF UsedBy, Foreign, Managed
  <2> QED
    BY <1>t, <1>4, <2>2, SparesOne
<1>5. CASE MountAttach
  <2>1. PICK r \in AttachCall(disk[n], Self) : SetDisk(n, r.disk)
    BY <1>5 DEF MountAttach
  <2>2. \/ r.disk = disk[n]
        \/ /\ disk[n] # NoDisk /\ disk[n].user = nobody
           /\ r.disk = [disk[n] EXCEPT !.user = Self]
    BY OutcomeIs DEF AttachCall, Failed, Attached
  <2> QED
    BY <1>4, <1>s, <2>1, <2>2
<1>6. CASE Detach
  <2>1. PICK r \in DetachCall(disk[n], Self) : SetDisk(n, r.disk)
    BY <1>6 DEF Detach
  <2>2. \/ r.disk = disk[n]
        \/ /\ disk[n] # NoDisk /\ disk[n].user = Self
           /\ r.disk = [disk[n] EXCEPT !.user = nobody]
    BY OutcomeIs DEF DetachCall, Failed
  <2> QED
    BY <1>4, <2>1, <2>2
<1> QED
  BY <1>1, <1>2, <1>3, <1>5, <1>6
  DEF Step, CreateGetDisk, CreateAdopt, CreateConfirm, CreateAdd, MountAttachGet,
      MountPrepare, MountMount, MountIncRef, MountUnwind, UnmountUmount, DetachGet

\* The guarantee.
LEMMA NextSpares ==
    ASSUME BaseInv, NEW v \in Instances, v # Self, "other" \notin Faults, [Next]_vars
    PROVE  Spares(v)
<1>t. disk \in [Name -> MaybeDisk]
  BY DEF BaseInv, TypeOK, MaybeDisk
<1>1. CASE UNCHANGED disk
  BY <1>1 DEF Spares, UsedBy, Foreign
<1>2. CASE Step
  BY <1>2, StepSpares
<1>3. CASE Background
  <2>1. PICK n \in Name, s \in Slots : DeleteInBackground(n, s)
    BY <1>3 DEF Background
  <2>2. PICK r \in DeleteDisk(disk[n], jobs[n][s].step, jobs[n][s].snapshot) :
          BackgroundEffect(n, s, r)
    BY <2>1, BackgroundIs DEF BaseInv
  <2> QED
    BY <1>t, <2>2, DeletionSpares DEF BackgroundEffect, SetDisk
<1> QED
  BY <1>1, <1>2, <1>3 DEF Next, vars, Call, Create, RemoveRetain, RemoveDelete,
     MountAgain, MountFirst, UnmountNothing, UnmountDecRef, Startup, Start,
     ReconcileStore, ResetRefCounts, RestoreMount, Serve, Environment, Crash,
     Reboot, UnmountUnheard, OtherDetach, OtherAttach

\* What the invariants rely on.
LEMMA SparedKeeps ==
    ASSUME BaseInv, ForeignInv, Spares(Self),
           disk' \in [Name -> MaybeDisk], doomed' \in [Name -> Dooms],
           UNCHANGED <<mnt, using, phase, todo, mem, file, op, jobs>>
    PROVE  /\ BaseInv' /\ ForeignInv'
           /\ MountInv => MountInv'
           /\ QuietInv => QuietInv'
<1>1. \A n \in Name : Keeps(n)
  BY DEF Spares, UsedBy, Keeps, AttachedHere
<1>2. BaseInv'
  BY DEF BaseInv, TypeOK, PhaseInv, StoreInv, Tracked, MaybeDisk
<1>3. ForeignInv'
  <2>1. \A n \in Name : Foreign(n)' => Foreign(n) /\ disk'[n].user # Self
    BY DEF Spares, UsedBy, Foreign, ForeignInv
  <2> QED
    BY <2>1 DEF ForeignInv
<1>4. MountInv => MountInv'
  BY <1>1, ZoneMounts
<1>5. QuietInv => QuietInv'
  BY <1>1, ZoneQuiet
<1> QED
  BY <1>2, <1>3, <1>4, <1>5
=============================================================================
