------------------------------- MODULE Driver -------------------------------
(***************************************************************************)
(* The volume driver of one VM (internal/driver), with the state store it   *)
(* persists (internal/state), the mounts it makes (internal/mount) and the  *)
(* disks it manages through internal/gce, in the scope "local".             *)
(*                                                                         *)
(* The operations that hold d.mu are sequences of steps of one process, op; *)
(* the background deletions are processes of their own, jobs.  The plugin   *)
(* may die between any two steps, and the VM may reboot.                    *)
(***************************************************************************)
EXTENDS Compute

CONSTANTS
    Name,           \* volume names
    Slots,          \* bound: concurrent background deletions of one name
    Requests,       \* the options that Create is called with
    InitialDisks,   \* what the zone may hold before the plugin's first start
    Self,           \* this VM
    Faults,         \* what else goes wrong, see FaultKinds
    CreateAfter,    \* what Create waits for while its name is deleted, see CreateTimes
    MaxRef,         \* bound: the reference count of one volume
    MaxContainers,  \* bound: the containers that use one volume
    NoVolume,       \* no record of that name in the store
    NoOp            \* d.mu is free

\* A failed write of the state file, a failed umount, device, mkfs or mount, a
\* failed read of /proc/mounts at startup, the death of the plugin, a reboot of
\* the VM, and other VMs that attach and detach the disks.
FaultKinds == {"persist", "umount", "device", "probe", "crash", "reboot", "other"}

\* Create comes right after the removal was acknowledged, once the disk is
\* marked, or once the deletion has ended.
CreateTimes == {"removal", "mark", "deletion"}

Volume == [opts : DiskOptions, ref : Nat]
Store == [Name -> Volume \cup {NoVolume}]

CreateSteps == {"getDisk", "adopt", "insert", "confirm", "add"}
MountSteps == {"attachGet", "attach", "prepare", "mount", "incRef", "unwind"}
UnmountSteps == {"umount", "detachGet", "detach"}
OpSteps == CreateSteps \cup MountSteps \cup UnmountSteps \cup DeleteSteps

Op == [step : OpSteps, name : Name, opts : DiskOptions]
Idle == [step |-> "idle", snapshot |-> FALSE]
Job == [step : DeleteSteps, snapshot : BOOLEAN] \cup {Idle}

ASSUME DriverAssumption ==
    /\ Slots # {}
    /\ Requests \subseteq ParsedOptions
    /\ InitialDisks \subseteq Disk \cup {NoDisk}
    /\ \A d \in InitialDisks : d # NoDisk => ~Managed(d) /\ d.user # Self
    /\ Self \in Instances
    /\ Faults \subseteq FaultKinds
    /\ CreateAfter \in CreateTimes
    /\ MaxRef \in Nat
    /\ MaxContainers \in Nat
    /\ NoVolume \notin Volume
    /\ NoOp \notin Op

VARIABLES
    disk,       \* the zone: Name -> Disk or NoDisk
    mnt,        \* the mountpoints: none, live, or dead (mounted, disk detached)
    using,      \* containers that hold a mountpoint
    phase,      \* of the plugin process: down, the steps of startup, serving
    todo,       \* startup: the listed names, then those left to look at
    mem,        \* the store in memory
    file,       \* the store in the state file
    op,         \* the operation that holds d.mu, and the step it is at
    jobs,       \* the background deletions
    doomed      \* history: the deletions acknowledged, and not taken back

vars == <<disk, mnt, using, phase, todo, mem, file, op, jobs, doomed>>
process == <<phase, todo, mem, file>>

Mounts == {"none", "live", "dead"}
Phases == {"down", "listed", "reset", "restore", "serving"}
Dooms == {"no", "plain", "snapshot"}

\* Every variable has its type: what TLC and the proofs build on.
TypeOK ==
    /\ disk \in [Name -> Disk \cup {NoDisk}]
    /\ mnt \in [Name -> Mounts]
    /\ using \in [Name -> Nat]
    /\ phase \in Phases
    /\ todo \in SUBSET Name
    /\ mem \in Store
    /\ file \in Store
    /\ op \in Op \cup {NoOp}
    /\ jobs \in [Name -> [Slots -> Job]]
    /\ doomed \in [Name -> Dooms]

(***************************************************************************)
(* The store.                                                              *)
(***************************************************************************)
Tracked(n) == mem[n] # NoVolume

Added(m, n, o) == [m EXCEPT ![n] = [opts |-> o, ref |-> 0]]
Dropped(m, n) == [m EXCEPT ![n] = NoVolume]
IncRef(m, n) == [m EXCEPT ![n].ref = @ + 1]
DecRef(m, n) == [m EXCEPT ![n].ref = IF @ > 0 THEN @ - 1 ELSE 0]
SetMounted(m, n) == [m EXCEPT ![n].ref = 1]
AllReset(m) ==
    [n \in Name |-> IF m[n] = NoVolume THEN NoVolume ELSE [m[n] EXCEPT !.ref = 0]]

\* A reconciliation that imports without options, as the store alone would.
Reconciled_ZeroOptions(m, names, d) ==
    [n \in Name |->
        IF n \notin names THEN NoVolume
        ELSE IF m[n] # NoVolume THEN m[n]
        ELSE [opts |-> [ImportedOptions(0, "", NoLabels) EXCEPT !.fs = ""], ref |-> 0]]

\* Volumes without a listed disk are dropped, listed disks without a volume
\* imported.
Reconciled(m, names, d) ==
    [n \in Name |->
        IF n \notin names THEN NoVolume
        ELSE IF m[n] # NoVolume THEN m[n]
        ELSE [opts |-> ImportedOptions(d[n].size, d[n].type, d[n].labels),
              ref |-> 0]]

EmptyStore == [n \in Name |-> NoVolume]

\* An update of the store: memory changes first, then the file is replaced as a
\* whole.  When that fails, nothing puts memory back.
Saved(m) ==
    {[file |-> m, ok |-> TRUE]}
        \cup (IF "persist" \in Faults THEN {[file |-> file, ok |-> FALSE]} ELSE {})

Save(m, w) == mem' = m /\ file' = w.file

(***************************************************************************)
(* The processes.                                                          *)
(***************************************************************************)
\* d.mu is free, and the plugin answers.
Free == phase = "serving" /\ op = NoOp

\* The operation that holds d.mu is about to take the step.
At(step) == op # NoOp /\ op.step = step

Begin(step, n, o) == op' = [step |-> step, name |-> n, opts |-> o]
Goto(step) == op' = [op EXCEPT !.step = step]
Return == op' = NoOp

NoJob(n) == \A s \in Slots : jobs[n][s] = Idle
Spawned(n, s, snapshot) ==
    [jobs EXCEPT ![n][s] = [step |-> "delGet", snapshot |-> snapshot]]
NoJobs == [n \in Name |-> [s \in Slots |-> Idle]]

\* The client side of a call: its outcome becomes the disk of the name.
SetDisk(n, d) == disk' = [disk EXCEPT ![n] = d]

\* The history of one name.
Doom(n, what) == doomed' = [doomed EXCEPT ![n] = what]

Init ==
    /\ disk \in [Name -> InitialDisks]
    /\ mnt = [n \in Name |-> "none"]
    /\ using = [n \in Name |-> 0]
    /\ phase = "down"
    /\ todo = {}
    /\ mem = EmptyStore
    /\ file = EmptyStore
    /\ op = NoOp
    /\ jobs = NoJobs
    /\ doomed = [n \in Name |-> "no"]

(***************************************************************************)
(* Create.  A name the store tracks is accepted or refused without a change *)
(* of state (optionsMatch), as are options and names that do not parse.     *)
(***************************************************************************)
CreateMayCome(n) ==
    \/ NoJob(n)
    \/ CreateAfter = "removal"
    \/ CreateAfter = "mark" /\ (disk[n] # NoDisk => Deleting(disk[n]))

Create(n, o) ==
    /\ Free
    /\ ~Tracked(n)
    /\ CreateMayCome(n)
    /\ Begin("getDisk", n, o)
    /\ UNCHANGED <<disk, mnt, using, phase, todo, mem, file, jobs, doomed>>

\* An adoption that does not ask who made the disk.
Adoptable_AnyManager(d, o) ==
    /\ ~Deleting(d)
    /\ d.size = o.size
    /\ d.type = o.type

\* An adoption that does not ask whether the disk is being deleted.
Adoptable_AnyMark(d, o) ==
    /\ Managed(d)
    /\ d.size = o.size
    /\ d.type = o.type

\* Whether Create may take over a disk that exists already.
Adoptable(d, o) ==
    /\ ~Deleting(d)
    /\ Managed(d)
    /\ d.size = o.size
    /\ d.type = o.type

CreateGetDisk ==
    /\ At("getDisk")
    /\ \E r \in GetCall(disk[op.name]) :
          \/ r.ok /\ r.disk = NoDisk /\ Goto("insert")
          \/ r.ok /\ r.disk # NoDisk /\ Adoptable(r.disk, op.opts) /\ Goto("adopt")
          \/ /\ r.ok => r.disk # NoDisk /\ ~Adoptable(r.disk, op.opts)
             /\ Return
    /\ UNCHANGED <<disk, mnt, using, phase, todo, mem, file, jobs, doomed>>

CreateAdopt ==
    /\ At("adopt")
    /\ \E w \in Saved(Added(mem, op.name, op.opts)) :
          /\ Save(Added(mem, op.name, op.opts), w)
          /\ Doom(op.name, IF w.ok THEN "no" ELSE doomed[op.name])
    /\ Return
    /\ UNCHANGED <<disk, mnt, using, phase, todo, jobs>>

CreateInsert ==
    /\ At("insert")
    /\ \E r \in InsertCall(disk[op.name], op.opts) :
          /\ SetDisk(op.name, r.disk)
          /\ Doom(op.name, IF disk[op.name] = NoDisk /\ r.disk # NoDisk
                           THEN "no" ELSE doomed[op.name])
          /\ IF r.ok THEN Goto("confirm") ELSE Return
    /\ UNCHANGED <<mnt, using, phase, todo, mem, file, jobs>>

\* The Get at the end of CreateDisk: when it fails, so does Create, and the new
\* disk stays without a record.
CreateConfirm ==
    /\ At("confirm")
    /\ \E r \in GetCall(disk[op.name]) :
          IF r.ok /\ r.disk # NoDisk THEN Goto("add") ELSE Return
    /\ UNCHANGED <<disk, mnt, using, phase, todo, mem, file, jobs, doomed>>

CreateAdd ==
    /\ At("add")
    /\ \E w \in Saved(Added(mem, op.name, op.opts)) :
          /\ Save(Added(mem, op.name, op.opts), w)
          /\ \/ w.ok /\ Return /\ UNCHANGED doomed
             \/ ~w.ok /\ Goto("delGet") /\ Doom(op.name, "plain")
    /\ UNCHANGED <<disk, mnt, using, phase, todo, jobs>>

\* The deletion that takes a disk back whose record could not be written.
CreateRollback ==
    /\ op # NoOp /\ op.step \in DeleteSteps
    /\ \E r \in DeleteDisk(disk[op.name], op.step, FALSE) :
          /\ SetDisk(op.name, r.disk)
          /\ IF r.next = "idle" THEN Return ELSE Goto(r.next)
    /\ UNCHANGED <<mnt, using, phase, todo, mem, file, jobs, doomed>>

(***************************************************************************)
(* Remove, and the deletion it leaves behind.                              *)
(***************************************************************************)
\* A Remove that leaves it to the deletion to find the disk in use.
Removable_IgnoresCount(n) == Free /\ Tracked(n)

Removable(n) == Free /\ Tracked(n) /\ mem[n].ref = 0

RemoveRetain(n) ==
    /\ Removable(n)
    /\ mem[n].opts.reclaimPolicy = "retain"
    /\ \E w \in Saved(Dropped(mem, n)) : Save(Dropped(mem, n), w)
    /\ UNCHANGED <<disk, mnt, using, phase, todo, op, jobs, doomed>>

\* A removal that is acknowledged and leaves the deletion to the next startup.
RemoveDelete_SpawnsNothing(n) ==
    /\ Removable(n)
    /\ mem[n].opts.reclaimPolicy = "delete"
    /\ \E w \in Saved(Dropped(mem, n)) :
          /\ Save(Dropped(mem, n), w)
          /\ Doom(n, IF w.ok THEN "plain" ELSE doomed[n])
    /\ UNCHANGED <<disk, mnt, using, phase, todo, op, jobs>>

RemoveDelete(n) ==
    /\ Removable(n)
    /\ mem[n].opts.reclaimPolicy = "delete"
    /\ \E s \in Slots :
          /\ jobs[n][s] = Idle
          /\ \E w \in Saved(Dropped(mem, n)) :
                /\ Save(Dropped(mem, n), w)
                /\ \/ /\ w.ok
                      /\ jobs' = Spawned(n, s, mem[n].opts.snapshotOnRemove)
                      /\ Doom(n, IF mem[n].opts.snapshotOnRemove
                                 THEN "snapshot" ELSE "plain")
                   \/ ~w.ok /\ UNCHANGED <<jobs, doomed>>
    /\ UNCHANGED <<disk, mnt, using, phase, todo, op>>

\* A step of deleteInBackground's goroutine, which does not take d.mu.
DeleteInBackground(n, s) ==
    /\ jobs[n][s] # Idle
    /\ \E r \in DeleteDisk(disk[n], jobs[n][s].step, jobs[n][s].snapshot) :
          /\ SetDisk(n, r.disk)
          /\ jobs' = [jobs EXCEPT ![n][s] =
                        IF r.next = "idle" THEN Idle ELSE [@ EXCEPT !.step = r.next]]
    /\ UNCHANGED <<mnt, using, phase, todo, mem, file, op, doomed>>

(***************************************************************************)
(* Mount.                                                                  *)
(***************************************************************************)
\* A container more on a volume that is mounted already.
MountAgain(n) ==
    /\ Free
    /\ Tracked(n) /\ mem[n].ref > 0
    /\ mem[n].ref < MaxRef /\ using[n] < MaxContainers
    /\ \E w \in Saved(IncRef(mem, n)) :
          /\ Save(IncRef(mem, n), w)
          /\ using' = [using EXCEPT ![n] = IF w.ok THEN @ + 1 ELSE @]
    /\ UNCHANGED <<disk, mnt, phase, todo, op, jobs, doomed>>

MountFirst(n) ==
    /\ Free
    /\ Tracked(n) /\ mem[n].ref = 0
    /\ using[n] < MaxContainers
    /\ Begin("attachGet", n, mem[n].opts)
    /\ UNCHANGED <<disk, mnt, using, phase, todo, mem, file, jobs, doomed>>

\* An AttachDisk for which any user of the disk is this VM.
MountAttachGet_AnyUser ==
    /\ At("attachGet")
    /\ \E r \in GetCall(disk[op.name]) :
          \/ r.ok /\ r.disk # NoDisk /\ r.disk.user # nobody /\ Goto("prepare")
          \/ r.ok /\ r.disk # NoDisk /\ r.disk.user = nobody /\ Goto("attach")
          \/ ~r.ok /\ Return
    /\ UNCHANGED <<disk, mnt, using, phase, todo, mem, file, jobs, doomed>>

\* AttachDisk's Get: a disk that another VM uses is left to it (ScopeLocal).
MountAttachGet ==
    /\ At("attachGet")
    /\ \E r \in GetCall(disk[op.name]) :
          \/ r.ok /\ r.disk # NoDisk /\ r.disk.user = Self /\ Goto("prepare")
          \/ r.ok /\ r.disk # NoDisk /\ r.disk.user = nobody /\ Goto("attach")
          \/ /\ r.ok /\ r.disk # NoDisk => r.disk.user \notin {Self, nobody}
             /\ Return
    /\ UNCHANGED <<disk, mnt, using, phase, todo, mem, file, jobs, doomed>>

\* AttachDisk's call.  When it fails Mount returns at once, without a detach.
MountAttach ==
    /\ At("attach")
    /\ \E r \in AttachCall(disk[op.name], Self) :
          /\ SetDisk(op.name, r.disk)
          /\ IF r.ok THEN Goto("prepare") ELSE Return
    /\ UNCHANGED <<mnt, using, phase, todo, mem, file, jobs, doomed>>

\* A device that does not appear is attached again, as often as it takes.
MountPrepare_Reattaches ==
    /\ At("prepare")
    /\ \/ Goto("mount")
       \/ "device" \in Faults /\ Goto("attachGet")
    /\ UNCHANGED <<disk, mnt, using, phase, todo, mem, file, jobs, doomed>>

\* WaitForDevice and EnsureFormatted.
MountPrepare ==
    /\ At("prepare")
    /\ \/ Goto("mount")
       \/ "device" \in Faults /\ Goto("detachGet")
    /\ UNCHANGED <<disk, mnt, using, phase, todo, mem, file, jobs, doomed>>

\* A mount that fails is taken for one that works.
MountMount_Unchecked ==
    /\ At("mount")
    /\ \/ mnt' = [mnt EXCEPT ![op.name] = IF @ = "none" THEN "live" ELSE @]
       \/ "device" \in Faults /\ UNCHANGED mnt
    /\ Goto("incRef")
    /\ UNCHANGED <<disk, using, phase, todo, mem, file, jobs, doomed>>

\* Mounter.Mount: whatever is mounted at the target already is taken for the
\* volume's device.
MountMount ==
    /\ At("mount")
    /\ \/ /\ mnt' = [mnt EXCEPT ![op.name] = IF @ = "none" THEN "live" ELSE @]
          /\ Goto("incRef")
       \/ "device" \in Faults /\ Goto("detachGet") /\ UNCHANGED mnt
    /\ UNCHANGED <<disk, using, phase, todo, mem, file, jobs, doomed>>

MountIncRef ==
    /\ At("incRef")
    /\ \E w \in Saved(IncRef(mem, op.name)) :
          /\ Save(IncRef(mem, op.name), w)
          /\ \/ w.ok /\ Return /\ using' = [using EXCEPT ![op.name] = @ + 1]
             \/ ~w.ok /\ Goto("unwind") /\ UNCHANGED using
    /\ UNCHANGED <<disk, mnt, phase, todo, jobs, doomed>>

\* An unwinding that releases the disk under the mount.
MountUnwind_DetachesOnly ==
    /\ At("unwind")
    /\ Goto("detachGet")
    /\ UNCHANGED <<disk, mnt, using, phase, todo, mem, file, jobs, doomed>>

\* The umount of the unwinding: its failure is ignored.
MountUnwind ==
    /\ At("unwind")
    /\ \/ mnt' = [mnt EXCEPT ![op.name] = "none"]
       \/ "umount" \in Faults /\ UNCHANGED mnt
    /\ Goto("detachGet")
    /\ UNCHANGED <<disk, using, phase, todo, mem, file, jobs, doomed>>

(***************************************************************************)
(* Unmount, called when a container that uses the volume has stopped; and   *)
(* DetachDisk, which Mount's error paths share.                            *)
(***************************************************************************)
\* The store knows of no mount: Unmount has nothing to do.
UnmountNothing(n) ==
    /\ Free
    /\ using[n] > 0
    /\ Tracked(n) => mem[n].ref = 0
    /\ using' = [using EXCEPT ![n] = @ - 1]
    /\ UNCHANGED <<disk, mnt, phase, todo, mem, file, op, jobs, doomed>>

UnmountDecRef(n) ==
    /\ Free
    /\ using[n] > 0
    /\ Tracked(n) /\ mem[n].ref > 0
    /\ using' = [using EXCEPT ![n] = @ - 1]
    /\ \E w \in Saved(DecRef(mem, n)) :
          /\ Save(DecRef(mem, n), w)
          /\ IF w.ok /\ mem[n].ref = 1
             THEN Begin("umount", n, mem[n].opts) ELSE UNCHANGED op
    /\ UNCHANGED <<disk, mnt, phase, todo, jobs, doomed>>

\* An Unmount that detaches the disk whether the umount worked or not.
UnmountUmount_GoesOn ==
    /\ At("umount")
    /\ \/ mnt' = [mnt EXCEPT ![op.name] = "none"]
       \/ "umount" \in Faults /\ UNCHANGED mnt
    /\ Goto("detachGet")
    /\ UNCHANGED <<disk, using, phase, todo, mem, file, jobs, doomed>>

\* Mounter.Unmount: its failure ends Unmount, the disk stays attached.
UnmountUmount ==
    /\ At("umount")
    /\ \/ mnt' = [mnt EXCEPT ![op.name] = "none"] /\ Goto("detachGet")
       \/ "umount" \in Faults /\ UNCHANGED mnt /\ Return
    /\ UNCHANGED <<disk, using, phase, todo, mem, file, jobs, doomed>>

\* A DetachDisk that leaves when the disk has a user.
DetachGet_WrongUser ==
    /\ At("detachGet")
    /\ \E r \in GetCall(disk[op.name]) :
          IF r.ok /\ r.disk # NoDisk /\ r.disk.user = nobody
          THEN Goto("detach") ELSE Return
    /\ UNCHANGED <<disk, mnt, using, phase, todo, mem, file, jobs, doomed>>

DetachGet ==
    /\ At("detachGet")
    /\ \E r \in GetCall(disk[op.name]) :
          IF r.ok /\ r.disk # NoDisk /\ r.disk.user = Self
          THEN Goto("detach") ELSE Return
    /\ UNCHANGED <<disk, mnt, using, phase, todo, mem, file, jobs, doomed>>

\* The detach call.  A file system still mounted then has lost its disk.
Detach ==
    /\ At("detach")
    /\ \E r \in DetachCall(disk[op.name], Self) :
          /\ SetDisk(op.name, r.disk)
          /\ mnt' = [mnt EXCEPT ![op.name] =
                       IF @ = "live" /\ r.disk # disk[op.name] THEN "dead" ELSE @]
    /\ Return
    /\ UNCHANGED <<using, phase, todo, mem, file, jobs, doomed>>

(***************************************************************************)
(* Startup: state.Load, then Driver.Reconcile, then the socket.  An error   *)
(* ends the process, and Docker starts it again.                            *)
(***************************************************************************)
Listed == {n \in Name : disk[n] # NoDisk /\ Managed(disk[n])}
Marked == {n \in Listed : Deleting(disk[n])}

\* A deletion of every marked disk, in slot s.
Resumed(s) ==
    [n \in Name |-> [t \in Slots |->
        IF n \in Marked /\ t = s
        THEN [step |-> "delGet", snapshot |-> FALSE] ELSE Idle]]

\* A startup that does not ask whether a disk is being deleted.
Start_ImportsMarked ==
    /\ phase = "down"
    /\ phase' = "listed"
    /\ mem' = Reconciled(file, Listed, disk)
    /\ todo' = Listed
    /\ UNCHANGED <<disk, mnt, using, file, op, jobs, doomed>>

\* A startup that forgets the interrupted deletions.
Start_ForgetsMarked ==
    /\ phase = "down"
    /\ phase' = "listed"
    /\ mem' = Reconciled(file, Listed \ Marked, disk)
    /\ todo' = Listed \ Marked
    /\ UNCHANGED <<disk, mnt, using, file, op, jobs, doomed>>

\* Load the file, list the managed disks, resume the interrupted deletions
\* (without a snapshot), and align the store in memory with the other disks.
Start ==
    /\ phase = "down"
    /\ phase' = "listed"
    /\ mem' = Reconciled(file, Listed \ Marked, disk)
    /\ todo' = Listed \ Marked
    /\ \E s \in Slots : jobs' = Resumed(s)
    /\ UNCHANGED <<disk, mnt, using, file, op, doomed>>

\* The process ends: what it had in memory is gone.
Exit ==
    /\ phase' = "down"
    /\ todo' = {}
    /\ mem' = EmptyStore
    /\ op' = NoOp
    /\ jobs' = NoJobs

\* The store is written: what was missing in it is no longer taken for removed.
ReconcileStore ==
    /\ phase = "listed"
    /\ \E w \in Saved(mem) :
          \/ /\ w.ok
             /\ Save(mem, w)
             /\ phase' = "reset"
             /\ UNCHANGED <<todo, op, jobs>>
             /\ doomed' = [n \in Name |->
                   IF n \in todo /\ file[n] = NoVolume THEN "no" ELSE doomed[n]]
          \/ ~w.ok /\ Exit /\ UNCHANGED <<file, doomed>>
    /\ UNCHANGED <<disk, mnt, using>>

ResetRefCounts ==
    /\ phase = "reset"
    /\ \E w \in Saved(AllReset(mem)) :
          \/ /\ w.ok
             /\ Save(AllReset(mem), w)
             /\ phase' = "restore"
             /\ todo' = {n \in Name : Tracked(n)}
             /\ UNCHANGED <<op, jobs>>
          \/ ~w.ok /\ Exit /\ UNCHANGED file
    /\ UNCHANGED <<disk, mnt, using, doomed>>

\* A restoring that does not look at /proc/mounts.
RestoreMount_Always(n) ==
    /\ phase = "restore" /\ n \in todo
    /\ todo' = todo \ {n}
    /\ \E w \in Saved(SetMounted(mem, n)) : Save(SetMounted(mem, n), w)
    /\ UNCHANGED <<disk, mnt, using, phase, op, jobs, doomed>>

\* No restoring: the counts stay at zero.
RestoreMount_Never(n) ==
    /\ phase = "restore" /\ n \in todo
    /\ todo' = todo \ {n}
    /\ UNCHANGED <<disk, mnt, using, phase, mem, file, op, jobs, doomed>>

\* A mount that survived is waited for, until somebody unmounts it.
RestoreMount_Waits(n) ==
    /\ phase = "restore" /\ n \in todo
    /\ mnt[n] = "none"
    /\ todo' = todo \ {n}
    /\ UNCHANGED <<disk, mnt, using, phase, mem, file, op, jobs, doomed>>

\* A volume still mounted at its mountpoint counts one container again.  A
\* failure to look, or to write, is logged and passed over.
RestoreMount(n) ==
    /\ phase = "restore" /\ n \in todo
    /\ todo' = todo \ {n}
    /\ \/ /\ mnt[n] # "none"
          /\ \E w \in Saved(SetMounted(mem, n)) : Save(SetMounted(mem, n), w)
       \/ mnt[n] = "none" /\ UNCHANGED <<mem, file>>
       \/ "probe" \in Faults /\ UNCHANGED <<mem, file>>
    /\ UNCHANGED <<disk, mnt, using, phase, op, jobs, doomed>>

Serve ==
    /\ phase = "restore" /\ todo = {}
    /\ phase' = "serving"
    /\ UNCHANGED <<disk, mnt, using, todo, mem, file, op, jobs, doomed>>

(***************************************************************************)
(* What happens to the plugin.                                             *)
(***************************************************************************)
\* The plugin dies; the mounts of its volumes survive it.
Crash ==
    /\ "crash" \in Faults /\ phase # "down"
    /\ Exit
    /\ UNCHANGED <<disk, mnt, using, file, doomed>>

\* The VM reboots: the mounts and the containers are gone, the disks stay
\* attached.
Reboot ==
    /\ "reboot" \in Faults
    /\ Exit
    /\ mnt' = [n \in Name |-> "none"]
    /\ using' = [n \in Name |-> 0]
    /\ UNCHANGED <<disk, file, doomed>>

\* A container stops while no plugin answers: Docker's call of Unmount fails, and
\* is not made again.
UnmountUnheard(n) ==
    /\ "crash" \in Faults /\ phase # "serving"
    /\ using[n] > 0
    /\ using' = [using EXCEPT ![n] = @ - 1]
    /\ UNCHANGED <<disk, mnt, phase, todo, mem, file, op, jobs, doomed>>

\* Another VM attaches a disk that nobody uses, and detaches it later.
OtherAttach(n, i) ==
    /\ "other" \in Faults /\ i # Self
    /\ disk[n] # NoDisk /\ disk[n].user = nobody
    /\ SetDisk(n, [disk[n] EXCEPT !.user = i])
    /\ UNCHANGED <<mnt, using, phase, todo, mem, file, op, jobs, doomed>>

OtherDetach(n) ==
    /\ "other" \in Faults
    /\ disk[n] # NoDisk /\ disk[n].user \notin {Self, nobody}
    /\ SetDisk(n, [disk[n] EXCEPT !.user = nobody])
    /\ UNCHANGED <<mnt, using, phase, todo, mem, file, op, jobs, doomed>>

(***************************************************************************)
(* The specification.                                                      *)
(***************************************************************************)
\* The steps of the operation that holds d.mu.
Step ==
    \/ CreateGetDisk \/ CreateAdopt \/ CreateInsert \/ CreateConfirm
    \/ CreateAdd \/ CreateRollback
    \/ MountAttachGet \/ MountAttach \/ MountPrepare \/ MountMount
    \/ MountIncRef \/ MountUnwind
    \/ UnmountUmount \/ DetachGet \/ Detach

Startup ==
    \/ Start \/ ReconcileStore \/ ResetRefCounts
    \/ \E n \in Name : RestoreMount(n)
    \/ Serve

\* The calls of Docker.
Call ==
    \E n \in Name :
        \/ \E o \in Requests : Create(n, o)
        \/ RemoveRetain(n) \/ RemoveDelete(n)
        \/ MountAgain(n) \/ MountFirst(n)
        \/ UnmountNothing(n) \/ UnmountDecRef(n)

Background == \E n \in Name, s \in Slots : DeleteInBackground(n, s)

Environment ==
    \/ Crash \/ Reboot
    \/ \E n \in Name : UnmountUnheard(n)
    \/ \E n \in Name : OtherDetach(n) \/ \E i \in Instances : OtherAttach(n, i)

Next == Call \/ Step \/ Background \/ Startup \/ Environment

Spec == Init /\ [][Next]_vars

\* The plugin's own steps are taken: Go schedules its goroutines, the API calls
\* return or run into their deadlines, and Docker restarts a plugin that died.
Fairness ==
    /\ WF_vars(Step)
    /\ WF_vars(Startup)
    /\ \A n \in Name, s \in Slots : WF_vars(DeleteInBackground(n, s))

FairSpec == Spec /\ Fairness

(***************************************************************************)
(* Safety.                                                                 *)
(***************************************************************************)
AttachedHere(n) == disk[n] # NoDisk /\ disk[n].user = Self

\* What Docker is told is mounted, is mounted, from a disk attached to this VM:
\* a positive count always stands for a live mount (Mount, Reconcile).
AdvertisedIsMounted ==
    \A n \in Name :
        phase = "serving" /\ Tracked(n) /\ mem[n].ref > 0 =>
            mnt[n] = "live" /\ AttachedHere(n)

\* The same once the operation is over: a Mount whose state write fails goes back
\* "to a consistent state rather than leaking an attachment the count doesn't
\* know about" (Mount), nor does the count keep a mount that is gone.
UnwoundIsConsistent == op = NoOp => AdvertisedIsMounted

\* No container ever loses the file system under it: not to another container's
\* Unmount, not to a failed Mount, not to a deletion.
UsedIsMounted == \A n \in Name : using[n] > 0 => mnt[n] = "live" /\ AttachedHere(n)

\* A file system is never cut off from its disk: every detach, on the error
\* paths of Mount too, comes after the umount.
NeverTorn == \A n \in Name : mnt[n] # "dead"

\* A volume the plugin lists has a disk behind it, its own and not one that is
\* about to go ("we never expose a phantom volume").
TrackedHasDisk ==
    \A n \in Name :
        phase = "serving" /\ Tracked(n) =>
            disk[n] # NoDisk /\ Managed(disk[n]) /\ ~Deleting(disk[n])

\* No background deletion runs for a volume the plugin lists: "a concurrent
\* Create is refused" (deleteInBackground).
NoJobOnTracked ==
    \A n \in Name : phase = "serving" /\ Tracked(n) => NoJob(n)

\* When no operation runs, the disks attached to this VM are those of the
\* volumes with a positive count, which is the number of their containers.
AttachedIsCounted ==
    Free =>
        \A n \in Name :
            /\ AttachedHere(n) => Tracked(n)
            /\ Tracked(n) => mem[n].ref = using[n]
            /\ Tracked(n) => (AttachedHere(n) <=> mem[n].ref > 0)

(***************************************************************************)
(* What a step may never do.                                               *)
(***************************************************************************)
Vanishes(n) == disk[n] # NoDisk /\ disk'[n] = NoDisk

\* No disk is deleted but by a `docker volume rm` under reclaimPolicy=delete, or
\* by the rollback of the Create that failed, and that nothing has taken back
\* since: not by a restart, a retry or a job that comes late.
VanishesDoomed == \A n \in Name : Vanishes(n) => doomed[n] # "no"
DeletesOnlyDoomed == [][VanishesDoomed]_vars

\* Whatever order the steps come in, a disk is marked when it goes, so that a
\* crash just before would have been resumed.
VanishesMarked == \A n \in Name : Vanishes(n) => Deleting(disk[n])
MarkedBeforeDeleted == [][VanishesMarked]_vars

\* The driver implements VolumeLife: a name moves between absent, available,
\* removing and deleting along that module's moves only, whatever fails.  A disk
\* that bears the mark and that nobody has removed is at none of these: neither may
\* a mark come before its removal, nor a marked disk be a volume again.
LifeOf(n) ==
    IF disk[n] = NoDisk \/ ~Managed(disk[n]) THEN "absent"
    ELSE CASE Deleting(disk[n]) /\ doomed[n] # "no" -> "deleting"
           [] Deleting(disk[n]) /\ doomed[n] = "no" -> "astray"
           [] ~Deleting(disk[n]) /\ doomed[n] # "no" -> "removing"
           [] ~Deleting(disk[n]) /\ doomed[n] = "no" -> "available"
Life == INSTANCE VolumeLife WITH life <- [n \in Name |-> LifeOf(n)]
FollowsVolumeLife == Life!Spec

\* Docker is told that a volume is removed only when its disk can be deleted:
\* Remove "refuses if still attached/in use" (README.md).
AcceptsDeletion(n) ==
    phase = "serving" /\ \E s \in Slots : jobs[n][s] = Idle /\ jobs'[n][s] # Idle
RefusesAttached == [][\A n \in Name : AcceptsDeletion(n) => ~AttachedHere(n)]_vars

\* snapshotOnRemove: no disk of such a volume goes without its snapshot.
SnapshotBeforeDelete ==
    [][\A n \in Name : Vanishes(n) /\ doomed[n] = "snapshot" => disk[n].snapped]_vars

\* A disk without the plugin's label stays as it is; other VMs may attach it,
\* this one never does ("never touching foreign ones", ManagedByLabelKey).
KeepsForeign ==
    \A n \in Name :
        disk[n] # NoDisk /\ ~Managed(disk[n]) =>
            /\ disk'[n] # NoDisk
            /\ disk'[n].labels = disk[n].labels
            /\ disk'[n].snapped = disk[n].snapped
            /\ disk'[n].user # Self
ForeignUntouched == [][KeepsForeign]_vars

(***************************************************************************)
(* Liveness.                                                               *)
(***************************************************************************)
\* The plugin is not killed again and again.
Survives == <>[][~Crash /\ ~Reboot]_vars

\* Every operation that takes d.mu gives it back.
OperationEnds == op # NoOp ~> op = NoOp

\* The plugin comes up, through every step of the reconciliation.
ComesUp == Survives => <>[](phase = "serving")

\* A deletion that got as far as the mark ends, whatever the plugin dies of in
\* between: startup resumes it.
MarkedDeletionEnds ==
    Survives =>
        \A n \in Name :
            disk[n] # NoDisk /\ Managed(disk[n]) /\ Deleting(disk[n]) ~> disk[n] = NoDisk

\* A removal is not forgotten: the disk goes, or a restart that found it unmarked
\* lists the volume again; unless a VM holds the disk.
RemovalEnds ==
    Survives =>
        \A n \in Name :
            doomed[n] # "no" /\ disk[n] # NoDisk ~>
                \/ doomed[n] = "no" \/ disk[n] = NoDisk \/ Attached(disk[n])
=============================================================================
