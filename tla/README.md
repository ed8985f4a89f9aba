# A verification development for docker-plugin-gce-pd

The repository is a Docker volume plugin: a daemon on a GCE VM that answers
Docker's volume calls, keeps one persistent disk (PD) per volume, attaches and
mounts it on the first use, detaches it after the last, and deletes it in the
background after `docker volume rm` when the volume's reclaim policy says so.
This directory models the control of the plugin in TLA+, checks small instances
with TLC, and proves some of the results for all values of the constants with
TLAPS. Paths below are relative to the repository.

## 1. The system

| Component | State it keeps | Operations | Hard behaviours |
|---|---|---|---|
| Driver, `internal/driver/driver.go` | the lock `d.mu`, the background goroutines `d.bg` | Create, Remove, Mount, Unmount, deleteInBackground; Get, List, Path, Capabilities read only | one lock over many API calls; the deletion does not take it; error paths that undo half of an operation |
| Reconciliation, `internal/driver/reconcile.go` | none of its own | Reconcile, before the socket opens | meets whatever a crash or a reboot left: surviving mounts, attached disks, marked disks, orphans, and the disks of other VMs |
| State store, `internal/state/state.go` | the volumes (options, reference count, status, mountpoint) in memory and in a JSON file | Load, persist; Add, Update, Remove, IncRef, DecRef, Reconcile, ResetRefCounts | memory changes before the file, and stays changed when the write fails; a temporary file and a rename, without a sync |
| GCE disks, `internal/gce/disk.go` | the disks of the zone, shared with every other VM and user | CreateDisk, GetDisk, DeleteDisk (Get, mark, snapshot, Delete), ListManagedDisks | several calls without a transaction; lost replies; two deletions of one disk |
| Attach/detach, `internal/gce/attach.go` | the users of a disk | AttachDisk, DetachDisk; in the scope `global` the failover: the holder's state, a clean detach, a grace, a forced detach | another VM acts between any two calls; the holder stops, is suspended, vanishes or starts again; clean and forced detach are one request |
| Retry and waiting, `internal/gce/retry.go`, `gce.go` | backoff, deadline of the context | retry, waitOp | repeating a call that took effect; a deadline shared by successive calls and by the error path |
| Mounter, `internal/mount/` | /proc/mounts, what a device holds | Mount, Unmount, IsMounted, WaitForDevice, EnsureFormatted | a mount that is there already is taken for the right one; a forced mkfs hangs on one answer of blkid |
| Options, `internal/gce/options.go` | none | ParseDiskOptions, EffectiveLabels, Matches | the labels decide which disks are the plugin's and which are being deleted |
| Start and end, `cmd/docker-volume-gcepd/main.go` | none | Load, Reconcile, serve; wait for the deletions at the end | an error ends the process, Docker starts it again |
| Metadata, `internal/metadata/` | none | OnGCE and three GETs at startup | each has a timeout, within that of the startup |

How they interact. Docker calls the driver over a socket; the driver serialises
Create, Remove, Mount and Unmount with one mutex, and calls the store, the
client of the Compute API and the mounter from inside it. Remove answers Docker
after it has dropped the record and starts a goroutine, outside the mutex, that
deletes the disk. The zone is shared: the plugins of other VMs attach and detach
the same disks, list them, import them and resume their deletions. The label
`managed-by=docker-gcepd` says that a disk is the plugin's, the label
`gcepd-deleting=true` that its deletion has begun; they are the only memory of
the plugin that a lost state file leaves.

What makes the components correct:

- Driver: what Docker is told is mounted is mounted, from a disk attached here;
  no container loses its file system; the last container, and only the last,
  releases the disk; a volume that is listed has a disk, its own, that nothing
  is deleting; every operation gives the lock back, and in time.
- Background deletion: only the disk of a removed volume goes, marked first, and
  with its snapshot where one was asked for; a marked disk does go in the end.
- Reconciliation: the plugin comes up from whatever a crash left; it neither
  revives a volume that is being deleted nor advertises a mount that is gone.
- GCE client: a disk that is not the plugin's is never changed; a failover takes a
  disk from the VM it found to have it only, and forces that after the grace only;
  the VM to which a task moved gets it.
- Retry: bounded in time, whatever the API answers.
- Store: an update replaces the file as a whole or not at all.
- Mounter: what a disk holds is never formatted away, and no interrupted mkfs
  leaves a disk that cannot be mounted.

`PROJECT.json` lists the hazards of the code line by line under `hazards`, with
the properties that cover them, or the reason why none does.

## 2. The modules

| Module | What it holds |
|---|---|
| `Options` | options and labels: what `ParseDiskOptions` can return, `EffectiveLabels`, the options of an imported disk |
| `Compute` | EXTENDS Options: a disk of the zone, the API calls as sets of outcomes, the steps of `DeleteDisk` |
| `Driver` | EXTENDS Compute: one action per step of each operation, startup, crashes, the environment; the scope `local` |
| `VolumeLife` | abstract: what the driver promises of each volume (absent, available, removing, deleting). `Driver` implements it, `FollowsVolumeLife` |
| `Cluster` | two instances of Driver, on two VMs, over one zone |
| `Failover` | AttachDisk in the scope `global`, Mount and Unmount of any number of VMs that take one disk from each other |
| `AtomicFile` | abstract: the state file as `Driver` takes it, a value that is replaced as a whole, and that a loss of power takes back or empties |
| `StateFile` | Load and persist system call by system call. It implements `AtomicFile`, `IsAtomic` |
| `Deadlines` | the time of every operation: contexts, retries, backoff, waits, the device, the commands, the startup |
| `Device` | what blkid, mkfs, mount and umount do to the contents of a disk |
| `MCDriver`, `MCCluster`, `MCFailover`, `MCStateFile`, `MCDeadlines`, `MCDevice` | the instances TLC checks |
| `DriverProofs` | type correctness of Driver, the invariants about the process and the store that it needs, what a step leaves alone, and that foreign disks are untouched |
| `DriverLifeProofs` | EXTENDS DriverProofs: only doomed disks are deleted, marked, and with their snapshot; the refinement of VolumeLife; what is listed has a disk and no deletion |
| `DriverMountProofs` | EXTENDS DriverProofs: counts, mounts, attachments and containers agree; what a plugin leaves to the other VMs of its zone |
| `ClusterProofs` | EXTENDS Cluster, two instances of DriverMountProofs: the same for the two plugins of a zone |
| `FailoverProofs`, `DeadlinesProofs`, `DeviceProofs` | the results about these modules; that of `StateFile` is at its end |

The modules meet where one takes for a step what another has in detail: an
update of the store is one step of `Driver` (`Saved`) and a few system calls in
`StateFile`; `WaitForDevice` and `EnsureFormatted` are one step of `Driver`
(`MountPrepare`) and several in `Device` and `Deadlines`; that every step of an
operation ends, the fairness of `Driver`, is what `Deadlines` shows of the code.

### State and code: `Driver`

| Variable | Code |
|---|---|
| `disk[n]` | the disk named `n` in the zone: size, type, labels, user; `snapped` is a history bit, set when a snapshot of this very disk is made |
| `mnt[n]` | the entry of the mountpoint in /proc/mounts; `dead` is a mount whose disk was detached under it |
| `using[n]` | how many containers hold the mountpoint: Docker's knowledge, not the plugin's |
| `phase`, `todo` | where the process stands: `down`, the steps of `Reconcile`, `serving`; `todo` is the list of names a startup step works through |
| `mem`, `file` | the store in memory, and the state file |
| `op` | the operation that holds `d.mu` and its next call; `NoOp` when the mutex is free |
| `jobs[n][s]` | the goroutines of `deleteInBackground` for the name |
| `doomed[n]` | history: was the disk of this name given up, by a Remove that was acknowledged or a Create that failed (`plain`), or by a Remove that promises a snapshot first (`snapshot`); taken back by adoption, a new Insert, or an import |

An operation is a sequence of steps. A step is the code from one call of a
collaborator to the next, the call included: `MountFirst`, `MountAttachGet`,
`MountAttach`, `MountPrepare`, `MountMount`, `MountIncRef` are the calls of
`Mount` in order, and its four error paths lead to `MountUnwind`, `DetachGet`
and `Detach`. An operation that calls nothing but the store is one action
(`RemoveRetain`, `MountAgain`). Between two steps a background deletion, another
VM, a crash or a reboot may come.

`CreateAfter` says when Docker's next Create of a removed name may come: at once
(`"removal"`), when its disk bears the mark or is gone (`"mark"`), or when the
deletion has ended (`"deletion"`).

### State and code: the other modules

- `Cluster` has the variables of `Driver` twice, but for `disk` and `doomed`,
  which the two plugins share. Nothing else connects them.
- `Failover`: `user` is the one user of the disk, `status[v]` what
  `instances.Get` says of a VM (`""`: not found), `fs[v]` its file system
  (`torn`: mounted, the disk taken), `pc[v]` the step of its AttachDisk, Mount or
  Unmount, `holder[v]` the user AttachDisk has read, `waited[v]` the polls of the
  grace loop. `stale[v]` is history: the holder has started again since `v` read
  its status. The clean detach, the one of a holder that is down, the forced one
  and the one of `DetachDisk` are the same request, without a flag, and so one
  action, `Detach`. What Compute Engine does with a disk that is mounted, take it or
  leave it where it is, is the constant `OnMounted`, for all four of them; the run
  has both. `DetachDisk` is its Get (`Release`) and that request.
- `StateFile`: `tmp` and `path` are the two files as a process reads them,
  `durable` what of `path` has reached the device. `before` is history.
- `Deadlines`: `op` and `i` are an operation and its stage, `sub` where its call
  stands (the call, waitOp, the sleep of the backoff), `now` the time since its
  context was made, `start` when `retry` was entered, `change` what the zone has
  accepted and not yet done, `entered` when the stage began, from which the grace
  of a failover counts. Any step may take any time up to its limit. The failover of
  the scope `global` is an operation that begins within a Mount and goes back to it.
- `Device`: `content[n]` is what blkid would find (`half`: mkfs was killed;
  `table`: a partition table), `data` the devices that hold somebody's data,
  `command` the one the plugin runs.

`map` in `PROJECT.json` gives the source lines of every definition.

### Abstractions

- An API call of `Driver` is atomic and has three outcomes: it succeeds;
  `error`, it fails and nothing happened; `lost`, it took effect and the client
  sees an error. `retry` and `waitOp` are in `Driver` by that effect, in
  `Deadlines` by their time. `DeleteDelete` also has the Delete that is sent
  again after it took effect.
- `markDeleting` is a Get and a SetLabels with the fingerprint of the Get. It is
  one step, `MarkCall`, with the extra outcome that another marking came between
  the two (412).
- `status` and `mountpoint` of a volume are functions of its reference count
  and are left out.
- Docker answers a Create of a volume it knows itself, so `Create` is called for
  names the plugin does not track; `optionsMatch` reads only.
- Docker calls Unmount once, when a container stops, and does not repeat it when
  it fails. `UnmountUnheard` is the call that finds no plugin.
- A graceful end is a crash that comes after the background deletions.
- `Failover` has one disk, and in it the driver's store is the file system: Mount
  comes when there is none, Unmount when there is one. Time is the count of polls.
- `Deadlines` has the errors by what `isRetryable` makes of them.

## 3. The runs

`Faults` and `ApiFaults` name what may go wrong in the runs of `Driver`:

- API calls: `error`, `lost`.
- `persist`: a write of the state file fails.
- `umount`: an umount fails.
- `device`: the device does not appear, mkfs fails or mount fails.
- `probe`: /proc/mounts cannot be read at startup.
- `crash`, `reboot`: the plugin dies; the VM reboots.
- `other`: another VM attaches and detaches the disks.

| Run | Instance | Properties | States |
|---|---|---|---|
| `crashes` | two volumes; error, lost, device, crash, reboot, other | `AdvertisedIsMounted`, `NeverTorn`, `TrackedHasDisk`, `UsedIsMounted`, `DeletesOnlyDoomed`, `MarkedBeforeDeleted`, `FollowsVolumeLife` | 42 thousand |
| `containers` | two plugins, two containers on each VM; device; Create once the disk is marked | `UsedIsMounted`, `AttachedIsCounted`, `RefusesAttached` | 357 thousand |
| `faults` | two volumes; error, umount, other; Create once the disk is marked | `NeverTorn`, `NoJobOnTracked`, `SnapshotBeforeDelete` | 24 thousand |
| `hostile` | one volume, two deletions of it at once; error, lost, persist, probe, crash, reboot, other; Create at any time; a foreign disk in the zone | `TypeOK`, `NeverTorn`, `ForeignUntouched` | 726 thousand |
| `progress` | two volumes; device, crash, reboot; fair | `OperationEnds`, `ComesUp`, `MarkedDeletionEnds`, `RemovalEnds` | 5 thousand |
| `failover` | two VMs that both ask for the disk; error, lost; stop, suspend, crash, delete, restart; a detach takes a mounted disk or leaves it; fair | `Fenced`, `TaskGetsItsVolume` | 505 thousand |
| `statefile` | three stores; failing system calls, deaths of the process, losses of power | `IsAtomic` | 3 thousand |
| `deadlines` | every operation, both scopes; the timeouts of the code, in units of ten seconds | `ReturnsInTime`, `LastAttempt` | 507 thousand |
| `device` | two volumes; every command fails or is killed; fair | `KeepsData`, `GetsMounted` | 2 thousand |
| `snapshot_lost` | crash | `SnapshotBeforeDelete`, violated | |
| `recreate_race` | no fault; Create at any time | `NoJobOnTracked`, violated | |
| `unwind` | persist | `UnwoundIsConsistent`, violated | |

A passing run leaves out the faults under which its properties fail; section 4
has each of those. In particular: with `persist` the memory of the store is ahead
of the file (hence only `hostile` has it); a failed umount leaves a mount behind
a count of zero, which a Mount that fails on the device later tears from its disk
(hence no run has both); a restart counts one container (hence one per volume in
`crashes`, and no crash in `containers`); a crash loses a snapshot (hence none in
`faults`).

Bounds, and why they are enough to meet the interesting cases:

- two volume names where two operations or deletions have to meet, one where
  one volume meets itself or two plugins meet over it. The lock is shared, so a
  third name only waits. `hostile` has `Slots = {1, 2}`, for two deletions;
- `MaxContainers = 2` in `containers`: "first", "one of several", "last". In
  `crashes` `MaxRef = 2` is above the one container, so that the count a restart
  restores can be too high;
- three requests: the default (retain), delete, and delete with a snapshot; one
  size, type and file system, as adoption only asks whether they are equal;
- two VMs: this one and one other. The driver never looks further than "here,
  nobody, elsewhere". In `failover` each of them can be the holder and the taker,
  and each may fail over to the other while that fails over to it; the proof of
  `Fenced` is for any number;
- in `failover` a grace of one poll and a context of three: the grace runs out,
  and the context does not end first;
- `deadlines`: 300 s of an operation, 30 s of the startup, 120 s of waitOp and of
  the backoff, 60 s of the device and 30 s of the grace are 30, 3, 12, 12, 6 and 3
  units. What is shorter
  than a unit (the polls of a second, the first sleeps of the backoff, the five
  seconds of the metadata) is one. The proofs have any timeouts.

### Fairness

- `progress`: `WF_vars(Step)`, an operation that holds the lock goes on: Go
  schedules the goroutine, and every API call and device wait ends, by its answer
  or by a deadline (`ReturnsInTime` of `Deadlines`). `WF_vars(Startup)`, a plugin
  that is down is started, as Docker does, and comes through its startup steps.
  `WF_vars(DeleteInBackground(n, s))`, for each deletion. Calls of Docker,
  crashes, reboots and other VMs are not fair. `ComesUp`, `MarkedDeletionEnds` and
  `RemovalEnds` assume `Survives`: from some point on the plugin is not killed,
  since one that dies in every startup never comes up. After a reboot of the VM
  the restart is a matter of configuration (`README.md:330`): these three assume it
  was made. There are no API faults: a deletion whose calls fail is not tried again
  before the next start.
- `failover`: the calls of a plugin return, and Swarm asks again while the task
  is not up (`WF_vars(Step(v))`, `WF_vars(Mount(v))`). `TaskGetsItsVolume` is
  about a task that stays on a VM (`TaskStays`): from some point on the VM runs,
  no other VM asks for the disk, and calls of this plugin do not fail any more
  unless the zone or the context's end makes them. Nor is the disk left for ever to
  a VM that is down or has had its grace, when it is asked back.
- `device`: Docker asks again for a volume that is not mounted, and a command that
  can end well does so now and then (strong fairness, as each is preceded by
  others that may fail); commands end.

## 4. Where the code does something else than it says

### The violated runs

1. `snapshot_lost`. `DeleteDisk` marks the disk, then takes the snapshot. A
   plugin that dies in between resumes the deletion without one
   (`reconcile.go:40`), although the comment there says that it was taken.
2. `recreate_race`. Remove answers before its goroutine has marked the disk. A
   Create of the same name adopts the disk, which is then marked and deleted.
   `driver.go:250` says that such a Create is refused.
3. `unwind`. When the write of the count fails, Mount umounts and detaches, but
   the count in memory stays raised (`state.go:185`). The next Mount returns an
   empty directory. The comment at `driver.go:321` says "a consistent state".

### Other instances

The modules hold more of these. Each line is an instance of a module that is not
among the runs, and the property that TLC finds violated in it; constants not
named are as in the run in brackets, a single volume is enough.

| Instance | Property | What happens |
|---|---|---|
| Driver [`crashes`], `Faults = {"crash"}`, `MaxContainers = 2` | `UsedIsMounted` | a restart sets the count of a mounted volume to 1 (`reconcile.go:82`); the first of two containers to stop unmounts it under the other. `README.md:339` says the plugin "restores ref counts" |
| Driver [`crashes`], `ApiFaults = {"lost"}`, `Faults = {}`, `CreateAfter = "mark"` | `DeletesOnlyDoomed` | the reply of a Delete is lost, a Create makes a new disk, and the Delete that is sent again (`disk.go:139`) takes that |
| Driver [`crashes`], `Faults = {"umount"}`, no API faults | `RefusesAttached` | a failed umount leaves the count at zero (`driver.go:357`), and Remove, which looks at the count only, accepts. `README.md:29`: "Refuses if still attached/in use" |
| the same with `Faults = {"umount", "device"}` | `UsedIsMounted` | the mount left behind is torn by a later Mount that fails, and the Mount after that takes it for the volume's (`mount.go:155`) |
| the same with `Faults = {"probe", "device", "crash"}`, or `{"umount", "persist"}` | `NeverTorn` | a mount the store does not count, or one that could not be undone, loses its disk to an error path of Mount |
| Driver [`crashes`], `Faults = {"persist"}`, no API faults | `TrackedHasDisk` | a record that cannot be written stays in memory after its disk was rolled back (`driver.go:162`). `state.go:251`: "we never expose a phantom volume" |
| Driver [`crashes`], a request with the label `gcepd-deleting=true` | `DeletesOnlyDoomed` | the next start deletes the disk of a volume nobody removed (`options.go:180` reserves `managed-by` only) |
| Cluster [`containers`] | `SnapshotBeforeDelete` | a plugin that starts resumes, without a snapshot, the deletion that another is at: no crash is needed |
| Cluster [`containers`] | `TrackedHasDisk` | a volume retained by one VM is adopted on another with `reclaimPolicy=delete` and removed: the first, which has imported it, goes on listing it. `state.go:251`: "we never expose a phantom volume" |
| Cluster [`containers`] | `MarkedBeforeDeleted` | two plugins delete one disk, a Create makes a new one in between, the second deletes that unmarked |
| Failover [`failover`], also with `Events = {}` and no API faults | `GraceGiven` | the clean detach (`attach.go:155`) and the forced one (`attach.go:172`) are the same request, as `attach.go:104` says, and nothing asks the holder to umount: a VM that runs loses the disk it has mounted before any wait. `README.md:275`: "waits up to `GCEPD_FORCE_DETACH_AFTER`" |
| Failover [`failover`] | `DownIsNotWriting` | a holder that is STOPPING is taken for down (`attach.go:228`), and still writes. `attach.go:131`: "it cannot be writing" |
| Failover [`failover`], `ForceDetachAfter = 0` | `WaitsAtMostTheGrace` | a configured zero passes `main.go:135` and is replaced by the default (`gce.go:167`) |
| Failover [`failover`], `ForceDetachAfter = 3`, `OpTimeout = 2` | `TaskGetsItsVolume` | a grace longer than Mount's context (`attach.go:174`) never ends: each Mount begins a new one. `attach.go:136`: "must get its volume" |
| StateFile [`statefile`] | `NeverEmptied` | the rename reaches the device before the data (`state.go:90`), and an empty file is a store without volumes |
| Deadlines [`deadlines`] | `GivesUpInTime` | the elapsed time is looked at before the sleep (`retry.go:52`): an attempt begins up to one sleep after MaxElapsed. `retry.go:23`: "give up after this much total time" |
| Deadlines [`deadlines`], `Errors = {"unavailable"}` | `AcceptedOnce` | a retryable error of waitOp sends the change again (`attach.go:66`). `retry.go:17`: "only for the API call itself" |
| Deadlines [`deadlines`] | `NoDanglingAttachment` | the context that ended the wait for the device ends the detach too (`driver.go:306`) |
| Device [`device`], `Origins = {"table"}` | `KeepsData` | blkid has no type for a disk made of an operating system's image, and it is formatted (`mount.go:143`). `README.md:26`: "only if blank" |

`Fenced` allows what the code does besides: a holder that is STOPPING or SUSPENDING
loses a mounted disk at once, and so does one that was down when it was looked at
and has started again and mounted the disk before the detach comes
(`attach.go:146`); `stale` marks the latter. With
`OnMounted = {"left"}`, a Compute Engine that leaves mounted disks alone,
`GraceGiven` holds (470 thousand states), but then no failover takes a mounted disk
from a VM that runs, after the grace either.

Three instances that are not among the runs and in which no error is found:
`NeverTorn` in [`crashes`] with `Faults = {"umount", "probe", "crash", "reboot",
"other"}`; `NoJobOnTracked`, `TrackedHasDisk` and `DeletesOnlyDoomed` in
[`crashes`] with `CreateAfter = "mark"`, without lost replies; `UsedIsMounted` of
`Cluster` with crashes, and one container on each VM (813 thousand states). All but
the last property of the second are instances of theorems of section 5.

## 5. What is proved

TLAPS checks every proof; the theorems hold for all constants that satisfy the
named assumptions of the modules (`DriverAssumption`, `FailoverAssumption`, ...):
any number of names, VMs, deletions and containers, any requests
`ParseDiskOptions` can return, any timeouts, any set of faults.

| Theorem | States | Assumes besides |
|---|---|---|
| `TypeCorrect` | `Spec => []TypeOK` (Driver) | |
| `ForeignIsUntouched` | `Spec => ForeignUntouched` | |
| `OnlyDoomedAreDeleted` | `Spec => DeletesOnlyDoomed` | `Careful` |
| `DeletedAreMarked` | `Spec => MarkedBeforeDeleted` | `Careful` |
| `ImplementsVolumeLife` | `Spec => FollowsVolumeLife`: Driver implements VolumeLife | `Careful` |
| `NoDeletionOfTracked` | `Spec => []NoJobOnTracked` | `Orderly` |
| `NoPhantomVolume` | `Spec => []TrackedHasDisk` | `Orderly` |
| `SnapshotsAreTaken` | `Spec => SnapshotBeforeDelete` | `Orderly`, `LivesOn` |
| `CountIsMounted` | `Spec => []AdvertisedIsMounted` | `Undisturbed` |
| `NothingIsTorn` | `Spec => []NeverTorn` | `Undisturbed` or `DevicesWork` |
| `ContainersKeepVolumes` | `Spec => []UsedIsMounted`, of Driver and of Cluster | `Undisturbed`, `OneContainer` |
| `CountIsAttached` | `Spec => []AttachedIsCounted`, of Driver and of Cluster | `Quiet` |
| `AttachedIsRefused` | `Spec => RefusesAttached`, of Driver and of Cluster | `Quiet` |
| `FencingHolds` | `Spec => Fenced` (Failover) | |
| `FileIsAtomic` | `Spec => IsAtomic`: StateFile implements AtomicFile | |
| `OperationsReturnInTime` | `Spec => []ReturnsInTime` (Deadlines) | |
| `RetriesAreBounded` | `Spec => []LastAttempt` (Deadlines) | |
| `FormatsOnlyBlank` | `Spec => KeepsData` (Device) | `NoTables` |

- `TypeCorrect`. `TypeOK` alone is not inductive. `BaseInv` adds what a process
  that is down still has (`PhaseInv`: nothing), and that an update of a record
  finds the record (`StoreInv`: `Mount` works on a tracked volume as long as it
  holds the lock, and so does the last step of startup).
- `ForeignIsUntouched`. A step such as `Detach` or `DeleteDelete` asks nothing
  about the label, it relies on an earlier check. `ForeignInv` carries the check
  to the step: a name with a foreign disk is not tracked, no deletion runs for
  it, no operation is past the point where it is refused. Since nothing removes
  or adds the label `managed-by`, that stays true.
- `OnlyDoomedAreDeleted`, `DeletedAreMarked`. `DeleteInv` says that a deletion
  that is running for a name is doomed and, once past the mark, finds a marked
  disk or none (`DoomInv`, `MarkInv`); `CreateInv` that no deletion runs while a
  Create of the name has the lock; `ListedInv` that what startup is about to list
  was unmarked when it was listed and still is. `Careful` is needed for it: no Create
  overtakes a deletion (`recreate_race` shows what happens otherwise), and no
  user sets the label `gcepd-deleting` himself.
- `ImplementsVolumeLife`. `LifeOf` gives a marked disk the life `deleting` only if
  it is doomed, and otherwise none of VolumeLife (`astray`): that no disk is astray,
  that is, that the removal or the rollback came before the mark, is part of what is
  checked and proved. The same invariant gives it, `DoomedInv` that marked managed
  disks are doomed, and every step leaves a disk its owner and its mark (`Steady`),
  so each is a move or a stutter.
- `NoDeletionOfTracked`, `NoPhantomVolume`. `Orderly` lets a Create come while the
  deletion is at work, as soon as its disk is marked, when no reply is lost; with
  lost replies it has the Create wait for the end of the deletion. No write of the
  state file fails and no user sets the mark. The argument is what the comments of
  `deleteInBackground` give in words: `OneJobInv`, a name has one deletion at a time
  and it ends as the disk goes, so a Create that overtakes it sees the mark, and
  `ClearedInv`, it then goes no further than its first call; hence whatever it
  records has a disk and no deletion (`BackedInv`), and a restart lists unmarked
  disks only. Each conjunct of the hypothesis is needed: section 4 has the lost
  reply, the failed write and the user's mark, `recreate_race` the early Create.
- `SnapshotsAreTaken`. `SnapshotInv` follows the promise through the deletion: a
  job of a volume doomed with a snapshot remembers it (`jobs[n][s].snapshot`) up to
  the Delete call, and there the disk that the call would find has its snapshot,
  also when the call is made again. That a Remove finds no older job, which would
  not know of the promise, is `BackedInv`. `LivesOn`, no crash and no reboot, is
  needed: a restart resumes deletions without their snapshot (`snapshot_lost`).
- `CountIsMounted`, `NothingIsTorn`, `ContainersKeepVolumes`. `Undisturbed` says
  that the state file can be written, that a umount works and that startup can
  read /proc/mounts; API calls, devices and mounts may fail, replies be lost,
  Creates overtake deletions, other VMs want the disks, the plugin and the VM die
  at any step. Three states of a volume have to agree, and an operation changes
  them one at a time. `WorkInv`: the volume of the operation has no count, and is
  mounted between the mount and the count (`incRef`), and between the count and the
  umount, only. `CountFits`: elsewhere count and mount agree, and on the way up
  from a crash, whose mounts have outlived the counts, startup has a record of
  every mount in time. That holds because a mounted disk is attached (`MountedIs`)
  and managed (`ForeignInv`): nobody else can take it, no deletion can delete it,
  and `Reconcile` lists it again unless it is marked, and then nothing counts it.
  `UseFits`: the containers are at most the count, which a restart sets to one;
  hence `OneContainer`, one a volume if the plugin may die. `NothingIsTorn` also
  holds under `DevicesWork`, the case of `hostile` and `faults`: no device, mkfs or
  mount fails, and writes or umounts fail, but not both. Count and mount may then
  disagree at will; a detach still comes after a umount that worked (`TornInv`), as
  no error path but the unwinding leads to it.
- `CountIsAttached`, `AttachedIsRefused`. `Quiet` leaves the faults of devices and
  mounts, and other VMs: with an API fault, a failed write or umount, or a crash,
  a disk does stay attached without a count (section 4, and the hazards of
  `PROJECT.json`). `QuietInv` says, disk by disk, that it is attached here exactly
  if the volume has a count or the operation is between AttachDisk and DetachDisk
  with it, and that the count is the number of containers; that every error path of
  Mount passes DetachDisk makes it inductive. Remove, which reads the count only,
  then refuses every attached disk.
- The theorems of `Cluster`. The plugin of a VM is an environment of the other: it
  creates, attaches, marks, deletes and imports disks of the same zone. `Spares(v)`
  is all that VM v's invariants rely on: a step of another keeps the disks v has
  attached, with their marks, gives v no other, and puts no foreign disk in the place
  of the plugin's. Every step of a plugin guarantees it to every other VM
  (`NextSpares`, from `BaseInv` alone), and a step that grants it keeps the
  invariants of a plugin that does not move (`SparedKeeps`). So each step of
  `Cluster` is a step of one plugin, which keeps its own invariant, and spares the
  other. The environment's other VMs are left out there (`other`): they would act
  for the second plugin behind its back. `SameA`, `SameB` only say that the plugins
  of `Cluster` and those the lemmas are about are the same.
- `FencingHolds`. `HolderInv` is what a failover knows of the VM it takes the disk
  from: that it is another one; after the grace at `force`; not running, or started
  again since, at `down`. It is about each taker and the VM it has read, so the
  other failovers cannot disturb it, and a restart marks all the takers it concerns.
  A VM that is at its own detach has nothing mounted, so that tears nothing,
  whoever has the disk by then.
- `FileIsAtomic`. The mapping has memory as it was before the update until the
  rename. `FileInv`: the state file, and what of it has reached the device, is
  whole or empty, and the temporary file is the store in memory when it is renamed,
  whatever an earlier process left of it.
- `OperationsReturnInTime`, `RetriesAreBounded`. Each bound is inductive only with
  the others: a stage begins before the deadline or ends at once, the backoff never
  sleeps past it and never longer than `MaxInterval`. Only WaitForDevice and
  the loop of a failover sleep without an eye on the context, and look at it each time.
- `FormatsOnlyBlank`. Between blkid and mkfs the contents cannot change: `IInv`
  says that what mkfs is about to format was not detected (`FormatsUndetected`),
  that a device with data has a detectable file system (`DataIsDetected`), and that
  only such a device is mounted (`MountsFs`).

Only model-checked: the liveness properties, `OperationEnds`, `ComesUp`,
`MarkedDeletionEnds`, `RemovalEnds` (run `progress`), `TaskGetsItsVolume`
(`failover`) and `GetsMounted` (`device`), which need fairness and are out of
TLAPS's reach. So are ENABLED and induction over data, which no theorem here
needs. Every safety property of a passing run is stated by a theorem, whose
hypotheses hold in that run. The invariants of the proofs were also checked by TLC, on
the instances of the runs.

## 6. Not modelled

- The parsing of strings (options, their order in a Go map, sizes, the zone's
  name, JSON): `Options` has the range of the results. `Matches`, which Create asks
  of a name Docker does not know although the plugin does, reads only.
- Get, List, Path and Capabilities, which read only.
- What the metadata server answers, and the environment: the constants.
- Logging, the wording of errors, the plugin's packaging, the contents of files.

## 7. What could come next

1. A weaker hypothesis than `Quiet` for `AttachedIsRefused`, with the invariant of
   what a failed call leaves attached; the deletions of `Cluster` (when two plugins
   resume one deletion).
2. `Failover` over the disks of several volumes, with the store of `Driver` and its
   restarts.
3. The parsing of options, as a function checked against its documentation.
