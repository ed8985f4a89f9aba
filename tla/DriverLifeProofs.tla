---------------------------- MODULE DriverLifeProofs ----------------------------
(***************************************************************************)
(* The life of a volume.  Only doomed disks are deleted, and only marked    *)
(* ones, whatever fails: when no Create overtakes the deletion of its name  *)
(* (deleteInBackground marks the disk first to that end, see the run        *)
(* MCRecreateRace), and when no user asks for the mark as a label of his    *)
(* own, which parseLabels accepts.  So the driver implements VolumeLife.    *)
(* What it lists in between has a disk and no deletion, and what it deletes *)
(* has the snapshot that was asked for, under hypotheses of their own.      *)
(***************************************************************************)
EXTENDS DriverProofs

Careful ==
    /\ CreateAfter = "deletion"
    /\ \A o \in Requests : o.labels[DeletingLabelKey] # "true"

\* A Create has its name to itself, and adopts a disk that is not marked.
CreateInv ==
    op # NoOp =>
        /\ op.step \in CreateSteps \cup DeleteSteps => NoJob(op.name)
        /\ op.step \in CreateSteps => op.opts \in Requests
        /\ op.step = "adopt" =>
              disk[op.name] # NoDisk /\ ~Deleting(disk[op.name])
        /\ op.step \in DeleteSteps => doomed[op.name] # "no"

\* Deletions, and the marks they leave, are of doomed disks.
DoomInv ==
    \A n \in Name :
        /\ \A s \in Slots : jobs[n][s] # Idle => doomed[n] # "no"
        /\ disk[n] # NoDisk /\ Managed(disk[n]) /\ Deleting(disk[n])
              => doomed[n] # "no"

\* What a deletion does after the mark, it does to a marked disk.
PastMark == {"delSnapshot", "delDelete"}

MarkInv ==
    /\ \A n \in Name, s \in Slots :
          jobs[n][s].step \in PastMark /\ disk[n] # NoDisk => Deleting(disk[n])
    /\ op # NoOp /\ op.step \in PastMark /\ disk[op.name] # NoDisk
          => Deleting(disk[op.name])

DeleteInv == CreateInv /\ DoomInv /\ MarkInv

Safe == VanishesDoomed /\ VanishesMarked

LEMMA DeleteInit == Init => DeleteInv
<1> SUFFICES ASSUME Init PROVE DeleteInv
  OBVIOUS
<1>1. \A n \in Name : disk[n] # NoDisk => ~Managed(disk[n])
  BY DriverAssumption DEF Init
<1>2. \A n \in Name, s \in Slots : jobs[n][s] = Idle
  BY DEF Init, NoJobs
<1> QED
  BY <1>1, <1>2 DEF Init, DeleteInv, CreateInv, DoomInv, MarkInv, PastMark, Idle

(***************************************************************************)
(* Steps that neither delete nor mark.                                     *)
(***************************************************************************)
\* Users come and go; labels, snapshots, deletions and dooms stay; no Create begins.
Calm ==
    /\ \A k \in Name :
          \/ disk'[k] = disk[k]
          \/ /\ disk[k] # NoDisk /\ disk'[k] # NoDisk
             /\ disk'[k].labels = disk[k].labels
             /\ disk'[k].snapped = disk[k].snapped
    /\ UNCHANGED <<jobs, doomed>>
    /\ op' \in {op, NoOp} \/ op'.step \in MountSteps \cup UnmountSteps

LEMMA CalmKeeps ==
    ASSUME BaseInv, DeleteInv, Calm
    PROVE  DeleteInv' /\ Safe
<1>1. \A k \in Name :
        /\ disk'[k] = NoDisk <=> disk[k] = NoDisk
        /\ disk[k] # NoDisk => (Deleting(disk'[k]) <=> Deleting(disk[k]))
        /\ disk[k] # NoDisk => (Managed(disk'[k]) <=> Managed(disk[k]))
  BY DEF Calm, Deleting, Managed
<1>2. Safe
  BY <1>1 DEF Safe, VanishesDoomed, VanishesMarked, Vanishes
<1>3. op # NoOp => op.name \in Name
  BY OpIs
<1>4. DoomInv'
  BY <1>1 DEF DeleteInv, DoomInv, Calm
<1>5. \/ op' = op
      \/ op' = NoOp
      \/ op'.step \notin CreateSteps \cup DeleteSteps
  BY DEF Calm, MountSteps, UnmountSteps, CreateSteps, DeleteSteps
<1>6. CreateInv'
  <2>1. CASE op' = op
    BY <1>1, <1>3, <2>1 DEF DeleteInv, CreateInv, Calm, NoJob
  <2>2. CASE op' = NoOp
    BY <2>2 DEF CreateInv
  <2>3. CASE op'.step \notin CreateSteps \cup DeleteSteps
    BY <2>3 DEF CreateInv, CreateSteps
  <2> QED
    BY <1>5, <2>1, <2>2, <2>3
<1>7. MarkInv'
  BY <1>1, <1>3, <1>5 DEF DeleteInv, MarkInv, Calm, DeleteSteps, PastMark
<1> QED
  BY <1>2, <1>4, <1>6, <1>7 DEF DeleteInv

\* The end of the process.
LEMMA ExitKeeps ==
    ASSUME DeleteInv, Exit, UNCHANGED <<disk, doomed>>
    PROVE  DeleteInv' /\ Safe
<1>1. Safe
  BY DEF Safe, VanishesDoomed, VanishesMarked, Vanishes
<1>2. \A n \in Name, s \in Slots : jobs'[n][s] = Idle
  BY DEF Exit, NoJobs
<1> QED
  BY <1>1, <1>2 DEF DeleteInv, CreateInv, DoomInv, MarkInv, PastMark, Exit, Idle

(***************************************************************************)
(* The steps of an operation.                                              *)
(***************************************************************************)
LEMMA CalmStep ==
    ASSUME BaseInv,
           \/ MountAttachGet \/ MountAttach \/ MountPrepare \/ MountMount
           \/ MountIncRef \/ MountUnwind \/ UnmountUmount \/ DetachGet \/ Detach
    PROVE  Calm
<1>0. /\ op # NoOp /\ op \in Op /\ op.name \in Name
      /\ disk[op.name] \in MaybeDisk
  BY OpIs DEF At, MountAttachGet, MountAttach, MountPrepare, MountMount,
     MountIncRef, MountUnwind, UnmountUmount, DetachGet, Detach
<1>t. disk \in [Name -> MaybeDisk]
  BY DEF BaseInv, TypeOK, MaybeDisk
<1>n. \A step : [op EXCEPT !.step = step].step = step
  BY <1>0 DEF Op
<1> USE <1>0, <1>n DEF At, Goto, Return, MountSteps, UnmountSteps
<1>1. CASE MountAttachGet
  BY <1>1 DEF MountAttachGet, Calm
<1>2. CASE MountPrepare
  BY <1>2 DEF MountPrepare, Calm
<1>3. CASE MountMount
  BY <1>3 DEF MountMount, Calm
<1>4. CASE MountIncRef
  BY <1>4 DEF MountIncRef, Calm
<1>5. CASE MountUnwind
  BY <1>5 DEF MountUnwind, Calm
<1>6. CASE UnmountUmount
  BY <1>6 DEF UnmountUmount, Calm
<1>7. CASE DetachGet
  BY <1>7 DEF DetachGet, Calm
<1>8. CASE MountAttach
  <2> DEFINE e == [disk[op.name] EXCEPT !.user = Self]
  <2>1. PICK r \in AttachCall(disk[op.name], Self) : SetDisk(op.name, r.disk)
    BY <1>8 DEF MountAttach
  <2>2. disk[op.name] # NoDisk => /\ e.labels = disk[op.name].labels
                                  /\ e.snapped = disk[op.name].snapped
                                  /\ e # NoDisk
    <3>1. disk[op.name] # NoDisk => /\ e \in Disk /\ e.labels = disk[op.name].labels
                                    /\ e.snapped = disk[op.name].snapped
      BY DriverAssumption DEF MaybeDisk, Disk
    <3> QED
      BY <3>1, ComputeAssumption
  <2>3. r.disk = disk[op.name] \/ (disk[op.name] # NoDisk /\ r.disk = e)
    BY OutcomeIs DEF AttachCall, Failed
  <2>4. \A k \in Name : disk'[k] = IF k = op.name THEN r.disk ELSE disk[k]
    BY <1>t, <2>1 DEF SetDisk
  <2>5. \A k \in Name :
          \/ disk'[k] = disk[k]
          \/ /\ disk[k] # NoDisk /\ disk'[k] # NoDisk
             /\ disk'[k].labels = disk[k].labels
             /\ disk'[k].snapped = disk[k].snapped
    <3> HIDE DEF e
    <3> QED
      BY <2>2, <2>3, <2>4
  <2> QED
    BY <1>8, <2>5 DEF MountAttach, Calm
<1>9. CASE Detach
  <2> DEFINE e == [disk[op.name] EXCEPT !.user = nobody]
  <2>1. PICK r \in DetachCall(disk[op.name], Self) : SetDisk(op.name, r.disk)
    BY <1>9 DEF Detach
  <2>2. disk[op.name] # NoDisk => /\ e.labels = disk[op.name].labels
                                  /\ e.snapped = disk[op.name].snapped
                                  /\ e # NoDisk
    <3>1. disk[op.name] # NoDisk => /\ e \in Disk /\ e.labels = disk[op.name].labels
                                    /\ e.snapped = disk[op.name].snapped
      BY DEF MaybeDisk, Disk
    <3> QED
      BY <3>1, ComputeAssumption
  <2>3. r.disk = disk[op.name] \/ (disk[op.name] # NoDisk /\ r.disk = e)
    BY OutcomeIs DEF DetachCall, Failed
  <2>4. \A k \in Name : disk'[k] = IF k = op.name THEN r.disk ELSE disk[k]
    BY <1>t, <2>1 DEF SetDisk
  <2>5. \A k \in Name :
          \/ disk'[k] = disk[k]
          \/ /\ disk[k] # NoDisk /\ disk'[k] # NoDisk
             /\ disk'[k].labels = disk[k].labels
             /\ disk'[k].snapped = disk[k].snapped
    <3> HIDE DEF e
    <3> QED
      BY <2>2, <2>3, <2>4
  <2> QED
    BY <1>9, <2>5 DEF Detach, Calm
<1> QED
  BY <1>1, <1>2, <1>3, <1>4, <1>5, <1>6, <1>7, <1>8, <1>9

\* A step of Create for one name, without deletions of it before or after.
LEMMA CreateKeeps ==
    ASSUME BaseInv, DeleteInv, NEW n \in Name,
           \A k \in Name : k # n => disk'[k] = disk[k] /\ doomed'[k] = doomed[k],
           UNCHANGED jobs, NoJob(n),
           op' = NoOp \/ (op'.name = n /\ op'.step \in CreateSteps \cup DeleteSteps),
           op' # NoOp => /\ op'.step \in CreateSteps => op'.opts \in Requests
                         /\ op'.step = "adopt" => disk'[n] # NoDisk /\ ~Deleting(disk'[n])
                         /\ op'.step \in DeleteSteps => doomed'[n] # "no"
                         /\ op'.step \in PastMark /\ disk'[n] # NoDisk => Deleting(disk'[n]),
           disk'[n] # NoDisk /\ Managed(disk'[n]) /\ Deleting(disk'[n]) => doomed'[n] # "no"
    PROVE  DeleteInv'
<1>1. CreateInv'
  BY DEF CreateInv, NoJob
<1>2. \A s \in Slots : jobs'[n][s] = Idle
  BY DEF NoJob
<1>3. DoomInv'
  <2>1. \A k \in Name, s \in Slots : jobs'[k][s] # Idle => k # n /\ jobs[k][s] # Idle
    BY <1>2
  <2> QED
    BY <2>1 DEF DeleteInv, DoomInv
<1>4. MarkInv'
  <2>1. \A k \in Name, s \in Slots :
          jobs'[k][s].step \in PastMark => k # n /\ jobs[k][s].step \in PastMark
    BY <1>2 DEF PastMark, Idle
  <2> QED
    BY <2>1 DEF DeleteInv, MarkInv, PastMark
<1> QED
  BY <1>1, <1>3, <1>4 DEF DeleteInv

LEMMA CreateStep ==
    ASSUME Careful, BaseInv, DeleteInv,
           \/ CreateGetDisk \/ CreateAdopt \/ CreateInsert \/ CreateConfirm
           \/ CreateAdd \/ CreateRollback
    PROVE  DeleteInv' /\ Safe
<1>0. /\ op # NoOp /\ op \in Op /\ op.opts \in DiskOptions
      /\ op.step \in CreateSteps \cup DeleteSteps
  BY OpIs DEF At, CreateGetDisk, CreateAdopt, CreateInsert, CreateConfirm,
     CreateAdd, CreateRollback, CreateSteps
<1>n. PICK n \in Name : n = op.name
  BY <1>0, OpIs
<1>t. disk \in [Name -> MaybeDisk] /\ doomed \in [Name -> Dooms]
  BY DEF BaseInv, TypeOK, MaybeDisk
<1>j. NoJob(n)
  BY <1>0, <1>n DEF DeleteInv, CreateInv
<1>g. \A step : LET o == [op EXCEPT !.step = step] IN
        o.step = step /\ o.name = n /\ o.opts = op.opts
  BY <1>0, <1>n DEF Op
<1>r. op.step \in CreateSteps => op.opts \in Requests
  BY <1>0 DEF DeleteInv, CreateInv
<1>m. disk[n] # NoDisk /\ Managed(disk[n]) /\ Deleting(disk[n]) => doomed[n] # "no"
  BY DEF DeleteInv, DoomInv
<1>s. UNCHANGED disk => Safe
  BY DEF Safe, VanishesDoomed, VanishesMarked, Vanishes
<1>1. CASE CreateGetDisk
  <2>1. op' = NoOp \/ \E step \in {"insert", "adopt"} : op' = [op EXCEPT !.step = step]
    BY <1>1 DEF CreateGetDisk, Goto, Return
  <2>2. op' # NoOp /\ op'.step = "adopt" => disk[n] # NoDisk /\ ~Deleting(disk[n])
    <3>1. \A r \in GetCall(disk[n]) : r.disk = disk[n]
      BY OutcomeIs DEF GetCall
    <3> QED
      BY <1>1, <1>n, <1>g, <3>1 DEF CreateGetDisk, Goto, Return, Adoptable
  <2>3. UNCHANGED <<disk, jobs, doomed>>
    BY <1>1 DEF CreateGetDisk
  <2>4. op' = NoOp \/ (op'.name = n /\ op'.step \in {"insert", "adopt"} /\ op'.opts \in Requests)
    BY <2>1, <1>1, <1>g, <1>r DEF CreateGetDisk, At, CreateSteps
  <2>5. DeleteInv'
    BY <1>j, <1>m, <2>2, <2>3, <2>4, CreateKeeps DEF CreateSteps, DeleteSteps, PastMark
  <2> QED
    BY <1>s, <2>3, <2>5
<1>2. CASE CreateAdopt
  <2>1. /\ op' = NoOp /\ UNCHANGED <<disk, jobs>>
        /\ \A k \in Name : k # n => doomed'[k] = doomed[k]
    BY <1>2, <1>n, <1>t DEF CreateAdopt, Return, Doom
  <2>2. ~(disk[n] # NoDisk /\ Deleting(disk[n]))
    BY <1>0, <1>2, <1>n DEF CreateAdopt, At, DeleteInv, CreateInv
  <2> QED
    BY <1>j, <1>s, <2>1, <2>2, CreateKeeps
<1>3. CASE CreateInsert
  <2>1. PICK r \in InsertCall(disk[n], op.opts) :
          /\ SetDisk(n, r.disk)
          /\ Doom(n, IF disk[n] = NoDisk /\ r.disk # NoDisk THEN "no" ELSE doomed[n])
          /\ IF r.ok THEN Goto("confirm") ELSE Return
    BY <1>3, <1>n DEF CreateInsert
  <2>2. r.disk = disk[n] \/ (disk[n] = NoDisk /\ r.disk = NewDisk(op.opts))
    BY OutcomeIs DEF InsertCall, Failed
  <2>3. /\ op' = NoOp \/ (op'.name = n /\ op'.step = "confirm" /\ op'.opts \in Requests)
        /\ UNCHANGED jobs
    BY <1>3, <1>g, <1>r, <2>1 DEF CreateInsert, At, Goto, Return, CreateSteps
  <2>4. /\ \A k \in Name : k # n => disk'[k] = disk[k] /\ doomed'[k] = doomed[k]
        /\ disk'[n] = r.disk
        /\ doomed'[n] = IF disk[n] = NoDisk /\ r.disk # NoDisk THEN "no" ELSE doomed[n]
    BY <1>t, <2>1 DEF SetDisk, Doom
  <2>5. ~Deleting(NewDisk(op.opts))
    <3>1. op.opts \in Requests
      BY <1>3, <1>r DEF CreateInsert, At, CreateSteps
    <3> QED
      BY <1>0, <3>1, NewDiskIs DEF Careful
  <2>6. disk'[n] # NoDisk /\ Managed(disk'[n]) /\ Deleting(disk'[n]) => doomed'[n] # "no"
    BY <1>m, <2>2, <2>4, <2>5
  <2>7. DeleteInv'
    BY <1>j, <2>3, <2>4, <2>6, CreateKeeps DEF CreateSteps, DeleteSteps, PastMark
  <2>8. Safe
    BY <2>2, <2>4 DEF Safe, VanishesDoomed, VanishesMarked, Vanishes
  <2> QED
    BY <2>7, <2>8
<1>4. CASE CreateConfirm
  <2>1. UNCHANGED <<disk, jobs, doomed>>
    BY <1>4 DEF CreateConfirm
  <2>2. op' = NoOp \/ (op'.name = n /\ op'.step = "add" /\ op'.opts \in Requests)
    BY <1>4, <1>g, <1>r DEF CreateConfirm, At, Goto, Return, CreateSteps
  <2>3. DeleteInv'
    BY <1>j, <1>m, <2>1, <2>2, CreateKeeps DEF CreateSteps, DeleteSteps, PastMark
  <2> QED
    BY <1>s, <2>1, <2>3
<1>5. CASE CreateAdd
  <2>1. /\ UNCHANGED <<disk, jobs>>
        /\ \A k \in Name : k # n => doomed'[k] = doomed[k]
        /\ doomed'[n] \in {doomed[n], "plain"}
    BY <1>5, <1>n, <1>t DEF CreateAdd, Doom
  <2>2. op' = NoOp \/ (op'.name = n /\ op'.step = "delGet" /\ doomed'[n] = "plain")
    BY <1>5, <1>g, <1>n, <1>t DEF CreateAdd, Goto, Return, Doom
  <2>3. DeleteInv'
    BY <1>j, <1>m, <2>1, <2>2, CreateKeeps DEF CreateSteps, DeleteSteps, PastMark
  <2> QED
    BY <1>s, <2>1, <2>3
<1>6. CASE CreateRollback
  <2>1. PICK r \in DeleteDisk(disk[n], op.step, FALSE) :
          /\ SetDisk(n, r.disk)
          /\ IF r.next = "idle" THEN Return ELSE Goto(r.next)
    BY <1>6, <1>n DEF CreateRollback
  <2>2. PICK snap \in BOOLEAN : snap = FALSE
    OBVIOUS
  <2>3. op.step \in DeleteSteps /\ r \in DeleteDisk(disk[n], op.step, snap)
    BY <1>6, <2>1, <2>2 DEF CreateRollback
  <2>4. /\ r.next \in DeleteSteps \cup {"idle"}
        /\ disk[n] # NoDisk /\ r.disk = NoDisk => op.step = "delDelete"
        /\ r.next \in PastMark /\ r.disk # NoDisk => Deleting(r.disk) \/ op.step \in PastMark
    BY <1>t, <2>3, DeleteDiskIs DEF PastMark
  <2>5. /\ disk[n] = NoDisk => r.disk = NoDisk
        /\ r.disk # NoDisk => (Deleting(disk[n]) => Deleting(r.disk))
    BY <1>t, <2>3, DeleteDiskIs
  <2>6. doomed[n] # "no" /\ (op.step \in PastMark /\ disk[n] # NoDisk => Deleting(disk[n]))
    BY <1>0, <1>n, <2>3 DEF DeleteInv, CreateInv, MarkInv
  <2>7. /\ \A k \in Name : k # n => disk'[k] = disk[k]
        /\ disk'[n] = r.disk
        /\ UNCHANGED <<jobs, doomed>>
    BY <1>6, <1>t, <2>1 DEF SetDisk, CreateRollback
  <2>8. op' = NoOp \/ (op'.name = n /\ op'.step \in DeleteSteps /\ op'.step = r.next)
    BY <1>g, <2>1, <2>4 DEF Goto, Return
  <2>9. DeleteInv'
    BY <1>j, <2>4, <2>5, <2>6, <2>7, <2>8, CreateKeeps DEF CreateSteps, DeleteSteps
  <2>10. Safe
    BY <2>4, <2>6, <2>7 DEF Safe, VanishesDoomed, VanishesMarked, Vanishes, PastMark
  <2> QED
    BY <2>9, <2>10
<1> QED
  BY <1>1, <1>2, <1>3, <1>4, <1>5, <1>6

(***************************************************************************)
(* The other processes.                                                    *)
(***************************************************************************)
\* The names that startup may import: unmarked disks, and no deletion.
ListedInv ==
    phase = "listed" =>
        \A n \in todo :
            disk[n] # NoDisk /\ Managed(disk[n]) /\ ~Deleting(disk[n]) /\ NoJob(n)

\* The list is of one reading of the zone, which the deletions resumed with it and
\* the other VMs leave true.
LEMMA ListedNext ==
    ASSUME BaseInv, ListedInv, [Next]_vars
    PROVE  ListedInv'
<1>t. disk \in [Name -> MaybeDisk] /\ todo \in SUBSET Name
  BY DEF BaseInv, TypeOK, MaybeDisk
\* What has to be shown of the disks and the deletions.
<1>q. ASSUME UNCHANGED <<phase, todo>>,
             \A n \in todo :
                disk[n] # NoDisk /\ Managed(disk[n]) /\ ~Deleting(disk[n]) /\ NoJob(n) =>
                    /\ disk'[n] # NoDisk
                    /\ disk'[n].labels = disk[n].labels
                    /\ \A s \in Slots : jobs'[n][s] = jobs[n][s]
      PROVE  ListedInv'
  BY <1>q DEF ListedInv, Managed, Deleting, NoJob
<1>1. CASE phase' # "listed"
  BY <1>1 DEF ListedInv
<1>2. CASE Start
  <2>1. todo' = Listed \ Marked /\ UNCHANGED disk
    BY <1>2 DEF Start
  <2>2. PICK s \in Slots : jobs' = Resumed(s)
    BY <1>2 DEF Start
  <2>3. \A n \in Listed \ Marked : \A t \in Slots : jobs'[n][t] = Idle
    BY <2>2 DEF Resumed, Listed
  <2> QED
    BY <2>1, <2>3 DEF ListedInv, NoJob, Listed, Marked
<1>3. CASE Background
  <2>1. PICK n \in Name, s \in Slots : DeleteInBackground(n, s)
    BY <1>3 DEF Background
  <2>2. PICK r \in DeleteDisk(disk[n], jobs[n][s].step, jobs[n][s].snapshot) :
          BackgroundEffect(n, s, r)
    BY <2>1, BackgroundIs DEF BaseInv
  <2>3. ~NoJob(n) /\ UNCHANGED <<phase, todo>>
    BY <2>1, <2>2 DEF BackgroundEffect, NoJob, DeleteInBackground
  <2>4. \A k \in Name : k # n => /\ disk'[k] = disk[k]
                                 /\ \A t \in Slots : jobs'[k][t] = jobs[k][t]
    BY <1>t, <2>2 DEF BackgroundEffect
  <2> QED
    BY <1>q, <1>t, <2>3, <2>4
<1>4. ASSUME NEW n \in Name, NEW i \in Instances \cup {nobody},
             disk[n] # NoDisk, SetDisk(n, [disk[n] EXCEPT !.user = i]),
             UNCHANGED <<phase, todo, jobs>>
      PROVE  ListedInv'
  <2> DEFINE e == [disk[n] EXCEPT !.user = i]
  <2>1. e # NoDisk /\ e.labels = disk[n].labels
    BY <1>4, <1>t, ComputeAssumption DEF MaybeDisk, Disk
  <2> QED
    BY <1>4, <1>q, <1>t, <2>1 DEF SetDisk
<1>5. CASE Environment
  <2>1. ASSUME NEW n \in Name, UnmountUnheard(n)
        PROVE  ListedInv'
    BY <1>q, <2>1 DEF UnmountUnheard
  <2>2. ASSUME NEW n \in Name, OtherDetach(n)
        PROVE  ListedInv'
    BY <1>4, <2>2 DEF OtherDetach
  <2>3. ASSUME NEW n \in Name, NEW i \in Instances, OtherAttach(n, i)
        PROVE  ListedInv'
    BY <1>4, <2>3 DEF OtherAttach
  <2>4. Crash \/ Reboot => phase' # "listed"
    BY DEF Crash, Reboot, Exit
  <2> QED
    BY <1>1, <1>5, <2>1, <2>2, <2>3, <2>4 DEF Environment
<1>6. CASE UNCHANGED vars
  BY <1>6, <1>q DEF vars
\* Operations run when the plugin serves.
<1>7. CASE Call \/ Step
  <2>1. CASE Call
    BY <1>1, <2>1 DEF Call, Free, Create, RemoveRetain, RemoveDelete, Removable,
       MountAgain, MountFirst, UnmountNothing, UnmountDecRef
  <2>2. CASE Step
    <3>1. op # NoOp
      BY <2>2 DEF Step, At, CreateGetDisk, CreateAdopt, CreateInsert, CreateConfirm,
         CreateAdd, CreateRollback, MountAttachGet, MountAttach, MountPrepare,
         MountMount, MountIncRef, MountUnwind, UnmountUmount, DetachGet, Detach
    <3> QED
      BY <1>1, <2>2, <3>1, OpIs, StepIsAlone DEF StepAlone
  <2> QED
    BY <1>7, <2>1, <2>2
<1>8. CASE Startup
  <2>1. Start \/ phase' # "listed"
    BY <1>8 DEF Startup, ReconcileStore, ResetRefCounts, RestoreMount, Serve, Exit
  <2> QED
    BY <1>1, <1>2, <2>1
<1> QED
  BY <1>3, <1>5, <1>6, <1>7, <1>8 DEF Next

LEMMA ListedAlways == Spec => []ListedInv
<1>1. Init => ListedInv
  BY DEF Init, ListedInv
<1>2. BaseInv /\ ListedInv /\ [Next]_vars => ListedInv'
  BY ListedNext
<1> QED
  BY <1>1, <1>2, BaseAlways, PTL DEF Spec

LEMMA CallKeeps ==
    ASSUME Careful, BaseInv, DeleteInv, NEW n \in Name,
           \/ \E o \in Requests : Create(n, o)
           \/ RemoveRetain(n) \/ RemoveDelete(n)
           \/ MountAgain(n) \/ MountFirst(n)
           \/ UnmountNothing(n) \/ UnmountDecRef(n)
    PROVE  DeleteInv' /\ Safe
<1>t. /\ doomed \in [Name -> Dooms] /\ jobs \in [Name -> [Slots -> Job]]
      /\ \A k \in Name, s \in Slots : jobs[k][s] \in Job
  BY DEF BaseInv, TypeOK
<1>s. UNCHANGED disk => Safe
  BY DEF Safe, VanishesDoomed, VanishesMarked, Vanishes
<1>m. disk[n] # NoDisk /\ Managed(disk[n]) /\ Deleting(disk[n]) => doomed[n] # "no"
  BY DEF DeleteInv, DoomInv
<1>1. ASSUME NEW o \in Requests, Create(n, o)
      PROVE  DeleteInv' /\ Safe
  <2>1. op' # NoOp => op'.name = n /\ op'.step = "getDisk" /\ op'.opts \in Requests
    BY <1>1 DEF Create, Begin
  <2>2. NoJob(n) /\ UNCHANGED <<disk, jobs, doomed>>
    BY <1>1 DEF Create, CreateMayCome, Careful
  <2>3. DeleteInv'
    BY <1>m, <2>1, <2>2, CreateKeeps DEF CreateSteps, DeleteSteps, PastMark
  <2> QED
    BY <1>s, <2>2, <2>3
<1>2. CASE RemoveRetain(n)
  <2>1. Calm
    BY <1>2 DEF RemoveRetain, Calm
  <2> QED
    BY <2>1, CalmKeeps
\* The disk is doomed as its deletion begins.
<1>3. CASE RemoveDelete(n)
  <2>1. UNCHANGED disk /\ op = NoOp /\ op' = NoOp
    BY <1>3 DEF RemoveDelete, Removable, Free
  <2>2. CASE UNCHANGED <<jobs, doomed>>
    <3>1. Calm
      BY <2>1, <2>2 DEF Calm
    <3> QED
      BY <3>1, CalmKeeps
  <2>3. CASE \E s \in Slots : /\ jobs' = Spawned(n, s, mem[n].opts.snapshotOnRemove)
                             /\ Doom(n, IF mem[n].opts.snapshotOnRemove
                                        THEN "snapshot" ELSE "plain")
    <3>1. PICK s \in Slots : jobs' = Spawned(n, s, mem[n].opts.snapshotOnRemove)
      BY <2>3
    <3>2. /\ doomed'[n] # "no"
          /\ \A k \in Name : k # n => doomed'[k] = doomed[k]
      BY <1>t, <2>3 DEF Doom
    <3>3. /\ jobs'[n][s].step = "delGet"
          /\ \A k \in Name, t \in Slots : k # n \/ t # s => jobs'[k][t] = jobs[k][t]
      BY <1>t, <3>1 DEF Spawned
    <3>4. DoomInv'
      BY <2>1, <3>2, <3>3 DEF DeleteInv, DoomInv
    <3>5. MarkInv'
      <4>1. \A k \in Name, t \in Slots :
              jobs'[k][t].step \in PastMark => jobs[k][t].step \in PastMark
        BY <3>3 DEF PastMark
      <4> QED
        BY <2>1, <4>1 DEF DeleteInv, MarkInv
    <3> QED
      BY <1>s, <2>1, <3>4, <3>5 DEF DeleteInv, CreateInv
  <2> QED
    BY <1>3, <2>2, <2>3 DEF RemoveDelete
<1>4. CASE MountAgain(n)
  <2>1. Calm
    BY <1>4 DEF MountAgain, Calm
  <2> QED
    BY <2>1, CalmKeeps
<1>5. CASE MountFirst(n)
  <2>1. Calm
    BY <1>5 DEF MountFirst, Begin, Calm, MountSteps
  <2> QED
    BY <2>1, CalmKeeps
<1>6. CASE UnmountNothing(n)
  <2>1. Calm
    BY <1>6 DEF UnmountNothing, Calm
  <2> QED
    BY <2>1, CalmKeeps
<1>7. CASE UnmountDecRef(n)
  <2>1. Calm
    BY <1>7 DEF UnmountDecRef, Begin, Calm, UnmountSteps
  <2> QED
    BY <2>1, CalmKeeps
<1> QED
  BY <1>1, <1>2, <1>3, <1>4, <1>5, <1>6, <1>7

\* A deletion works on a doomed disk, next to other deletions of it at most.
LEMMA BackgroundKeeps ==
    ASSUME BaseInv, DeleteInv, NEW n \in Name, NEW s \in Slots, DeleteInBackground(n, s)
    PROVE  DeleteInv' /\ Safe
<1>t. disk \in [Name -> MaybeDisk]
  BY DEF BaseInv, TypeOK, MaybeDisk
<1>1. PICK r \in DeleteDisk(disk[n], jobs[n][s].step, jobs[n][s].snapshot) :
        BackgroundEffect(n, s, r)
  BY BackgroundIs DEF BaseInv
<1>2. /\ disk[n] # NoDisk /\ r.disk = NoDisk => jobs[n][s].step = "delDelete"
      /\ r.next \in PastMark /\ r.disk # NoDisk =>
            Deleting(r.disk) \/ jobs[n][s].step \in PastMark
  BY <1>1, DeleteDiskIs DEF BackgroundEffect, PastMark
<1>3. /\ disk[n] = NoDisk => r.disk = NoDisk
      /\ r.disk # NoDisk => (Deleting(disk[n]) => Deleting(r.disk))
  BY <1>1, DeleteDiskIs DEF BackgroundEffect
<1>4. /\ doomed[n] # "no"
      /\ jobs[n][s].step \in PastMark /\ disk[n] # NoDisk => Deleting(disk[n])
  BY <1>1 DEF BackgroundEffect, DeleteInv, DoomInv, MarkInv
<1>5. /\ \A k \in Name : k # n => disk'[k] = disk[k]
      /\ disk'[n] = r.disk
      /\ UNCHANGED <<op, doomed>>
  BY <1>t, <1>1 DEF BackgroundEffect, DeleteInBackground
<1>6. /\ jobs'[n][s] = Idle \/ jobs'[n][s].step = r.next
      /\ \A k \in Name, t \in Slots : k # n \/ t # s => jobs'[k][t] = jobs[k][t]
  BY <1>1 DEF BackgroundEffect
<1>7. op # NoOp /\ op.step \in CreateSteps \cup DeleteSteps => op.name # n
  BY <1>1 DEF BackgroundEffect, DeleteInv, CreateInv, NoJob
<1>8. op # NoOp => op.name \in Name
  BY OpIs
<1>9. CreateInv'
  BY <1>5, <1>6, <1>7, <1>8 DEF DeleteInv, CreateInv, NoJob, CreateSteps
<1>10. DoomInv'
  BY <1>4, <1>5, <1>6 DEF DeleteInv, DoomInv
<1>11. MarkInv'
  <2>1. ASSUME NEW k \in Name, NEW t \in Slots,
               jobs'[k][t].step \in PastMark, disk'[k] # NoDisk
        PROVE  Deleting(disk'[k])
    <3>1. CASE k # n
      BY <1>5, <1>6, <2>1, <3>1 DEF DeleteInv, MarkInv
    <3>2. CASE k = n /\ t # s
      <4>1. jobs[n][t].step \in PastMark /\ disk[n] # NoDisk
        BY <1>3, <1>5, <1>6, <2>1, <3>2
      <4> QED
        BY <1>3, <1>5, <2>1, <3>2, <4>1 DEF DeleteInv, MarkInv
    <3>3. CASE k = n /\ t = s
      <4>1. r.next \in PastMark /\ r.disk # NoDisk
        BY <1>5, <1>6, <2>1, <3>3 DEF Idle, PastMark
      <4> QED
        BY <1>2, <1>3, <1>4, <1>5, <3>3, <4>1
    <3> QED
      BY <3>1, <3>2, <3>3
  <2>2. op # NoOp /\ op.step \in PastMark /\ disk'[op.name] # NoDisk
          => Deleting(disk'[op.name])
    BY <1>5, <1>7, <1>8 DEF DeleteInv, MarkInv, PastMark, DeleteSteps
  <2> QED
    BY <1>5, <2>1, <2>2 DEF MarkInv
<1>12. Safe
  BY <1>2, <1>4, <1>5 DEF Safe, VanishesDoomed, VanishesMarked, Vanishes, PastMark
<1> QED
  BY <1>9, <1>10, <1>11, <1>12 DEF DeleteInv

\* Startup resumes the deletions the marks tell of, and imports the other disks.
LEMMA StartupKeeps ==
    ASSUME BaseInv, ListedInv, DeleteInv, Startup
    PROVE  DeleteInv' /\ Safe
<1>0. op = NoOp
  BY DEF BaseInv, PhaseInv, Startup, Start, ReconcileStore, ResetRefCounts,
     RestoreMount, Serve
<1>s. UNCHANGED disk => Safe
  BY DEF Safe, VanishesDoomed, VanishesMarked, Vanishes
<1>1. CASE Start
  <2>1. UNCHANGED <<disk, op, doomed>>
    BY <1>1 DEF Start
  <2>2. PICK s \in Slots : jobs' = Resumed(s)
    BY <1>1 DEF Start
  <2>3. \A k \in Name, t \in Slots :
          jobs'[k][t] = Idle \/ (jobs'[k][t].step = "delGet" /\ k \in Marked)
    BY <2>2 DEF Resumed
  <2>4. \A k \in Marked : doomed[k] # "no"
    BY DEF Marked, Listed, DeleteInv, DoomInv
  <2>5. DoomInv'
    BY <2>1, <2>3, <2>4 DEF DeleteInv, DoomInv
  <2>6. MarkInv'
    BY <1>0, <2>1, <2>3 DEF MarkInv, PastMark, Idle
  <2> QED
    BY <1>0, <1>s, <2>1, <2>5, <2>6 DEF DeleteInv, CreateInv
<1>2. CASE ReconcileStore
  <2>1. UNCHANGED disk
    BY <1>2 DEF ReconcileStore
  <2>2. CASE Exit /\ UNCHANGED doomed
    BY <2>1, <2>2, ExitKeeps
  <2>3. CASE /\ UNCHANGED <<op, jobs>>
             /\ doomed' = [n \in Name |->
                   IF n \in todo /\ file[n] = NoVolume THEN "no" ELSE doomed[n]]
    <3>1. \A n \in todo : ~Deleting(disk[n]) /\ \A s \in Slots : jobs[n][s] = Idle
      BY <1>2 DEF ReconcileStore, ListedInv, NoJob
    <3>2. \A n \in Name : doomed'[n] = doomed[n] \/ n \in todo
      BY <2>3
    <3>3. DoomInv'
      BY <2>1, <2>3, <3>1, <3>2 DEF DeleteInv, DoomInv
    <3> QED
      BY <1>0, <1>s, <2>1, <2>3, <3>3 DEF DeleteInv, CreateInv, MarkInv
  <2> QED
    BY <1>2, <2>2, <2>3 DEF ReconcileStore
<1>3. CASE ResetRefCounts
  <2>1. UNCHANGED <<disk, doomed>>
    BY <1>3 DEF ResetRefCounts
  <2>2. CASE Exit
    BY <2>1, <2>2, ExitKeeps
  <2>3. CASE UNCHANGED <<op, jobs>>
    BY <2>1, <2>3, CalmKeeps DEF Calm
  <2> QED
    BY <1>3, <2>2, <2>3 DEF ResetRefCounts
<1>4. ASSUME NEW n \in Name, RestoreMount(n)
      PROVE  DeleteInv' /\ Safe
  BY <1>4, CalmKeeps DEF RestoreMount, Calm
<1>5. CASE Serve
  BY <1>5, CalmKeeps DEF Serve, Calm
<1> QED
  BY <1>1, <1>2, <1>3, <1>4, <1>5 DEF Startup

LEMMA EnvironmentKeeps ==
    ASSUME BaseInv, DeleteInv, Environment
    PROVE  DeleteInv' /\ Safe
<1>t. disk \in [Name -> MaybeDisk]
  BY DEF BaseInv, TypeOK, MaybeDisk
<1>1. CASE Crash
  BY <1>1, ExitKeeps DEF Crash
<1>2. CASE Reboot
  BY <1>2, ExitKeeps DEF Reboot
<1>3. ASSUME NEW n \in Name, UnmountUnheard(n)
      PROVE  DeleteInv' /\ Safe
  BY <1>3, CalmKeeps DEF UnmountUnheard, Calm
<1>4. ASSUME NEW n \in Name, NEW i \in Instances \cup {nobody},
             disk[n] # NoDisk, SetDisk(n, [disk[n] EXCEPT !.user = i]),
             UNCHANGED <<op, jobs, doomed>>
      PROVE  DeleteInv' /\ Safe
  <2> DEFINE e == [disk[n] EXCEPT !.user = i]
  <2>1. e # NoDisk /\ e.labels = disk[n].labels /\ e.snapped = disk[n].snapped
    BY <1>4, <1>t, ComputeAssumption DEF MaybeDisk, Disk
  <2>2. Calm
    BY <1>4, <1>t, <2>1 DEF SetDisk, Calm
  <2> QED
    BY <2>2, CalmKeeps
<1>5. ASSUME NEW n \in Name, OtherDetach(n)
      PROVE  DeleteInv' /\ Safe
  BY <1>4, <1>5 DEF OtherDetach
<1>6. ASSUME NEW n \in Name, NEW i \in Instances, OtherAttach(n, i)
      PROVE  DeleteInv' /\ Safe
  BY <1>4, <1>6 DEF OtherAttach
<1> QED
  BY <1>1, <1>2, <1>3, <1>5, <1>6 DEF Environment

(***************************************************************************)
(* The theorems.                                                           *)
(***************************************************************************)
LEMMA DeleteNext ==
    ASSUME Careful, BaseInv, ListedInv, DeleteInv, [Next]_vars
    PROVE  DeleteInv' /\ [VanishesDoomed]_vars /\ [VanishesMarked]_vars
<1>1. CASE Call
  BY <1>1, CallKeeps DEF Call, Safe
<1>2. CASE Step
  <2>1. CASE \/ CreateGetDisk \/ CreateAdopt \/ CreateInsert \/ CreateConfirm
             \/ CreateAdd \/ CreateRollback
    BY <2>1, CreateStep DEF Safe
  <2>2. CASE \/ MountAttachGet \/ MountAttach \/ MountPrepare \/ MountMount
             \/ MountIncRef \/ MountUnwind \/ UnmountUmount \/ DetachGet \/ Detach
    BY <2>2, CalmStep, CalmKeeps DEF Safe
  <2> QED
    BY <1>2, <2>1, <2>2 DEF Step
<1>3. CASE Background
  BY <1>3, BackgroundKeeps DEF Background, Safe
<1>4. CASE Startup
  BY <1>4, StartupKeeps DEF Safe
<1>5. CASE Environment
  BY <1>5, EnvironmentKeeps DEF Safe
<1>6. CASE UNCHANGED vars
  BY <1>6, CalmKeeps DEF vars, Calm
<1> QED
  BY <1>1, <1>2, <1>3, <1>4, <1>5, <1>6 DEF Next

\* Whatever crashes, fails or is retried, a disk goes only after a removal, or
\* a failed Create of its own, that nothing has taken back.
THEOREM OnlyDoomedAreDeleted == Careful => (Spec => DeletesOnlyDoomed)
<1> SUFFICES ASSUME Careful PROVE Spec => DeletesOnlyDoomed
  OBVIOUS
<1>1. Init => DeleteInv
  BY DeleteInit
<1>2. BaseInv /\ ListedInv /\ DeleteInv /\ [Next]_vars => DeleteInv' /\ [VanishesDoomed]_vars
  BY DeleteNext
<1> QED
  BY <1>1, <1>2, BaseAlways, ListedAlways, PTL DEF Spec, DeletesOnlyDoomed

\* Every disk that goes bears the mark, by which a restart would have known that
\* its deletion was under way.
THEOREM DeletedAreMarked == Careful => (Spec => MarkedBeforeDeleted)
<1> SUFFICES ASSUME Careful PROVE Spec => MarkedBeforeDeleted
  OBVIOUS
<1>1. Init => DeleteInv
  BY DeleteInit
<1>2. BaseInv /\ ListedInv /\ DeleteInv /\ [Next]_vars => DeleteInv' /\ [VanishesMarked]_vars
  BY DeleteNext
<1> QED
  BY <1>1, <1>2, BaseAlways, ListedAlways, PTL DEF Spec, MarkedBeforeDeleted

(***************************************************************************)
(* The driver implements VolumeLife.                                       *)
(***************************************************************************)
\* A disk keeps its owner and its mark, a new one is nobody's removal, and no
\* step both dooms a disk and changes it.
Steady ==
    \A n \in Name :
        /\ disk[n] # NoDisk /\ disk'[n] # NoDisk =>
              /\ Managed(disk'[n]) <=> Managed(disk[n])
              /\ Deleting(disk[n]) => Deleting(disk'[n])
        /\ disk[n] = NoDisk /\ disk'[n] # NoDisk => doomed'[n] = "no"
        /\ doomed'[n] = doomed[n] \/ doomed'[n] = "no" \/ disk'[n] = disk[n]

\* The inductive invariant and what it says of a step leave only the moves of
\* VolumeLife.
LEMMA SteadyMoves ==
    ASSUME DeleteInv, DeleteInv', Safe, Steady
    PROVE  Life!Next
<1>1. [n \in Name |-> LifeOf(n)]' \in [Name -> Life!Lives]
  <2>1. ASSUME NEW n \in Name
        PROVE  LifeOf(n)' \in Life!Lives
    <3>1. disk'[n] # NoDisk /\ Managed(disk'[n]) /\ Deleting(disk'[n]) => doomed'[n] # "no"
      BY DEF DeleteInv, DoomInv
    <3> QED
      BY <3>1 DEF LifeOf, Life!Lives
  <2> QED
    BY <2>1
<1>2. ASSUME NEW n \in Name
      PROVE  LifeOf(n)' = LifeOf(n) \/ <<LifeOf(n), LifeOf(n)'>> \in Life!Moves
  <2>d. /\ disk[n] # NoDisk /\ Managed(disk[n]) /\ Deleting(disk[n]) => doomed[n] # "no"
        /\ disk'[n] # NoDisk /\ Managed(disk'[n]) /\ Deleting(disk'[n]) => doomed'[n] # "no"
    BY DEF DeleteInv, DoomInv
  <2>v. disk[n] # NoDisk /\ disk'[n] = NoDisk => doomed[n] # "no" /\ Deleting(disk[n])
    BY DEF Safe, VanishesDoomed, VanishesMarked, Vanishes
  <2>1. CASE disk[n] = NoDisk
    BY <2>1, <2>d DEF Steady, LifeOf, Life!Moves
  <2>2. CASE disk[n] # NoDisk /\ disk'[n] = NoDisk
    BY <2>2, <2>v DEF LifeOf, Life!Moves
  <2>3. CASE disk[n] # NoDisk /\ disk'[n] # NoDisk
    <3>1. /\ Managed(disk'[n]) <=> Managed(disk[n])
          /\ Deleting(disk[n]) => Deleting(disk'[n])
          /\ doomed'[n] = doomed[n] \/ doomed'[n] = "no" \/ disk'[n] = disk[n]
      BY <2>3 DEF Steady
    <3> QED
      BY <2>3, <2>d, <3>1 DEF LifeOf, Life!Moves
  <2> QED
    BY <2>1, <2>2, <2>3
<1> QED
  BY <1>1, <1>2 DEF Life!Next

LEMMA SameDiskSteady ==
    ASSUME UNCHANGED disk
    PROVE  Steady
BY DEF Steady

LEMMA CalmSteady ==
    ASSUME Calm
    PROVE  Steady
BY DEF Calm, Steady, Managed, Deleting

\* The steps of a deletion.
LEMMA DeletionSteady ==
    ASSUME disk \in [Name -> MaybeDisk], NEW n \in Name, NEW step \in DeleteSteps,
           NEW snap \in BOOLEAN, NEW r \in DeleteDisk(disk[n], step, snap),
           disk' = [disk EXCEPT ![n] = r.disk], UNCHANGED doomed
    PROVE  Steady
<1>1. /\ disk[n] = NoDisk => r.disk = NoDisk
      /\ r.disk # NoDisk => /\ Managed(r.disk) <=> Managed(disk[n])
                            /\ Deleting(disk[n]) => Deleting(r.disk)
  BY DeleteDiskIs
<1> QED
  BY <1>1 DEF Steady

LEMMA CreateSteady ==
    ASSUME BaseInv,
           \/ CreateGetDisk \/ CreateAdopt \/ CreateInsert \/ CreateConfirm
           \/ CreateAdd \/ CreateRollback
    PROVE  Steady
<1>0. op # NoOp /\ op.name \in Name /\ op.opts \in DiskOptions
  BY OpIs DEF At, CreateGetDisk, CreateAdopt, CreateInsert, CreateConfirm,
     CreateAdd, CreateRollback
<1>t. disk \in [Name -> MaybeDisk] /\ doomed \in [Name -> Dooms]
  BY DEF BaseInv, TypeOK, MaybeDisk
<1>1. CASE CreateGetDisk \/ CreateAdopt \/ CreateConfirm \/ CreateAdd
  BY <1>1, SameDiskSteady DEF CreateGetDisk, CreateAdopt, CreateConfirm, CreateAdd
<1>2. CASE CreateInsert
  <2>1. PICK r \in InsertCall(disk[op.name], op.opts) :
          /\ SetDisk(op.name, r.disk)
          /\ Doom(op.name, IF disk[op.name] = NoDisk /\ r.disk # NoDisk
                           THEN "no" ELSE doomed[op.name])
    BY <1>2 DEF CreateInsert
  <2>2. disk[op.name] # NoDisk => r.disk = disk[op.name]
    BY DEF InsertCall, Failed
  <2> QED
    BY <1>0, <1>t, <2>1, <2>2 DEF Steady, SetDisk, Doom
<1>3. CASE CreateRollback
  <2>1. PICK r \in DeleteDisk(disk[op.name], op.step, FALSE) : SetDisk(op.name, r.disk)
    BY <1>3 DEF CreateRollback
  <2>2. op.step \in DeleteSteps /\ UNCHANGED doomed
    BY <1>3 DEF CreateRollback
  <2> QED
    BY <1>0, <1>t, <2>1, <2>2, DeletionSteady DEF SetDisk
<1> QED
  BY <1>1, <1>2, <1>3

LEMMA BackgroundSteady ==
    ASSUME BaseInv, NEW n \in Name, NEW s \in Slots, DeleteInBackground(n, s)
    PROVE  Steady
<1>t. disk \in [Name -> MaybeDisk]
  BY DEF BaseInv, TypeOK, MaybeDisk
<1>1. PICK r \in DeleteDisk(disk[n], jobs[n][s].step, jobs[n][s].snapshot) :
        BackgroundEffect(n, s, r)
  BY BackgroundIs DEF BaseInv
<1> QED
  BY <1>t, <1>1, DeletionSteady DEF BackgroundEffect, DeleteInBackground

LEMMA EnvironmentSteady ==
    ASSUME BaseInv, Environment
    PROVE  Steady
<1>t. disk \in [Name -> MaybeDisk]
  BY DEF BaseInv, TypeOK, MaybeDisk
<1>1. CASE Crash
  BY <1>1, SameDiskSteady DEF Crash
<1>2. CASE Reboot
  BY <1>2, SameDiskSteady DEF Reboot
<1>3. ASSUME NEW n \in Name, UnmountUnheard(n)
      PROVE  Steady
  BY <1>3, SameDiskSteady DEF UnmountUnheard
<1>4. ASSUME NEW n \in Name, NEW i \in Instances \cup {nobody},
             disk[n] # NoDisk, SetDisk(n, [disk[n] EXCEPT !.user = i]),
             UNCHANGED doomed
      PROVE  Steady
  <2>1. [disk[n] EXCEPT !.user = i].labels = disk[n].labels
    BY <1>4, <1>t DEF MaybeDisk, Disk
  <2> QED
    BY <1>4, <1>t, <2>1 DEF SetDisk, Steady, Managed, Deleting
<1>5. ASSUME NEW n \in Name, OtherDetach(n)
      PROVE  Steady
  BY <1>4, <1>5 DEF OtherDetach
<1>6. ASSUME NEW n \in Name, NEW i \in Instances, OtherAttach(n, i)
      PROVE  Steady
  BY <1>4, <1>6 DEF OtherAttach
<1> QED
  BY <1>1, <1>2, <1>3, <1>5, <1>6 DEF Environment

LEMMA NextSteady ==
    ASSUME BaseInv, Next
    PROVE  Steady
<1>1. CASE Call
  BY <1>1, SameDiskSteady DEF Call, Create, RemoveRetain, RemoveDelete, MountAgain,
     MountFirst, UnmountNothing, UnmountDecRef
<1>2. CASE Step
  BY <1>2, CreateSteady, CalmStep, CalmSteady DEF Step
<1>3. CASE Background
  BY <1>3, BackgroundSteady DEF Background
<1>4. CASE Startup
  BY <1>4, SameDiskSteady DEF Startup, Start, ReconcileStore, ResetRefCounts,
     RestoreMount, Serve
<1>5. CASE Environment
  BY <1>5, EnvironmentSteady
<1> QED
  BY <1>1, <1>2, <1>3, <1>4, <1>5 DEF Next

\* Every volume lives the life of VolumeLife: whatever crashes, fails or is
\* retried, it is never marked before its removal, never deleted before its mark,
\* and never available again once its disk is marked.
THEOREM ImplementsVolumeLife == Careful => (Spec => FollowsVolumeLife)
<1> SUFFICES ASSUME Careful PROVE Spec => Life!Spec
  BY DEF FollowsVolumeLife
<1>1. Init => Life!Init
  <2>1. Init => \A n \in Name : disk[n] # NoDisk => ~Managed(disk[n])
    BY DriverAssumption DEF Init
  <2> QED
    BY <2>1 DEF LifeOf, Life!Init
<1>2. Init => DeleteInv
  BY DeleteInit
<1>3. BaseInv /\ ListedInv /\ DeleteInv /\ [Next]_vars => DeleteInv'
  BY DeleteNext
<1>4. BaseInv /\ ListedInv /\ DeleteInv /\ [Next]_vars => [Life!Next]_([n \in Name |-> LifeOf(n)])
  <2> SUFFICES ASSUME BaseInv, ListedInv, DeleteInv, [Next]_vars
               PROVE  [Life!Next]_([n \in Name |-> LifeOf(n)])
    OBVIOUS
  <2>1. CASE Next
    <3>1. DeleteInv'
      BY <2>1, DeleteNext
    <3>2. Safe \/ UNCHANGED vars
      BY <2>1, DeleteNext DEF Safe
    <3>3. UNCHANGED vars => Safe
      BY DEF vars, Safe, VanishesDoomed, VanishesMarked, Vanishes
    <3> QED
      BY <2>1, <3>1, <3>2, <3>3, NextSteady, SteadyMoves
  <2>2. CASE UNCHANGED vars
    BY <2>2 DEF vars, LifeOf
  <2> QED
    BY <2>1, <2>2
<1> QED
  BY <1>1, <1>2, <1>3, <1>4, BaseAlways, ListedAlways, PTL DEF Spec, Life!Spec

(***************************************************************************)
(* The volumes the plugin lists.                                           *)
(***************************************************************************)
\* A Create waits for the mark at least, and when a lost reply may send the
\* Delete call twice, for the end of the deletion; no write of the state file
\* fails; nobody asks for the mark as a label of his own.
Orderly ==
    /\ "persist" \notin Faults
    /\ \/ CreateAfter = "deletion"
       \/ CreateAfter = "mark" /\ "lost" \notin ApiFaults
    /\ \A o \in Requests : o.labels[DeletingLabelKey] # "true"

OneCallEach == "lost" \notin ApiFaults

Live(n) == disk[n] # NoDisk /\ Managed(disk[n]) /\ ~Deleting(disk[n])

\* What is listed is there, and is not being deleted.
BackedInv == \A n \in Name : Tracked(n) => NoJob(n) /\ Live(n)

\* One deletion of a name at a time, which ends with the disk.
OneJobInv ==
    OneCallEach =>
        \A n \in Name :
            /\ disk[n] = NoDisk => NoJob(n)
            /\ \A s, t \in Slots : jobs[n][s] # Idle /\ jobs[n][t] # Idle => s = t

\* A Create that overtakes a deletion finds the mark, and goes no further than
\* its first call; what it is about to record is there.
ClearedInv ==
    op # NoOp =>
        /\ op.step \notin DeleteSteps
        /\ op.step \in CreateSteps => op.opts \in Requests
        /\ op.step \in CreateSteps \ {"getDisk"} => NoJob(op.name)
        /\ op.step = "getDisk" /\ ~NoJob(op.name) =>
              OneCallEach /\ disk[op.name] # NoDisk /\ Deleting(disk[op.name])
        /\ op.step \in {"adopt", "confirm", "add"} => Live(op.name)

TrackInv == BackedInv /\ OneJobInv /\ ClearedInv

LEMMA TrackInit == Init => TrackInv
<1> SUFFICES ASSUME Init PROVE TrackInv
  OBVIOUS
<1>1. \A n \in Name : ~Tracked(n) /\ NoJob(n)
  BY DEF Init, EmptyStore, Tracked, NoJobs, NoJob
<1>2. \A n \in Name, s \in Slots : jobs[n][s] = Idle
  BY <1>1 DEF NoJob
<1> QED
  BY <1>1, <1>2 DEF Init, TrackInv, BackedInv, OneJobInv, ClearedInv

\* Steps that begin neither a Create nor a deletion, and list nothing.
LEMMA CalmTracks ==
    ASSUME BaseInv, TrackInv, Calm,
           \A k \in Name : mem'[k] # NoVolume => mem[k] # NoVolume
    PROVE  TrackInv'
<1>1. \A k \in Name :
        /\ disk'[k] = NoDisk <=> disk[k] = NoDisk
        /\ disk[k] # NoDisk => (Deleting(disk'[k]) <=> Deleting(disk[k]))
        /\ Live(k)' <=> Live(k)
        /\ NoJob(k)' <=> NoJob(k)
  BY DEF Calm, Deleting, Managed, Live, NoJob
<1>2. op # NoOp => op.name \in Name
  BY OpIs
<1>3. BackedInv'
  BY <1>1 DEF TrackInv, BackedInv, Tracked
<1>4. OneJobInv'
  BY <1>1 DEF TrackInv, OneJobInv, Calm, OneCallEach
<1>5. ClearedInv'
  <2>1. CASE op' = op
    BY <1>1, <1>2, <2>1 DEF TrackInv, ClearedInv, OneCallEach
  <2>2. CASE op' = NoOp
    BY <2>2 DEF ClearedInv
  <2>3. CASE op'.step \in MountSteps \cup UnmountSteps
    BY <2>3 DEF ClearedInv, MountSteps, UnmountSteps, CreateSteps, DeleteSteps
  <2> QED
    BY <2>1, <2>2, <2>3 DEF Calm
<1> QED
  BY <1>3, <1>4, <1>5 DEF TrackInv

\* The end of the process.
LEMMA ExitTracks ==
    ASSUME Exit
    PROVE  TrackInv'
<1>1. \A n \in Name : ~Tracked(n)' /\ NoJob(n)'
  BY DEF Exit, EmptyStore, Tracked, NoJobs, NoJob
<1>2. \A n \in Name, s \in Slots : jobs'[n][s] = Idle
  BY <1>1 DEF NoJob
<1>3. op' = NoOp
  BY DEF Exit
<1> QED
  BY <1>1, <1>2, <1>3 DEF TrackInv, BackedInv, OneJobInv, ClearedInv

\* A step of a Create that got past its first call, or that ends there.
LEMMA CreateTracks ==
    ASSUME BaseInv, TrackInv, NEW n \in Name, UNCHANGED jobs,
           \A k \in Name : k # n => disk'[k] = disk[k] /\ mem'[k] = mem[k],
           disk'[n] = disk[n] \/ (NoJob(n) /\ ~Tracked(n)),
           mem'[n] # NoVolume => mem[n] # NoVolume \/ (NoJob(n) /\ Live(n)'),
           op' # NoOp => /\ op'.name = n /\ NoJob(n)
                         /\ op'.step \in CreateSteps /\ op'.opts \in Requests
                         /\ op'.step \in {"adopt", "confirm", "add"} => Live(n)'
    PROVE  TrackInv'
<1>1. \A k \in Name : NoJob(k)' <=> NoJob(k)
  BY DEF NoJob
<1>2. BackedInv'
  <2>1. ASSUME NEW k \in Name, Tracked(k)'
        PROVE  NoJob(k)' /\ Live(k)'
    <3>1. CASE k # n
      BY <1>1, <2>1, <3>1 DEF TrackInv, BackedInv, Tracked, Live
    <3>2. CASE k = n /\ mem[n] # NoVolume
      BY <1>1, <2>1, <3>2 DEF TrackInv, BackedInv, Tracked, Live
    <3>3. CASE k = n /\ mem[n] = NoVolume
      BY <1>1, <2>1, <3>3 DEF Tracked
    <3> QED
      BY <3>1, <3>2, <3>3
  <2> QED
    BY <2>1 DEF BackedInv
<1>3. OneJobInv'
  BY <1>1 DEF TrackInv, OneJobInv, OneCallEach
<1>4. ClearedInv'
  BY <1>1 DEF ClearedInv, CreateSteps, DeleteSteps
<1> QED
  BY <1>2, <1>3, <1>4 DEF TrackInv

LEMMA CreateStepTracks ==
    ASSUME Orderly, BaseInv, TrackInv,
           \/ CreateGetDisk \/ CreateAdopt \/ CreateInsert \/ CreateConfirm
           \/ CreateAdd \/ CreateRollback
    PROVE  TrackInv'
<1>0. /\ op # NoOp /\ op \in Op /\ op.opts \in DiskOptions
      /\ op.step \in CreateSteps \cup DeleteSteps
  BY OpIs DEF At, CreateGetDisk, CreateAdopt, CreateInsert, CreateConfirm,
     CreateAdd, CreateRollback, CreateSteps
<1>n. PICK n \in Name : n = op.name
  BY <1>0, OpIs
<1>t. disk \in [Name -> MaybeDisk] /\ mem \in Store
  BY DEF BaseInv, TypeOK, MaybeDisk
<1>g. \A step : LET o == [op EXCEPT !.step = step] IN
        o.step = step /\ o.name = n /\ o.opts = op.opts
  BY <1>0, <1>n DEF Op
<1>r. op.step \in CreateSteps /\ op.opts \in Requests
  BY <1>0 DEF TrackInv, ClearedInv
<1>j. op.step # "getDisk" => NoJob(n)
  BY <1>n, <1>0, <1>r DEF TrackInv, ClearedInv
<1>w. \A m, w : w \in Saved(m) => w.ok
  BY DEF Orderly, Saved
<1>a. /\ \A k \in Name : k # n => Added(mem, n, op.opts)[k] = mem[k]
      /\ \A m, w : Save(m, w) => mem' = m
  BY <1>0, <1>t, StoreKeeps DEF Save
<1>1. CASE CreateGetDisk
  <2>1. PICK r \in GetCall(disk[n]) :
          \/ r.ok /\ r.disk = NoDisk /\ Goto("insert")
          \/ r.ok /\ r.disk # NoDisk /\ Adoptable(r.disk, op.opts) /\ Goto("adopt")
          \/ Return
    BY <1>1, <1>n DEF CreateGetDisk
  <2>2. r.disk = disk[n] /\ op.step = "getDisk"
    BY <1>1, OutcomeIs DEF GetCall, CreateGetDisk, At
  <2>3. UNCHANGED <<disk, mem, jobs>>
    BY <1>1 DEF CreateGetDisk
  <2>4. NoJob(n) \/ (disk[n] # NoDisk /\ Deleting(disk[n]))
    BY <1>0, <1>n, <2>2 DEF TrackInv, ClearedInv
  <2>5. CASE r.disk = NoDisk /\ Goto("insert")
    <3>1. NoJob(n) /\ op'.name = n /\ op'.step = "insert" /\ op'.opts = op.opts
      BY <1>g, <2>2, <2>4, <2>5 DEF Goto
    <3> QED
      BY <1>r, <2>3, <3>1, CreateTracks DEF CreateSteps
  <2>6. CASE r.disk # NoDisk /\ Adoptable(r.disk, op.opts) /\ Goto("adopt")
    <3>1. NoJob(n) /\ op'.name = n /\ op'.step = "adopt" /\ op'.opts = op.opts
      BY <1>g, <2>2, <2>4, <2>6 DEF Goto, Adoptable
    <3>2. Live(n)'
      BY <2>2, <2>3, <2>6 DEF Live, Adoptable
    <3> QED
      BY <1>r, <2>3, <3>1, <3>2, CreateTracks DEF CreateSteps
  <2>7. CASE Return
    BY <2>3, <2>7, CreateTracks DEF Return
  <2> QED
    BY <2>1, <2>5, <2>6, <2>7
<1>2. CASE CreateAdopt
  <2>1. /\ mem' = Added(mem, n, op.opts) /\ op' = NoOp
        /\ UNCHANGED <<disk, jobs>> /\ op.step = "adopt"
    BY <1>2, <1>n, <1>a DEF CreateAdopt, Return, At
  <2>2. NoJob(n) /\ Live(n)'
    BY <1>0, <1>j, <1>n, <2>1 DEF TrackInv, ClearedInv, Live
  <2> QED
    BY <1>a, <2>1, <2>2, CreateTracks
<1>3. CASE CreateInsert
  <2>1. PICK r \in InsertCall(disk[n], op.opts) :
          /\ SetDisk(n, r.disk)
          /\ IF r.ok THEN Goto("confirm") ELSE Return
    BY <1>3, <1>n DEF CreateInsert
  <2>2. /\ r.disk = disk[n] \/ (disk[n] = NoDisk /\ r.disk = NewDisk(op.opts))
        /\ r.ok => r.disk = NewDisk(op.opts)
    BY OutcomeIs DEF InsertCall, Outcomes, Failed
  <2>3. NoJob(n) /\ UNCHANGED <<mem, jobs>>
    BY <1>3, <1>j DEF CreateInsert, At
  <2>4. disk'[n] = r.disk /\ \A k \in Name : k # n => disk'[k] = disk[k]
    BY <1>t, <2>1 DEF SetDisk
  <2>5. r.ok => Live(n)'
    <3>1. /\ NewDisk(op.opts) \in Disk /\ Managed(NewDisk(op.opts))
          /\ ~Deleting(NewDisk(op.opts))
      BY <1>0, <1>r, NewDiskIs DEF Orderly
    <3> QED
      BY <2>2, <2>4, <3>1, ComputeAssumption DEF Live
  <2>6. disk'[n] = disk[n] \/ (NoJob(n) /\ ~Tracked(n))
    BY <2>2, <2>3, <2>4 DEF TrackInv, BackedInv, Live
  <2>7. CASE r.ok
    <3>1. op'.name = n /\ op'.step = "confirm" /\ op'.opts = op.opts
      BY <1>g, <2>1, <2>7 DEF Goto
    <3> QED
      BY <1>r, <2>3, <2>4, <2>5, <2>6, <2>7, <3>1, CreateTracks DEF CreateSteps
  <2>8. CASE ~r.ok
    <3>1. op' = NoOp
      BY <2>1, <2>8 DEF Return
    <3> QED
      BY <2>3, <2>4, <2>6, <3>1, CreateTracks
  <2> QED
    BY <2>7, <2>8
<1>4. CASE CreateConfirm
  <2>1. UNCHANGED <<disk, mem, jobs>> /\ op.step = "confirm"
    BY <1>4 DEF CreateConfirm, At
  <2>2. op' = NoOp \/ (op'.name = n /\ op'.step = "add" /\ op'.opts = op.opts)
    BY <1>4, <1>g DEF CreateConfirm, Goto, Return
  <2>3. NoJob(n) /\ Live(n)'
    BY <1>0, <1>j, <1>n, <2>1 DEF TrackInv, ClearedInv, Live
  <2> QED
    BY <1>r, <2>1, <2>2, <2>3, CreateTracks DEF CreateSteps
<1>5. CASE CreateAdd
  <2>1. PICK w \in Saved(Added(mem, n, op.opts)) :
          Save(Added(mem, n, op.opts), w) /\ (w.ok => Return)
    BY <1>5, <1>n DEF CreateAdd
  <2>2. /\ mem' = Added(mem, n, op.opts) /\ op' = NoOp
        /\ UNCHANGED <<disk, jobs>> /\ op.step = "add"
    BY <1>5, <1>a, <1>w, <2>1 DEF CreateAdd, Return, At
  <2>3. NoJob(n) /\ Live(n)'
    BY <1>0, <1>j, <1>n, <2>2 DEF TrackInv, ClearedInv, Live
  <2> QED
    BY <1>a, <2>2, <2>3, CreateTracks
<1>6. CASE CreateRollback
  BY <1>6, <1>0 DEF CreateRollback, TrackInv, ClearedInv
<1> QED
  BY <1>1, <1>2, <1>3, <1>4, <1>5, <1>6

\* The steps of Mount and Unmount keep the volume they work on.
LEMMA MountStepTracks ==
    ASSUME BaseInv, TrackInv,
           \/ MountAttachGet \/ MountAttach \/ MountPrepare \/ MountMount
           \/ MountIncRef \/ MountUnwind \/ UnmountUmount \/ DetachGet \/ Detach
    PROVE  TrackInv'
<1>1. Calm
  BY CalmStep
<1>2. \A k \in Name : mem'[k] # NoVolume => mem[k] # NoVolume
  <2>1. CASE MountIncRef
    <3>1. op # NoOp /\ op.name \in Name /\ mem' = IncRef(mem, op.name)
      BY <2>1, OpIs DEF MountIncRef, At, Save
    <3>2. mem[op.name] # NoVolume /\ mem \in Store
      BY <2>1 DEF MountIncRef, At, BaseInv, StoreInv, TypeOK, Tracked, MountSteps
    <3> QED
      BY <3>1, <3>2, StoreKeeps
  <2>2. CASE \/ MountAttachGet \/ MountAttach \/ MountPrepare \/ MountMount
             \/ MountUnwind \/ UnmountUmount \/ DetachGet \/ Detach
    BY <2>2 DEF MountAttachGet, MountAttach, MountPrepare, MountMount,
       MountUnwind, UnmountUmount, DetachGet, Detach
  <2> QED
    BY <2>1, <2>2
<1> QED
  BY <1>1, <1>2, CalmTracks

LEMMA CallTracks ==
    ASSUME Orderly, BaseInv, TrackInv, NEW n \in Name,
           \/ \E o \in Requests : Create(n, o)
           \/ RemoveRetain(n) \/ RemoveDelete(n)
           \/ MountAgain(n) \/ MountFirst(n)
           \/ UnmountNothing(n) \/ UnmountDecRef(n)
    PROVE  TrackInv'
<1>t. /\ mem \in Store /\ jobs \in [Name -> [Slots -> Job]]
      /\ \A k \in Name, s \in Slots : jobs[k][s] \in Job
  BY DEF BaseInv, TypeOK
<1>w. \A m, w : /\ w \in Saved(m) => w.ok
                /\ Save(m, w) => mem' = m
  BY DEF Orderly, Saved, Save
<1>d. \A k \in Name : Dropped(mem, n)[k] # NoVolume => mem[k] # NoVolume /\ k # n
  BY <1>t, StoreKeeps
<1>1. ASSUME NEW o \in Requests, Create(n, o)
      PROVE  TrackInv'
  <2>1. op'.name = n /\ op'.step = "getDisk" /\ op'.opts = o
    BY <1>1 DEF Create, Begin
  <2>2. UNCHANGED <<disk, mem, jobs>> /\ CreateMayCome(n)
    BY <1>1 DEF Create
  <2>3. NoJob(n) \/ (OneCallEach /\ (disk[n] # NoDisk => Deleting(disk[n])))
    BY <2>2 DEF CreateMayCome, Orderly, OneCallEach
  <2>4. NoJob(n) \/ (OneCallEach /\ disk[n] # NoDisk /\ Deleting(disk[n]))
    BY <2>3 DEF TrackInv, OneJobInv
  <2>5. ClearedInv'
    BY <2>1, <2>2, <2>4 DEF ClearedInv, CreateSteps, DeleteSteps, NoJob, OneCallEach
  <2>6. BackedInv' /\ OneJobInv'
    BY <2>2 DEF TrackInv, BackedInv, OneJobInv, Tracked, NoJob, Live, OneCallEach
  <2> QED
    BY <2>5, <2>6 DEF TrackInv
<1>2. CASE RemoveRetain(n)
  <2>1. Calm
    BY <1>2 DEF RemoveRetain, Calm
  <2>2. mem' = Dropped(mem, n)
    BY <1>2, <1>w DEF RemoveRetain
  <2> QED
    BY <1>d, <2>1, <2>2, CalmTracks
\* The deletion begins with the name off the list.
<1>3. CASE RemoveDelete(n)
  <2>1. /\ UNCHANGED disk /\ op' = NoOp
        /\ Tracked(n)
    BY <1>3 DEF RemoveDelete, Removable, Free
  <2>2. PICK s \in Slots : /\ jobs' = Spawned(n, s, mem[n].opts.snapshotOnRemove)
                           /\ mem' = Dropped(mem, n)
    BY <1>3, <1>w DEF RemoveDelete
  <2>3. \A k \in Name, t \in Slots : k # n \/ t # s => jobs'[k][t] = jobs[k][t]
    BY <1>t, <2>2 DEF Spawned
  <2>4. NoJob(n) /\ Live(n)
    BY <2>1 DEF TrackInv, BackedInv
  <2>5. BackedInv'
    <3>1. ASSUME NEW k \in Name, Tracked(k)'
          PROVE  NoJob(k)' /\ Live(k)'
      <4>1. k # n /\ Tracked(k)
        BY <1>d, <2>2, <3>1 DEF Tracked
      <4> QED
        BY <2>1, <2>3, <4>1 DEF TrackInv, BackedInv, NoJob, Live
    <3> QED
      BY <3>1 DEF BackedInv
  <2>6. OneJobInv'
    <3>1. ASSUME OneCallEach, NEW k \in Name
          PROVE  /\ disk'[k] = NoDisk => NoJob(k)'
                 /\ \A t, u \in Slots : jobs'[k][t] # Idle /\ jobs'[k][u] # Idle => t = u
      <4>1. CASE k = n
        <5>1. \A t \in Slots : jobs'[n][t] # Idle => t = s
          BY <2>3, <2>4 DEF NoJob
        <5> QED
          BY <2>1, <2>4, <4>1, <5>1 DEF Live
      <4>2. CASE k # n
        BY <2>1, <2>3, <3>1, <4>2 DEF TrackInv, OneJobInv, NoJob
      <4> QED
        BY <4>1, <4>2
    <3> QED
      BY <3>1 DEF OneJobInv, OneCallEach
  <2> QED
    BY <2>1, <2>5, <2>6 DEF TrackInv, ClearedInv
<1>4. CASE MountAgain(n)
  <2>1. Calm /\ mem[n] # NoVolume /\ mem' = IncRef(mem, n)
    BY <1>4, <1>w DEF MountAgain, Calm, Tracked
  <2> QED
    BY <1>t, <2>1, StoreKeeps, CalmTracks
<1>5. CASE MountFirst(n)
  <2>1. Calm /\ UNCHANGED mem
    BY <1>5 DEF MountFirst, Begin, Calm, MountSteps
  <2> QED
    BY <2>1, CalmTracks
<1>6. CASE UnmountNothing(n)
  <2>1. Calm /\ UNCHANGED mem
    BY <1>6 DEF UnmountNothing, Calm
  <2> QED
    BY <2>1, CalmTracks
<1>7. CASE UnmountDecRef(n)
  <2>1. Calm
    BY <1>7 DEF UnmountDecRef, Begin, Calm, UnmountSteps
  <2>2. mem[n] # NoVolume /\ mem' = DecRef(mem, n)
    BY <1>7, <1>w DEF UnmountDecRef, Tracked
  <2> QED
    BY <1>t, <2>1, <2>2, StoreKeeps, CalmTracks
<1> QED
  BY <1>1, <1>2, <1>3, <1>4, <1>5, <1>6, <1>7

\* A Delete call that is made once ends the deletion as the disk goes.
LEMMA DeletionEndsWithDisk ==
    ASSUME OneCallEach, NEW d \in MaybeDisk, d # NoDisk, NEW step \in DeleteSteps,
           NEW snap \in BOOLEAN, NEW r \in DeleteDisk(d, step, snap), r.disk = NoDisk
    PROVE  r.next = "idle"
<1>1. step = "delDelete"
  BY DeleteDiskIs
<1> QED
  BY <1>1 DEF OneCallEach, DeleteDisk, DeleteDelete

\* A deletion works on a name that is not listed, and that no Create works on
\* unless it is about to find the mark.
LEMMA BackgroundTracks ==
    ASSUME BaseInv, TrackInv, NEW n \in Name, NEW s \in Slots, DeleteInBackground(n, s)
    PROVE  TrackInv'
<1>t. disk \in [Name -> MaybeDisk]
  BY DEF BaseInv, TypeOK, MaybeDisk
<1>1. PICK r \in DeleteDisk(disk[n], jobs[n][s].step, jobs[n][s].snapshot) :
        BackgroundEffect(n, s, r)
  BY BackgroundIs DEF BaseInv
<1>2. /\ jobs[n][s] # Idle
      /\ jobs[n][s].step \in DeleteSteps /\ jobs[n][s].snapshot \in BOOLEAN
      /\ r.next = "idle" => jobs'[n][s] = Idle
  BY <1>1 DEF BackgroundEffect
<1>3. /\ \A k \in Name : k # n => disk'[k] = disk[k]
      /\ disk'[n] = r.disk
      /\ UNCHANGED <<op, mem>>
      /\ \A k \in Name, t \in Slots : k # n \/ t # s => jobs'[k][t] = jobs[k][t]
  BY <1>t, <1>1 DEF BackgroundEffect, DeleteInBackground
<1>4. ~NoJob(n) /\ ~Tracked(n)
  BY <1>2 DEF NoJob, TrackInv, BackedInv
<1>5. BackedInv'
  BY <1>3, <1>4 DEF TrackInv, BackedInv, Tracked, NoJob, Live
<1>6. ASSUME OneCallEach
      PROVE  /\ disk[n] # NoDisk
             /\ disk'[n] = NoDisk => jobs'[n][s] = Idle
             /\ \A t \in Slots : t # s => jobs[n][t] = Idle
  <2>1. disk[n] # NoDisk /\ \A t \in Slots : t # s => jobs[n][t] = Idle
    BY <1>2, <1>4, <1>6 DEF TrackInv, OneJobInv
  <2> QED
    BY <1>t, <1>1, <1>2, <1>3, <1>6, <2>1, DeletionEndsWithDisk
<1>7. OneJobInv'
  <2>1. ASSUME OneCallEach, NEW k \in Name
        PROVE  /\ disk'[k] = NoDisk => NoJob(k)'
               /\ \A t, u \in Slots : jobs'[k][t] # Idle /\ jobs'[k][u] # Idle => t = u
    <3>1. CASE k = n
      BY <1>3, <1>6, <2>1, <3>1 DEF NoJob
    <3>2. CASE k # n
      BY <1>3, <2>1, <3>2 DEF TrackInv, OneJobInv, NoJob
    <3> QED
      BY <3>1, <3>2
  <2> QED
    BY <2>1 DEF OneJobInv, OneCallEach
<1>8. ClearedInv'
  <2>1. CASE op # NoOp /\ op.step = "getDisk" /\ op.name = n
    <3>1. OneCallEach /\ disk[n] # NoDisk /\ Deleting(disk[n])
      BY <1>4, <2>1 DEF TrackInv, ClearedInv
    <3>2. disk'[n] = NoDisk => NoJob(n)'
      BY <1>3, <1>6, <3>1 DEF NoJob
    <3>3. disk'[n] # NoDisk => Deleting(disk'[n])
      BY <1>t, <1>1, <1>2, <1>3, <3>1, DeleteDiskIs
    <3> QED
      BY <1>3, <2>1, <3>1, <3>2, <3>3
         DEF TrackInv, ClearedInv, CreateSteps, DeleteSteps, OneCallEach
  <2>2. CASE op # NoOp /\ op.step = "getDisk" /\ op.name # n
    <3>1. op.name \in Name
      BY <2>2, OpIs
    <3>2. NoJob(op.name)' <=> NoJob(op.name)
      BY <1>3, <2>2, <3>1 DEF NoJob
    <3> QED
      BY <1>3, <2>2, <3>1, <3>2
         DEF TrackInv, ClearedInv, CreateSteps, DeleteSteps, OneCallEach
  <2>3. CASE op # NoOp /\ op.step \in CreateSteps \ {"getDisk"}
    <3>1. op.name \in Name /\ op.name # n
      BY <1>4, <2>3, OpIs DEF TrackInv, ClearedInv
    <3>2. NoJob(op.name)' /\ (Live(op.name)' <=> Live(op.name))
      BY <1>3, <2>3, <3>1 DEF NoJob, Live, TrackInv, ClearedInv
    <3> QED
      BY <1>3, <2>3, <3>1, <3>2 DEF TrackInv, ClearedInv
  <2>4. CASE op = NoOp \/ op.step \notin CreateSteps
    BY <1>3, <2>4 DEF TrackInv, ClearedInv, CreateSteps
  <2> QED
    BY <2>1, <2>2, <2>3, <2>4
<1> QED
  BY <1>5, <1>7, <1>8 DEF TrackInv

\* Startup lists the unmarked disks, and resumes one deletion of each other.
LEMMA StartupTracks ==
    ASSUME Orderly, BaseInv, TrackInv, Startup
    PROVE  TrackInv'
<1>0. op = NoOp
  BY DEF BaseInv, PhaseInv, Startup, Start, ReconcileStore, ResetRefCounts,
     RestoreMount, Serve
<1>t. mem \in Store /\ file \in Store
  BY DEF BaseInv, TypeOK
<1>w. \A m, w : /\ w \in Saved(m) => w.ok
                /\ Save(m, w) => mem' = m
  BY DEF Orderly, Saved, Save
<1>1. CASE Start
  <2>1. UNCHANGED <<disk, op>> /\ mem' = Reconciled(file, Listed \ Marked, disk)
    BY <1>1 DEF Start
  <2>2. PICK s \in Slots : jobs' = Resumed(s)
    BY <1>1 DEF Start
  <2>3. \A k \in Name, t \in Slots : jobs'[k][t] # Idle => t = s /\ k \in Marked
    BY <2>2 DEF Resumed
  <2>4. \A k \in Name : Tracked(k)' => k \in Listed \ Marked
    BY <2>1 DEF Tracked, Reconciled
  <2>5. BackedInv'
    BY <2>1, <2>3, <2>4 DEF BackedInv, NoJob, Live, Listed, Marked
  <2>6. OneJobInv'
    BY <2>1, <2>3 DEF OneJobInv, NoJob, Listed, Marked
  <2> QED
    BY <1>0, <2>1, <2>5, <2>6 DEF TrackInv, ClearedInv
<1>2. CASE ReconcileStore
  <2>1. mem' = mem /\ UNCHANGED <<disk, op, jobs>>
    BY <1>2, <1>w DEF ReconcileStore
  <2> QED
    BY <1>0, <2>1 DEF TrackInv, BackedInv, OneJobInv, ClearedInv, Tracked, NoJob, Live, OneCallEach
<1>3. CASE ResetRefCounts
  <2>1. Calm /\ mem' = AllReset(mem)
    BY <1>3, <1>w DEF ResetRefCounts, Calm
  <2> QED
    BY <1>t, <2>1, StoreKeeps, CalmTracks
<1>4. ASSUME NEW n \in Name, RestoreMount(n)
      PROVE  TrackInv'
  <2>1. Calm
    BY <1>4 DEF RestoreMount, Calm
  <2>2. mem[n] # NoVolume
    BY <1>4 DEF RestoreMount, BaseInv, StoreInv, Tracked
  <2>3. mem' \in {mem, SetMounted(mem, n)}
    BY <1>4, <1>w DEF RestoreMount
  <2>4. \A k \in Name : mem'[k] # NoVolume => mem[k] # NoVolume
    BY <1>t, <2>2, <2>3, StoreKeeps
  <2> QED
    BY <2>1, <2>4, CalmTracks
<1>5. CASE Serve
  BY <1>5, CalmTracks DEF Serve, Calm
<1> QED
  BY <1>1, <1>2, <1>3, <1>4, <1>5 DEF Startup

LEMMA EnvironmentTracks ==
    ASSUME BaseInv, TrackInv, Environment
    PROVE  TrackInv'
<1>t. disk \in [Name -> MaybeDisk]
  BY DEF BaseInv, TypeOK, MaybeDisk
<1>1. CASE Crash
  BY <1>1, ExitTracks DEF Crash
<1>2. CASE Reboot
  BY <1>2, ExitTracks DEF Reboot
<1>3. ASSUME NEW n \in Name, UnmountUnheard(n)
      PROVE  TrackInv'
  BY <1>3, CalmTracks DEF UnmountUnheard, Calm
<1>4. ASSUME NEW n \in Name, NEW i \in Instances \cup {nobody},
             disk[n] # NoDisk, SetDisk(n, [disk[n] EXCEPT !.user = i]),
             UNCHANGED <<op, jobs, doomed, mem>>
      PROVE  TrackInv'
  <2> DEFINE e == [disk[n] EXCEPT !.user = i]
  <2>1. e # NoDisk /\ e.labels = disk[n].labels /\ e.snapped = disk[n].snapped
    BY <1>4, <1>t, ComputeAssumption DEF MaybeDisk, Disk
  <2>2. Calm
    BY <1>4, <1>t, <2>1 DEF SetDisk, Calm
  <2> QED
    BY <1>4, <2>2, CalmTracks
<1>5. ASSUME NEW n \in Name, OtherDetach(n)
      PROVE  TrackInv'
  BY <1>4, <1>5 DEF OtherDetach
<1>6. ASSUME NEW n \in Name, NEW i \in Instances, OtherAttach(n, i)
      PROVE  TrackInv'
  BY <1>4, <1>6 DEF OtherAttach
<1> QED
  BY <1>1, <1>2, <1>3, <1>5, <1>6 DEF Environment

LEMMA TrackNext ==
    ASSUME Orderly, BaseInv, TrackInv, [Next]_vars
    PROVE  TrackInv'
<1>1. CASE Call
  BY <1>1, CallTracks DEF Call
<1>2. CASE Step
  BY <1>2, CreateStepTracks, MountStepTracks DEF Step
<1>3. CASE Background
  BY <1>3, BackgroundTracks DEF Background
<1>4. CASE Startup
  BY <1>4, StartupTracks
<1>5. CASE Environment
  BY <1>5, EnvironmentTracks
<1>6. CASE UNCHANGED vars
  BY <1>6, CalmTracks DEF vars, Calm
<1> QED
  BY <1>1, <1>2, <1>3, <1>4, <1>5, <1>6 DEF Next

LEMMA TrackAlways == Orderly => (Spec => []TrackInv)
<1> SUFFICES ASSUME Orderly PROVE Spec => []TrackInv
  OBVIOUS
<1>1. Init => TrackInv
  BY TrackInit
<1>2. BaseInv /\ TrackInv /\ [Next]_vars => TrackInv'
  BY TrackNext
<1> QED
  BY <1>1, <1>2, BaseAlways, PTL DEF Spec

\* The mark keeps a Create away from the disk that is being deleted, and the
\* restart from listing it: no background deletion runs for a listed volume
\* (deleteInBackground).
THEOREM NoDeletionOfTracked == Orderly => (Spec => []NoJobOnTracked)
<1>1. TrackInv => NoJobOnTracked
  BY DEF TrackInv, BackedInv, NoJobOnTracked
<1> QED
  BY <1>1, TrackAlways, PTL

\* Whatever calls fail, and whenever the plugin dies, a listed volume has a disk
\* of the plugin's behind it that is not marked (Reconcile).
THEOREM NoPhantomVolume == Orderly => (Spec => []TrackedHasDisk)
<1>1. TrackInv => TrackedHasDisk
  BY DEF TrackInv, BackedInv, TrackedHasDisk, Live
<1> QED
  BY <1>1, TrackAlways, PTL

(***************************************************************************)
(* The snapshot that `docker volume rm` was to leave.                      *)
(***************************************************************************)
\* The plugin lives on: a restart resumes the deletions without the snapshot
\* they had been asked for (the run MCSnapshotLost).
LivesOn == Faults \cap {"crash", "reboot"} = {}

\* No deletion of a volume with snapshotOnRemove reaches the Delete call without
\* the snapshot of the disk that the call would find.
TakenFirst(n) ==
    doomed[n] = "snapshot" =>
        \A s \in Slots :
            jobs[n][s] # Idle =>
                IF jobs[n][s].step = "delDelete"
                THEN disk[n] # NoDisk => disk[n].snapped
                ELSE jobs[n][s].snapshot

\* Before the plugin serves, nothing was removed.
SnapshotInv ==
    /\ phase # "serving" => \A n \in Name : doomed[n] = "no"
    /\ \A n \in Name : TakenFirst(n)

Taken == \A n \in Name : Vanishes(n) /\ doomed[n] = "snapshot" => disk[n].snapped

LEMMA SnapshotInit == Init => SnapshotInv
  BY DEF Init, SnapshotInv, TakenFirst

LEMMA CalmSnaps ==
    ASSUME SnapshotInv, Calm, UNCHANGED phase
    PROVE  SnapshotInv' /\ Taken
  BY DEF Calm, SnapshotInv, TakenFirst, Taken, Vanishes

\* A step that leaves the deletions and all disks but one alone, whose name it
\* does not doom to a deletion with a snapshot, nor does it delete the disk.
LEMMA OneDiskSnaps ==
    ASSUME SnapshotInv, phase = "serving", UNCHANGED <<phase, jobs>>, NEW n \in Name,
           \A k \in Name : k # n => disk'[k] = disk[k] /\ doomed'[k] = doomed[k],
           disk'[n] = disk[n] \/ (disk[n] = NoDisk /\ doomed'[n] = "no"),
           doomed'[n] \in {doomed[n], "no", "plain"}
    PROVE  SnapshotInv' /\ Taken
  BY DEF SnapshotInv, TakenFirst, Taken, Vanishes

LEMMA CreateStepSnaps ==
    ASSUME BaseInv, TrackInv, SnapshotInv,
           \/ CreateGetDisk \/ CreateAdopt \/ CreateInsert \/ CreateConfirm
           \/ CreateAdd \/ CreateRollback
    PROVE  SnapshotInv' /\ Taken
<1>0. op # NoOp /\ op.name \in Name /\ UNCHANGED <<phase, jobs>>
  BY OpIs DEF At, CreateGetDisk, CreateAdopt, CreateInsert, CreateConfirm,
     CreateAdd, CreateRollback
<1>p. phase = "serving"
  BY <1>0 DEF BaseInv, PhaseInv
<1>t. disk \in [Name -> MaybeDisk] /\ doomed \in [Name -> Dooms]
  BY DEF BaseInv, TypeOK, MaybeDisk
<1>1. CASE CreateGetDisk \/ CreateConfirm
  BY <1>0, <1>1, <1>p, OneDiskSnaps DEF CreateGetDisk, CreateConfirm
<1>2. CASE CreateAdopt
  BY <1>0, <1>2, <1>p, <1>t, OneDiskSnaps DEF CreateAdopt, Doom
<1>3. CASE CreateInsert
  <2>1. PICK r \in InsertCall(disk[op.name], op.opts) :
          /\ SetDisk(op.name, r.disk)
          /\ Doom(op.name, IF disk[op.name] = NoDisk /\ r.disk # NoDisk
                           THEN "no" ELSE doomed[op.name])
    BY <1>3 DEF CreateInsert
  <2>2. r.disk = disk[op.name] \/ disk[op.name] = NoDisk
    BY DEF InsertCall, Failed
  <2>3. /\ disk'[op.name] = r.disk
        /\ \A k \in Name : k # op.name => disk'[k] = disk[k] /\ doomed'[k] = doomed[k]
        /\ doomed'[op.name] = IF disk[op.name] = NoDisk /\ r.disk # NoDisk
                              THEN "no" ELSE doomed[op.name]
    BY <1>0, <1>t, <2>1 DEF SetDisk, Doom
  <2> QED
    BY <1>0, <1>p, <2>2, <2>3, OneDiskSnaps
<1>4. CASE CreateAdd
  BY <1>0, <1>4, <1>p, <1>t, OneDiskSnaps DEF CreateAdd, Doom
<1>5. CASE CreateRollback
  BY <1>5, <1>0 DEF CreateRollback, TrackInv, ClearedInv
<1> QED
  BY <1>1, <1>2, <1>3, <1>4, <1>5

\* A removal finds no other deletion of its name under way.
LEMMA CallSnaps ==
    ASSUME Orderly, BaseInv, TrackInv, SnapshotInv, NEW n \in Name,
           \/ \E o \in Requests : Create(n, o)
           \/ RemoveRetain(n) \/ RemoveDelete(n)
           \/ MountAgain(n) \/ MountFirst(n)
           \/ UnmountNothing(n) \/ UnmountDecRef(n)
    PROVE  SnapshotInv' /\ Taken
<1>t. doomed \in [Name -> Dooms] /\ jobs \in [Name -> [Slots -> Job]]
  BY DEF BaseInv, TypeOK
<1>0. phase = "serving" /\ UNCHANGED <<disk, phase>>
  BY DEF Create, RemoveRetain, RemoveDelete, Removable, MountAgain, MountFirst,
     UnmountNothing, UnmountDecRef, Free
<1>1. CASE ~RemoveDelete(n)
  <2>1. UNCHANGED <<disk, jobs, doomed>>
    BY <1>1 DEF Create, RemoveRetain, MountAgain, MountFirst, UnmountNothing,
       UnmountDecRef
  <2> QED
    BY <1>0, <2>1, OneDiskSnaps
<1>2. CASE RemoveDelete(n)
  <2> DEFINE flag == mem[n].opts.snapshotOnRemove
  <2>1. PICK s \in Slots : /\ jobs' = Spawned(n, s, flag)
                           /\ Doom(n, IF flag THEN "snapshot" ELSE "plain")
    BY <1>2 DEF RemoveDelete, Orderly, Saved
  <2>2. NoJob(n)
    BY <1>2 DEF RemoveDelete, Removable, TrackInv, BackedInv
  <2>3. /\ jobs'[n][s].step = "delGet" /\ jobs'[n][s].snapshot = flag
        /\ \A k \in Name, t \in Slots : k # n \/ t # s => jobs'[k][t] = jobs[k][t]
    BY <1>t, <2>1 DEF Spawned
  <2>4. /\ doomed'[n] = IF flag THEN "snapshot" ELSE "plain"
        /\ \A k \in Name : k # n => doomed'[k] = doomed[k]
    BY <1>t, <2>1 DEF Doom
  <2>5. \A t \in Slots : jobs'[n][t] # Idle => t = s
    BY <2>2, <2>3 DEF NoJob
  <2>6. TakenFirst(n)'
    <3> HIDE DEF flag
    <3> QED
      BY <2>3, <2>4, <2>5 DEF TakenFirst
  <2>7. \A k \in Name : k # n => TakenFirst(k)'
    BY <1>0, <2>3, <2>4 DEF SnapshotInv, TakenFirst
  <2> QED
    BY <1>0, <2>6, <2>7 DEF SnapshotInv, Taken, Vanishes
<1> QED
  BY <1>1, <1>2

\* A deletion that was asked for a snapshot calls Delete after it took one, and
\* no step of a deletion makes a disk without a snapshot of one that has it.
LEMMA DeletionTakes ==
    ASSUME NEW d \in MaybeDisk, NEW step \in DeleteSteps, NEW snap \in BOOLEAN,
           NEW r \in DeleteDisk(d, step, snap), d # NoDisk, r.disk # NoDisk
    PROVE  /\ d.snapped => r.disk.snapped
           /\ r.next = "delDelete" => r.disk.snapped \/ (step # "delDelete" /\ ~snap)
<1>d. d \in Disk
  BY DEF MaybeDisk
<1>1. CASE step = "delGet"
  <2>1. r.disk = d /\ (r.next = "delDelete" => ~snap)
    BY <1>1 DEF DeleteDisk, DeleteGet, AfterMark
  <2> QED
    BY <1>1, <2>1
<1>2. CASE step = "delMark"
  <2>1. PICK q \in MarkCall(d) :
          /\ r.disk = q.disk
          /\ r.next = IF q.ok THEN AfterMark(snap) ELSE "idle"
    BY <1>2 DEF DeleteDisk, DeleteMark
  <2>2. q.disk \in {d, Mark(d)}
    BY DEF MarkCall, Failed, Outcomes
  <2>3. Mark(d).snapped = d.snapped
    BY <1>d DEF Mark, Disk
  <2>4. r.next = "delDelete" => ~snap
    BY <2>1 DEF AfterMark
  <2> QED
    BY <1>2, <2>1, <2>2, <2>3, <2>4
<1>3. CASE step = "delSnapshot"
  <2> DEFINE e == [d EXCEPT !.snapped = TRUE]
  <2>1. PICK q \in SnapshotCall(d) :
          r.disk = q.disk /\ r.next = IF q.ok THEN "delDelete" ELSE "idle"
    BY <1>3 DEF DeleteDisk, DeleteSnapshot
  <2>2. q.disk \in {d, e} /\ (q.ok => q.disk = e)
    <3>1. q \in Outcomes(d, e)
      BY DEF SnapshotCall
    <3> HIDE DEF e
    <3> QED
      BY <3>1 DEF Outcomes, Failed
  <2>3. e.snapped
    BY <1>d DEF Disk
  <2> HIDE DEF e
  <2> QED
    BY <2>1, <2>2, <2>3
<1>4. CASE step = "delDelete"
  <2>1. r.disk = d /\ r.next = "idle"
    <3>1. CASE Attached(d)
      BY <1>4, <3>1 DEF DeleteDisk, DeleteDelete
    <3>2. CASE ~Attached(d)
      BY <1>4, <3>2, OutcomeIs DEF DeleteDisk, DeleteDelete, Outcomes, Failed
    <3> QED
      BY <3>1, <3>2
  <2> QED
    BY <2>1
<1> QED
  BY <1>1, <1>2, <1>3, <1>4 DEF DeleteSteps

LEMMA BackgroundSnaps ==
    ASSUME BaseInv, SnapshotInv, NEW n \in Name, NEW s \in Slots, DeleteInBackground(n, s)
    PROVE  SnapshotInv' /\ Taken
<1>t. disk \in [Name -> MaybeDisk]
  BY DEF BaseInv, TypeOK, MaybeDisk
<1>1. PICK r \in DeleteDisk(disk[n], jobs[n][s].step, jobs[n][s].snapshot) :
        BackgroundEffect(n, s, r)
  BY BackgroundIs DEF BaseInv
<1>2. /\ jobs[n][s] # Idle
      /\ jobs[n][s].step \in DeleteSteps /\ jobs[n][s].snapshot \in BOOLEAN
      /\ disk[n] \in MaybeDisk
  BY <1>1 DEF BackgroundEffect
<1>3. /\ disk[n] = NoDisk => r.disk = NoDisk
      /\ disk[n] # NoDisk /\ r.disk = NoDisk => jobs[n][s].step = "delDelete"
  BY <1>1, <1>2, DeleteDiskIs
<1>4. disk[n] # NoDisk /\ r.disk # NoDisk =>
        /\ disk[n].snapped => r.disk.snapped
        /\ r.next = "delDelete" =>
              r.disk.snapped \/ (jobs[n][s].step # "delDelete" /\ ~jobs[n][s].snapshot)
  BY <1>1, <1>2, DeletionTakes
<1>5. /\ \A k \in Name : k # n => disk'[k] = disk[k]
      /\ disk'[n] = r.disk
      /\ UNCHANGED <<phase, doomed>>
  BY <1>t, <1>1 DEF BackgroundEffect, DeleteInBackground
<1>6. /\ \/ jobs'[n][s] = Idle
         \/ /\ r.next # "idle" /\ jobs'[n][s].step = r.next
            /\ jobs'[n][s].snapshot = jobs[n][s].snapshot
      /\ \A k \in Name, t \in Slots : k # n \/ t # s => jobs'[k][t] = jobs[k][t]
  BY <1>1 DEF BackgroundEffect
<1>7. TakenFirst(n) /\ \A k \in Name : TakenFirst(k)
  BY DEF SnapshotInv
<1>8. ASSUME doomed[n] = "snapshot", NEW t \in Slots, jobs'[n][t] # Idle
      PROVE  IF jobs'[n][t].step = "delDelete"
             THEN disk'[n] # NoDisk => disk'[n].snapped
             ELSE jobs'[n][t].snapshot
  <2>1. CASE t # s
    <3>1. jobs[n][t] = jobs'[n][t]
      BY <1>6, <2>1
    <3>2. IF jobs[n][t].step = "delDelete"
          THEN disk[n] # NoDisk => disk[n].snapped
          ELSE jobs[n][t].snapshot
      BY <1>7, <1>8, <3>1 DEF TakenFirst
    <3> QED
      BY <1>3, <1>4, <1>5, <3>1, <3>2
  <2>2. CASE t = s
    <3>1. IF jobs[n][s].step = "delDelete"
          THEN disk[n] # NoDisk => disk[n].snapped
          ELSE jobs[n][s].snapshot
      BY <1>2, <1>7, <1>8 DEF TakenFirst
    <3>2. /\ r.next # "idle" /\ jobs'[n][s].step = r.next
          /\ jobs'[n][s].snapshot = jobs[n][s].snapshot
      BY <1>6, <1>8, <2>2
    <3>3. CASE r.next = "delDelete"
      BY <1>3, <1>4, <1>5, <2>2, <3>1, <3>2, <3>3
    \* A Delete call that is made again is a Delete call.
    <3>4. CASE r.next # "delDelete"
      <4>1. jobs[n][s].step = "delDelete" => r.next = "idle"
        BY <1>1, <3>4 DEF DeleteDisk, DeleteDelete
      <4> QED
        BY <2>2, <3>1, <3>2, <3>4, <4>1
    <3> QED
      BY <3>3, <3>4
  <2> QED
    BY <2>1, <2>2
<1>9. \A k \in Name : TakenFirst(k)'
  <2>1. TakenFirst(n)'
    BY <1>5, <1>8 DEF TakenFirst
  <2>2. \A k \in Name : k # n => TakenFirst(k)'
    BY <1>5, <1>6, <1>7 DEF TakenFirst
  <2> QED
    BY <2>1, <2>2
<1>10. Taken
  BY <1>2, <1>3, <1>5, <1>7 DEF Taken, Vanishes, TakenFirst
<1> QED
  BY <1>5, <1>9, <1>10 DEF SnapshotInv

LEMMA StartupSnaps ==
    ASSUME BaseInv, SnapshotInv, Startup
    PROVE  SnapshotInv' /\ Taken
<1>1. phase # "serving" /\ UNCHANGED disk
  BY DEF Startup, Start, ReconcileStore, ResetRefCounts, RestoreMount, Serve
<1>2. \A n \in Name : doomed'[n] \in {doomed[n], "no"}
  BY DEF Startup, Start, ReconcileStore, ResetRefCounts, RestoreMount, Serve
<1>3. \A n \in Name : doomed'[n] = "no"
  BY <1>1, <1>2 DEF SnapshotInv
<1> QED
  BY <1>1, <1>3 DEF SnapshotInv, TakenFirst, Taken, Vanishes

LEMMA EnvironmentSnaps ==
    ASSUME LivesOn, BaseInv, SnapshotInv, Environment
    PROVE  SnapshotInv' /\ Taken
<1>t. disk \in [Name -> MaybeDisk]
  BY DEF BaseInv, TypeOK, MaybeDisk
<1>1. ~Crash /\ ~Reboot
  BY DEF LivesOn, Crash, Reboot
<1>2. ASSUME NEW n \in Name, UnmountUnheard(n)
      PROVE  SnapshotInv' /\ Taken
  BY <1>2, CalmSnaps DEF UnmountUnheard, Calm
<1>3. ASSUME NEW n \in Name, NEW i \in Instances \cup {nobody},
             disk[n] # NoDisk, SetDisk(n, [disk[n] EXCEPT !.user = i]),
             UNCHANGED <<op, jobs, doomed, phase>>
      PROVE  SnapshotInv' /\ Taken
  <2> DEFINE e == [disk[n] EXCEPT !.user = i]
  <2>1. e # NoDisk /\ e.labels = disk[n].labels /\ e.snapped = disk[n].snapped
    BY <1>3, <1>t, ComputeAssumption DEF MaybeDisk, Disk
  <2>2. Calm
    BY <1>3, <1>t, <2>1 DEF SetDisk, Calm
  <2> QED
    BY <1>3, <2>2, CalmSnaps
<1>4. ASSUME NEW n \in Name, OtherDetach(n)
      PROVE  SnapshotInv' /\ Taken
  BY <1>3, <1>4 DEF OtherDetach
<1>5. ASSUME NEW n \in Name, NEW i \in Instances, OtherAttach(n, i)
      PROVE  SnapshotInv' /\ Taken
  BY <1>3, <1>5 DEF OtherAttach
<1> QED
  BY <1>1, <1>2, <1>4, <1>5 DEF Environment

LEMMA SnapshotNext ==
    ASSUME Orderly, LivesOn, BaseInv, TrackInv, SnapshotInv, [Next]_vars
    PROVE  SnapshotInv' /\ Taken
<1>1. CASE Call
  BY <1>1, CallSnaps DEF Call
<1>2. CASE Step
  <2>1. CASE \/ CreateGetDisk \/ CreateAdopt \/ CreateInsert \/ CreateConfirm
             \/ CreateAdd \/ CreateRollback
    BY <2>1, CreateStepSnaps
  <2>2. CASE \/ MountAttachGet \/ MountAttach \/ MountPrepare \/ MountMount
             \/ MountIncRef \/ MountUnwind \/ UnmountUmount \/ DetachGet \/ Detach
    <3>1. Calm
      BY <2>2, CalmStep
    <3>2. UNCHANGED phase
      BY <2>2 DEF MountAttachGet, MountAttach, MountPrepare, MountMount,
         MountIncRef, MountUnwind, UnmountUmount, DetachGet, Detach
    <3> QED
      BY <3>1, <3>2, CalmSnaps
  <2> QED
    BY <1>2, <2>1, <2>2 DEF Step
<1>3. CASE Background
  BY <1>3, BackgroundSnaps DEF Background
<1>4. CASE Startup
  BY <1>4, StartupSnaps
<1>5. CASE Environment
  BY <1>5, EnvironmentSnaps
<1>6. CASE UNCHANGED vars
  BY <1>6, CalmSnaps DEF vars, Calm
<1> QED
  BY <1>1, <1>2, <1>3, <1>4, <1>5, <1>6 DEF Next

\* As long as the plugin lives on, the disk of a volume with snapshotOnRemove is
\* snapshotted before it goes, whichever calls fail on the way.
THEOREM SnapshotsAreTaken == Orderly /\ LivesOn => (Spec => SnapshotBeforeDelete)
<1> SUFFICES ASSUME Orderly, LivesOn PROVE Spec => SnapshotBeforeDelete
  OBVIOUS
<1>1. Init => SnapshotInv
  BY SnapshotInit
<1>2. BaseInv /\ TrackInv /\ SnapshotInv /\ [Next]_vars => SnapshotInv' /\ [Taken]_vars
  BY SnapshotNext
<1> QED
  BY <1>1, <1>2, BaseAlways, TrackAlways, PTL
     DEF Spec, SnapshotBeforeDelete, Taken
=============================================================================
