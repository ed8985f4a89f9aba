---------------------------- MODULE ClusterProofs ----------------------------
(***************************************************************************)
(* The plugins of two VMs keep what each promises alone, over the disks of  *)
(* one zone: each leaves the other the disks it has attached (Spares), and  *)
(* that is all the invariants of a plugin ask of the zone.                 *)
(***************************************************************************)
EXTENDS Cluster, TLAPS

AP == INSTANCE DriverMountProofs WITH
        Self <- VmA, mnt <- mntA, using <- usingA, phase <- phaseA, todo <- todoA,
        mem <- memA, file <- fileA, op <- opA, jobs <- jobsA
BP == INSTANCE DriverMountProofs WITH
        Self <- VmB, mnt <- mntB, using <- usingB, phase <- phaseB, todo <- todoB,
        mem <- memB, file <- fileB, op <- opB, jobs <- jobsB

(***************************************************************************)
(* A and AP are two names of one plugin, as B and BP are.                  *)
(***************************************************************************)
LEMMA SameA == (A!Init <=> AP!Init) /\ (A!Next <=> AP!Next)
<1>1. A!Init <=> AP!Init
  BY DEF
   A!Init, AP!Init, A!EmptyStore, AP!EmptyStore, A!NoJobs, AP!NoJobs,
   A!Idle, AP!Idle
<1>2. A!Next <=> AP!Next
  BY DEF
   A!Next, AP!Next, A!Call, AP!Call, A!Step, AP!Step, A!Background,
   AP!Background, A!Startup, AP!Startup, A!Environment, AP!Environment,
   A!Create, AP!Create, A!RemoveRetain, AP!RemoveRetain, A!RemoveDelete,
   AP!RemoveDelete, A!MountAgain, AP!MountAgain, A!MountFirst,
   AP!MountFirst, A!UnmountNothing, AP!UnmountNothing, A!UnmountDecRef,
   AP!UnmountDecRef, A!CreateGetDisk, AP!CreateGetDisk, A!CreateAdopt,
   AP!CreateAdopt, A!CreateInsert, AP!CreateInsert, A!CreateConfirm,
   AP!CreateConfirm, A!CreateAdd, AP!CreateAdd, A!CreateRollback,
   AP!CreateRollback, A!MountAttachGet, AP!MountAttachGet, A!MountAttach,
   AP!MountAttach, A!MountPrepare, AP!MountPrepare, A!MountMount,
   AP!MountMount, A!MountIncRef, AP!MountIncRef, A!MountUnwind,
   AP!MountUnwind, A!UnmountUmount, AP!UnmountUmount, A!DetachGet,
   AP!DetachGet, A!Detach, AP!Detach, A!DeleteInBackground,
   AP!DeleteInBackground, A!Start, AP!Start, A!ReconcileStore,
   AP!ReconcileStore, A!ResetRefCounts, AP!ResetRefCounts, A!RestoreMount,
   AP!RestoreMount, A!Serve, AP!Serve, A!Crash, AP!Crash, A!Reboot,
   AP!Reboot, A!UnmountUnheard, AP!UnmountUnheard, A!OtherDetach,
   AP!OtherDetach, A!OtherAttach, AP!OtherAttach, A!Free, AP!Free,
   A!Tracked, AP!Tracked, A!CreateMayCome, AP!CreateMayCome, A!Begin,
   AP!Begin, A!Removable, AP!Removable, A!Saved, AP!Saved, A!Dropped,
   AP!Dropped, A!Save, AP!Save, A!Idle, AP!Idle, A!Spawned, AP!Spawned,
   A!Doom, AP!Doom, A!IncRef, AP!IncRef, A!DecRef, AP!DecRef, A!At, AP!At,
   A!GetCall, AP!GetCall, A!Goto, AP!Goto, A!Adoptable, AP!Adoptable,
   A!Return, AP!Return, A!Added, AP!Added, A!InsertCall, AP!InsertCall,
   A!SetDisk, AP!SetDisk, A!DeleteSteps, AP!DeleteSteps, A!DeleteDisk,
   AP!DeleteDisk, A!AttachCall, AP!AttachCall, A!DetachCall, AP!DetachCall,
   A!Reconciled, AP!Reconciled, A!Listed, AP!Listed, A!Marked, AP!Marked,
   A!Resumed, AP!Resumed, A!Exit, AP!Exit, A!AllReset, AP!AllReset,
   A!SetMounted, AP!SetMounted, A!NoJob, AP!NoJob, A!Deleting, AP!Deleting,
   A!Outcomes, AP!Outcomes, A!Managed, AP!Managed, A!NewDisk, AP!NewDisk,
   A!Failed, AP!Failed, A!DeleteGet, AP!DeleteGet, A!DeleteMark,
   AP!DeleteMark, A!DeleteSnapshot, AP!DeleteSnapshot, A!DeleteDelete,
   AP!DeleteDelete, A!Attached, AP!Attached, A!ImportedOptions,
   AP!ImportedOptions, A!EmptyStore, AP!EmptyStore, A!NoJobs, AP!NoJobs,
   A!DeletingLabelKey, AP!DeletingLabelKey, A!ManagedByLabelKey,
   AP!ManagedByLabelKey, A!ManagedByLabelValue, AP!ManagedByLabelValue,
   A!EffectiveLabels, AP!EffectiveLabels, A!AfterMark, AP!AfterMark,
   A!MarkCall, AP!MarkCall, A!SnapshotCall, AP!SnapshotCall, A!Mark, AP!Mark
<1> QED
  BY <1>1, <1>2

LEMMA SameB == (B!Init <=> BP!Init) /\ (B!Next <=> BP!Next)
<1>1. B!Init <=> BP!Init
  BY DEF
   B!Init, BP!Init, B!EmptyStore, BP!EmptyStore, B!NoJobs, BP!NoJobs,
   B!Idle, BP!Idle
<1>2. B!Next <=> BP!Next
  BY DEF
   B!Next, BP!Next, B!Call, BP!Call, B!Step, BP!Step, B!Background,
   BP!Background, B!Startup, BP!Startup, B!Environment, BP!Environment,
   B!Create, BP!Create, B!RemoveRetain, BP!RemoveRetain, B!RemoveDelete,
   BP!RemoveDelete, B!MountAgain, BP!MountAgain, B!MountFirst,
   BP!MountFirst, B!UnmountNothing, BP!UnmountNothing, B!UnmountDecRef,
   BP!UnmountDecRef, B!CreateGetDisk, BP!CreateGetDisk, B!CreateAdopt,
   BP!CreateAdopt, B!CreateInsert, BP!CreateInsert, B!CreateConfirm,
   BP!CreateConfirm, B!CreateAdd, BP!CreateAdd, B!CreateRollback,
   BP!CreateRollback, B!MountAttachGet, BP!MountAttachGet, B!MountAttach,
   BP!MountAttach, B!MountPrepare, BP!MountPrepare, B!MountMount,
   BP!MountMount, B!MountIncRef, BP!MountIncRef, B!MountUnwind,
   BP!MountUnwind, B!UnmountUmount, BP!UnmountUmount, B!DetachGet,
   BP!DetachGet, B!Detach, BP!Detach, B!DeleteInBackground,
   BP!DeleteInBackground, B!Start, BP!Start, B!ReconcileStore,
   BP!ReconcileStore, B!ResetRefCounts, BP!ResetRefCounts, B!RestoreMount,
   BP!RestoreMount, B!Serve, BP!Serve, B!Crash, BP!Crash, B!Reboot,
   BP!Reboot, B!UnmountUnheard, BP!UnmountUnheard, B!OtherDetach,
   BP!OtherDetach, B!OtherAttach, BP!OtherAttach, B!Free, BP!Free,
   B!Tracked, BP!Tracked, B!CreateMayCome, BP!CreateMayCome, B!Begin,
   BP!Begin, B!Removable, BP!Removable, B!Saved, BP!Saved, B!Dropped,
   BP!Dropped, B!Save, BP!Save, B!Idle, BP!Idle, B!Spawned, BP!Spawned,
   B!Doom, BP!Doom, B!IncRef, BP!IncRef, B!DecRef, BP!DecRef, B!At, BP!At,
   B!GetCall, BP!GetCall, B!Goto, BP!Goto, B!Adoptable, BP!Adoptable,
   B!Return, BP!Return, B!Added, BP!Added, B!InsertCall, BP!InsertCall,
   B!SetDisk, BP!SetDisk, B!DeleteSteps, BP!DeleteSteps, B!DeleteDisk,
   BP!DeleteDisk, B!AttachCall, BP!AttachCall, B!DetachCall, BP!DetachCall,
   B!Reconciled, BP!Reconciled, B!Listed, BP!Listed, B!Marked, BP!Marked,
   B!Resumed, BP!Resumed, B!Exit, BP!Exit, B!AllReset, BP!AllReset,
   B!SetMounted, BP!SetMounted, B!NoJob, BP!NoJob, B!Deleting, BP!Deleting,
   B!Outcomes, BP!Outcomes, B!Managed, BP!Managed, B!NewDisk, BP!NewDisk,
   B!Failed, BP!Failed, B!DeleteGet, BP!DeleteGet, B!DeleteMark,
   BP!DeleteMark, B!DeleteSnapshot, BP!DeleteSnapshot, B!DeleteDelete,
   BP!DeleteDelete, B!Attached, BP!Attached, B!ImportedOptions,
   BP!ImportedOptions, B!EmptyStore, BP!EmptyStore, B!NoJobs, BP!NoJobs,
   B!DeletingLabelKey, BP!DeletingLabelKey, B!ManagedByLabelKey,
   BP!ManagedByLabelKey, B!ManagedByLabelValue, BP!ManagedByLabelValue,
   B!EffectiveLabels, BP!EffectiveLabels, B!AfterMark, BP!AfterMark,
   B!MarkCall, BP!MarkCall, B!SnapshotCall, BP!SnapshotCall, B!Mark, BP!Mark
<1> QED
  BY <1>1, <1>2

\* What DriverMountProofs assumes of its constants.
LEMMA Assumed ==
    /\ AP!OptionsAssumption /\ AP!ComputeAssumption /\ AP!DriverAssumption
    /\ BP!OptionsAssumption /\ BP!ComputeAssumption /\ BP!DriverAssumption
<1>1. AP!OptionsAssumption /\ AP!ComputeAssumption /\ AP!DriverAssumption
  BY ClusterAssumption DEF
   A!OptionsAssumption, AP!OptionsAssumption, A!ComputeAssumption,
   AP!ComputeAssumption, A!DriverAssumption, AP!DriverAssumption, A!NoLabel,
   AP!NoLabel, A!Disk, AP!Disk, A!ParsedOptions, AP!ParsedOptions,
   A!Managed, AP!Managed, A!FaultKinds, AP!FaultKinds, A!CreateTimes,
   AP!CreateTimes, A!Volume, AP!Volume, A!Op, AP!Op, A!Labels, AP!Labels,
   A!DiskOptions, AP!DiskOptions, A!ManagedByLabelKey, AP!ManagedByLabelKey,
   A!ManagedByLabelValue, AP!ManagedByLabelValue, A!OpSteps, AP!OpSteps,
   A!LabelKeys, AP!LabelKeys, A!LabelValues, AP!LabelValues, A!CreateSteps,
   AP!CreateSteps, A!MountSteps, AP!MountSteps, A!UnmountSteps,
   AP!UnmountSteps, A!DeleteSteps, AP!DeleteSteps, A!DeletingLabelKey,
   AP!DeletingLabelKey
<1>2. BP!OptionsAssumption /\ BP!ComputeAssumption
  BY ClusterAssumption DEF
   A!OptionsAssumption, BP!OptionsAssumption, A!ComputeAssumption,
   BP!ComputeAssumption, A!NoLabel, BP!NoLabel, A!Disk, BP!Disk, A!Labels,
   BP!Labels, A!LabelKeys, BP!LabelKeys, A!LabelValues, BP!LabelValues,
   A!ManagedByLabelKey, BP!ManagedByLabelKey, A!DeletingLabelKey,
   BP!DeletingLabelKey, A!ManagedByLabelValue, BP!ManagedByLabelValue
<1>3. BP!DriverAssumption
  BY ClusterAssumption DEF
   B!DriverAssumption, BP!DriverAssumption, B!ParsedOptions,
   BP!ParsedOptions, B!Disk, BP!Disk, B!Managed, BP!Managed, B!FaultKinds,
   BP!FaultKinds, B!CreateTimes, BP!CreateTimes, B!Volume, BP!Volume, B!Op,
   BP!Op, B!DiskOptions, BP!DiskOptions, B!ManagedByLabelKey,
   BP!ManagedByLabelKey, B!NoLabel, BP!NoLabel, B!Labels, BP!Labels,
   B!ManagedByLabelValue, BP!ManagedByLabelValue, B!OpSteps, BP!OpSteps,
   B!LabelKeys, BP!LabelKeys, B!LabelValues, BP!LabelValues, B!CreateSteps,
   BP!CreateSteps, B!MountSteps, BP!MountSteps, B!UnmountSteps,
   BP!UnmountSteps, B!DeleteSteps, BP!DeleteSteps, B!DeletingLabelKey,
   BP!DeletingLabelKey
<1> QED
  BY <1>1, <1>2, <1>3

\* The disks of the two plugins are those of one zone.
LEMMA SameZone ==
    /\ AP!Disk = BP!Disk /\ AP!Dooms = BP!Dooms
    /\ AP!MaybeDisk = BP!MaybeDisk
    /\ \A v : AP!Spares(v) <=> BP!Spares(v)
<1>1. AP!Disk = BP!Disk /\ AP!Dooms = BP!Dooms
  BY DEF AP!Disk, AP!Dooms, AP!Labels, AP!LabelKeys, AP!LabelValues,
     AP!ManagedByLabelKey, AP!DeletingLabelKey, AP!ManagedByLabelValue, AP!NoLabel,
     BP!Disk, BP!Dooms, BP!Labels, BP!LabelKeys, BP!LabelValues,
     BP!ManagedByLabelKey, BP!DeletingLabelKey, BP!ManagedByLabelValue, BP!NoLabel
<1>2. \A v : AP!Spares(v) <=> BP!Spares(v)
  BY DEF AP!Spares, AP!UsedBy, AP!Foreign, AP!Deleting, AP!Managed,
     AP!DeletingLabelKey, AP!ManagedByLabelKey, AP!ManagedByLabelValue,
     BP!Spares, BP!UsedBy, BP!Foreign, BP!Deleting, BP!Managed,
     BP!DeletingLabelKey, BP!ManagedByLabelKey, BP!ManagedByLabelValue
<1> QED
  BY <1>1, <1>2 DEF AP!MaybeDisk, BP!MaybeDisk

(***************************************************************************)
(* A step of one plugin, and what it leaves of the other's invariants.     *)
(***************************************************************************)
Common == AP!BaseInv /\ AP!ForeignInv /\ BP!BaseInv /\ BP!ForeignInv

LEMMA StepOfA ==
    ASSUME "other" \notin Faults, Common, [A!Next]_(A!vars), UNCHANGED varsB
    PROVE  /\ Common'
           /\ AP!Undisturbed /\ AP!MountInv => AP!MountInv'
           /\ AP!Quiet /\ AP!QuietInv => AP!QuietInv'
           /\ BP!MountInv => BP!MountInv'
           /\ BP!QuietInv => BP!QuietInv'
<1> USE Assumed DEF Common
<1>1. [AP!Next]_(AP!vars)
  BY SameA DEF A!vars, AP!vars
<1>2. AP!BaseInv' /\ AP!ForeignInv'
  BY <1>1, AP!BaseNext, AP!ForeignNext
<1>3. /\ AP!Undisturbed /\ AP!MountInv => AP!MountInv'
      /\ AP!Quiet /\ AP!QuietInv => AP!QuietInv'
  BY <1>1, AP!MountNext, AP!QuietNext
<1>4. BP!Spares(VmB)
  <2>1. VmB \in Instances /\ VmB # VmA
    BY ClusterAssumption DEF BP!DriverAssumption
  <2>2. AP!Spares(VmB)
    BY <1>1, <2>1, AP!NextSpares
  <2> QED
    BY <2>2, SameZone
<1>5. disk' \in [Name -> BP!MaybeDisk] /\ doomed' \in [Name -> BP!Dooms]
  <2>1. disk' \in [Name -> AP!MaybeDisk] /\ doomed' \in [Name -> AP!Dooms]
    BY <1>2 DEF AP!BaseInv, AP!TypeOK, AP!MaybeDisk
  <2> QED
    BY <2>1, SameZone
<1>6. /\ BP!BaseInv' /\ BP!ForeignInv'
      /\ BP!MountInv => BP!MountInv'
      /\ BP!QuietInv => BP!QuietInv'
  BY <1>4, <1>5, BP!SparedKeeps DEF varsB
<1> QED
  BY <1>2, <1>3, <1>6

LEMMA StepOfB ==
    ASSUME "other" \notin Faults, Common, [B!Next]_(B!vars), UNCHANGED varsA
    PROVE  /\ Common'
           /\ BP!Undisturbed /\ BP!MountInv => BP!MountInv'
           /\ BP!Quiet /\ BP!QuietInv => BP!QuietInv'
           /\ AP!MountInv => AP!MountInv'
           /\ AP!QuietInv => AP!QuietInv'
<1> USE Assumed DEF Common
<1>1. [BP!Next]_(BP!vars)
  BY SameB DEF B!vars, BP!vars
<1>2. BP!BaseInv' /\ BP!ForeignInv'
  BY <1>1, BP!BaseNext, BP!ForeignNext
<1>3. /\ BP!Undisturbed /\ BP!MountInv => BP!MountInv'
      /\ BP!Quiet /\ BP!QuietInv => BP!QuietInv'
  BY <1>1, BP!MountNext, BP!QuietNext
<1>4. AP!Spares(VmA)
  <2>1. VmA \in Instances /\ VmA # VmB
    BY ClusterAssumption DEF AP!DriverAssumption
  <2>2. BP!Spares(VmA)
    BY <1>1, <2>1, BP!NextSpares
  <2> QED
    BY <2>2, SameZone
<1>5. disk' \in [Name -> AP!MaybeDisk] /\ doomed' \in [Name -> AP!Dooms]
  <2>1. disk' \in [Name -> BP!MaybeDisk] /\ doomed' \in [Name -> BP!Dooms]
    BY <1>2 DEF BP!BaseInv, BP!TypeOK, BP!MaybeDisk
  <2> QED
    BY <2>1, SameZone
<1>6. /\ AP!BaseInv' /\ AP!ForeignInv'
      /\ AP!MountInv => AP!MountInv'
      /\ AP!QuietInv => AP!QuietInv'
  BY <1>4, <1>5, AP!SparedKeeps DEF varsA
<1> QED
  BY <1>2, <1>3, <1>6

\* Who takes it, a step is one of a plugin.
LEMMA StepIsOfOne ==
    [Next]_vars =>
        \/ [A!Next]_(A!vars) /\ UNCHANGED varsB
        \/ [B!Next]_(B!vars) /\ UNCHANGED varsA
BY DEF Next, StepA, StepB, vars, varsA, varsB, A!vars, B!vars

LEMMA CommonInit == Init => Common
<1>1. A!Init => AP!BaseInv /\ AP!ForeignInv
  BY Assumed, SameA, AP!BaseInit, AP!ForeignInit
<1>2. B!Init => BP!BaseInv /\ BP!ForeignInv
  BY Assumed, SameB, BP!BaseInit, BP!ForeignInit
<1> QED
  BY <1>1, <1>2 DEF Init, Common

(***************************************************************************)
(* The theorems.                                                           *)
(***************************************************************************)
\* The state file can be written, a umount works, /proc/mounts can be read, and
\* nobody takes the disks but the two plugins.
Undisturbed == Faults \cap {"persist", "umount", "probe", "other"} = {}

\* A restart gives every mounted volume a count of one.
OneContainer == "crash" \in Faults => MaxContainers <= 1

\* No container loses its file system to the plugin of the other VM, or to its own:
\* not to the other's deletions, those that it resumes among them, not to its mounts,
\* not to what fails or dies on either side (Mount, Unmount, Remove, Reconcile).
THEOREM ContainersKeepVolumes ==
    Undisturbed /\ OneContainer => (Spec => []UsedIsMounted)
<1> SUFFICES ASSUME Undisturbed, OneContainer PROVE Spec => []UsedIsMounted
  OBVIOUS
<1> DEFINE Inv == Common /\ AP!MountInv /\ BP!MountInv
<1>1. AP!Undisturbed /\ BP!Undisturbed /\ "other" \notin Faults
  BY DEF Undisturbed, AP!Undisturbed, BP!Undisturbed
<1>2. Init => Inv
  BY Assumed, SameA, SameB, CommonInit, AP!MountInit, BP!MountInit DEF Init
<1>3. Inv /\ [Next]_vars => Inv'
  BY <1>1, StepIsOfOne, StepOfA, StepOfB
<1>4. Inv => UsedIsMounted
  <2>1. AP!MountInv => A!UsedIsMounted
    BY DEF OneContainer, AP!MountInv, AP!Fits, AP!MountedIs, AP!UseFits, AP!Mounted,
       AP!OneContainer, AP!AttachedHere, A!UsedIsMounted, A!AttachedHere
  <2>2. BP!MountInv => B!UsedIsMounted
    BY DEF OneContainer, BP!MountInv, BP!Fits, BP!MountedIs, BP!UseFits, BP!Mounted,
       BP!OneContainer, BP!AttachedHere, B!UsedIsMounted, B!AttachedHere
  <2> QED
    BY <2>1, <2>2 DEF UsedIsMounted
<1> QED
  BY <1>2, <1>3, <1>4, PTL DEF Spec

\* Every call and write succeeds, and nothing dies; devices and mounts may fail.
Quiet == ApiFaults = {} /\ Faults \subseteq {"device"}

QuietInv == Common /\ AP!QuietInv /\ BP!QuietInv

LEMMA QuietAlways == Quiet => (Spec => []QuietInv)
<1> SUFFICES ASSUME Quiet PROVE Spec => []QuietInv
  OBVIOUS
<1>1. AP!Quiet /\ BP!Quiet /\ "other" \notin Faults
  BY DEF Quiet, AP!Quiet, BP!Quiet
<1>2. Init => QuietInv
  BY Assumed, SameA, SameB, CommonInit, AP!QuietInit, BP!QuietInit DEF Init, QuietInv
<1>3. QuietInv /\ [Next]_vars => QuietInv'
  BY <1>1, StepIsOfOne, StepOfA, StepOfB DEF QuietInv
<1> QED
  BY <1>2, <1>3, PTL DEF Spec

\* The disks attached to each VM are those of the volumes its own containers use,
\* and the count is their number, however the two take turns with a disk (Mount,
\* Unmount).
THEOREM CountIsAttached == Quiet => (Spec => []AttachedIsCounted)
<1>1. QuietInv => AttachedIsCounted
  <2>1. AP!QuietInv => A!AttachedIsCounted
    BY DEF AP!QuietInv, AP!Agrees, AP!Counted, AP!Working, AP!Tracked,
       AP!AttachedHere, A!AttachedIsCounted, A!Free, A!Tracked, A!AttachedHere
  <2>2. BP!QuietInv => B!AttachedIsCounted
    BY DEF BP!QuietInv, BP!Agrees, BP!Counted, BP!Working, BP!Tracked,
       BP!AttachedHere, B!AttachedIsCounted, B!Free, B!Tracked, B!AttachedHere
  <2> QED
    BY <2>1, <2>2 DEF QuietInv, AttachedIsCounted
<1> QED
  BY <1>1, QuietAlways, PTL

\* Neither plugin accepts the deletion of a disk that is attached to its own VM
\* ("refuses if still attached/in use", README.md).
THEOREM AttachedIsRefused == Quiet => (Spec => RefusesAttached)
<1>1. QuietInv /\ [Next]_vars =>
        [\A n \in Name : A!AcceptsDeletion(n) => ~A!AttachedHere(n)]_(A!vars)
  <2> SUFFICES ASSUME QuietInv, [Next]_vars, NEW n \in Name, A!AcceptsDeletion(n),
                      A!vars' # A!vars
               PROVE  ~A!AttachedHere(n)
    OBVIOUS
  <2>1. jobsA' # jobsA
    BY DEF A!AcceptsDeletion
  <2>2. AP!Next
    BY <2>1, StepIsOfOne, SameA DEF varsA, A!vars
  <2>3. AP!AcceptsDeletion(n)
    BY DEF A!AcceptsDeletion, AP!AcceptsDeletion, A!Idle, AP!Idle
  <2> QED
    BY <2>2, <2>3, Assumed, AP!QuietRefuses
       DEF QuietInv, Common, A!AttachedHere, AP!AttachedHere
<1>2. QuietInv /\ [Next]_vars =>
        [\A n \in Name : B!AcceptsDeletion(n) => ~B!AttachedHere(n)]_(B!vars)
  <2> SUFFICES ASSUME QuietInv, [Next]_vars, NEW n \in Name, B!AcceptsDeletion(n),
                      B!vars' # B!vars
               PROVE  ~B!AttachedHere(n)
    OBVIOUS
  <2>1. jobsB' # jobsB
    BY DEF B!AcceptsDeletion
  <2>2. BP!Next
    BY <2>1, StepIsOfOne, SameB DEF varsB, B!vars
  <2>3. BP!AcceptsDeletion(n)
    BY DEF B!AcceptsDeletion, BP!AcceptsDeletion, B!Idle, BP!Idle
  <2> QED
    BY <2>2, <2>3, Assumed, BP!QuietRefuses
       DEF QuietInv, Common, B!AttachedHere, BP!AttachedHere
<1> QED
  BY <1>1, <1>2, QuietAlways, PTL DEF Spec, RefusesAttached, A!RefusesAttached,
     B!RefusesAttached
=============================================================================
