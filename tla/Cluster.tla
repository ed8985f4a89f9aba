------------------------------- MODULE Cluster -------------------------------
(***************************************************************************)
(* The plugins of two VMs over the disks of one zone, in the scope "local". *)
(* Each lists, imports and resumes the deletions of all managed disks of    *)
(* the zone (ListManagedDisks), the other's included.                       *)
(***************************************************************************)
EXTENDS Naturals

CONSTANTS
    Sizes, DiskTypes, FSTypes, Sources, UserLabelKeys, UserLabelValues,
    Instances, nobody, NoDisk, ApiFaults,
    Name, Slots, Requests, InitialDisks, Faults, CreateAfter,
    MaxRef, MaxContainers, NoVolume, NoOp,
    VmA, VmB            \* the two VMs

VARIABLES
    disk, doomed,       \* the zone, and what its users were told
    mntA, usingA, phaseA, todoA, memA, fileA, opA, jobsA,
    mntB, usingB, phaseB, todoB, memB, fileB, opB, jobsB

varsA == <<mntA, usingA, phaseA, todoA, memA, fileA, opA, jobsA>>
varsB == <<mntB, usingB, phaseB, todoB, memB, fileB, opB, jobsB>>
vars == <<disk, doomed, varsA, varsB>>

A == INSTANCE Driver WITH
        Self <- VmA, mnt <- mntA, using <- usingA, phase <- phaseA, todo <- todoA,
        mem <- memA, file <- fileA, op <- opA, jobs <- jobsA
B == INSTANCE Driver WITH
        Self <- VmB, mnt <- mntB, using <- usingB, phase <- phaseB, todo <- todoB,
        mem <- memB, file <- fileB, op <- opB, jobs <- jobsB

ASSUME ClusterAssumption ==
    /\ VmA # VmB
    /\ A!OptionsAssumption /\ A!ComputeAssumption
    /\ A!DriverAssumption /\ B!DriverAssumption

Init == A!Init /\ B!Init

StepA == A!Next /\ UNCHANGED varsB
StepB == B!Next /\ UNCHANGED varsA

Next == StepA \/ StepB

Spec == Init /\ [][Next]_vars

\* No container loses its file system to what the other VM does with the disk:
\* not to its deletion, not to one that it resumes, not to its mount.
UsedIsMounted == A!UsedIsMounted /\ B!UsedIsMounted

\* The disks attached to each VM are those of the volumes its own containers use,
\* and the count is their number, however the two take turns with a disk.
AttachedIsCounted == A!AttachedIsCounted /\ B!AttachedIsCounted

\* Docker is told that a volume is removed only when its disk can be deleted:
\* Remove "refuses if still attached/in use" (README.md), on this VM.
RefusesAttached == A!RefusesAttached /\ B!RefusesAttached

\* A disk is marked when it goes, whichever plugin deletes it, and although both
\* may be at it: a Create that came in between is not undone.  It is, once a plugin
\* resumes what the other is deleting (see the README).
MarkedBeforeDeleted == [][A!VanishesMarked]_vars

\* What a plugin lists has a disk, not marked for deletion, and no other.  It has
\* not, once the other plugin has imported the disk, or adopted it, and deletes it.
TrackedHasDisk == A!TrackedHasDisk /\ B!TrackedHasDisk

\* snapshotOnRemove: no disk of such a volume goes without its snapshot, whoever
\* deletes it.  It does, when the other plugin resumes the deletion.
SnapshotBeforeDelete ==
    [][\A n \in Name :
          A!Vanishes(n) /\ doomed[n] = "snapshot" => disk[n].snapped]_vars
=============================================================================
