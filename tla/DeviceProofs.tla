---------------------------- MODULE DeviceProofs ----------------------------
(***************************************************************************)
(* Device, for any number of volumes and any file systems: when no disk     *)
(* comes with a partition table, what a disk holds is never formatted away. *)
(*                                                                         *)
(* The invariant ties data to a file system that blkid knows, and mkfs to   *)
(* its absence: between blkid and mkfs nothing else touches the device.     *)
(***************************************************************************)
EXTENDS Device, TLAPS

\* What is worth keeping is in a file system that blkid detects.
DataIsDetected == \A n \in data : content[n] \in FSTypes

\* mkfs runs on a device that has none; only a file system is mounted.
FormatsUndetected == Runs("mkfs") => content[name] \notin FSTypes
MountsFs == \A n \in mounted : content[n] \in FSTypes

IInv ==
    /\ TypeOK
    /\ DataIsDetected
    /\ FormatsUndetected
    /\ MountsFs

\* A new disk is blank or has a file system.
NoTables == "table" \notin Origins

LEMMA InitInv == NoTables /\ Init => IInv
<1> SUFFICES ASSUME NoTables, Init PROVE IInv
  OBVIOUS
<1>1. content \in [Name -> FSTypes \cup {"blank"}]
  BY DeviceAssumption DEF Init, NoTables, Contents
<1>2. TypeOK
  BY <1>1 DEF Init, TypeOK, Contents
<1> QED BY <1>1, <1>2 DEF Init, IInv, DataIsDetected, FormatsUndetected, MountsFs, Runs

LEMMA NextInv == IInv /\ [Next]_vars => IInv'
<1> SUFFICES ASSUME IInv, [Next]_vars PROVE IInv'
  OBVIOUS
<1> USE DEF IInv, TypeOK, DataIsDetected, FormatsUndetected, MountsFs, Runs, Then
<1>1. ASSUME NEW n \in Name, Mount(n) PROVE IInv'
  BY <1>1 DEF Mount
<1>2. ASSUME NEW n \in Name, Write(n) PROVE IInv'
  BY <1>2 DEF Write
<1>3. ASSUME NEW n \in Name, Unmount(n) PROVE IInv'
  BY <1>3 DEF Unmount
<1>4. ASSUME NEW n \in Name, Adopt(n) PROVE IInv'
  BY <1>4 DEF Adopt
<1>5. CASE Probe
  <2>1. Detected = "" => content[name] \notin FSTypes
    BY DeviceAssumption DEF Detected
  <2> QED BY <1>5, <2>1 DEF Probe
<1>6. CASE Format
  <2>1. content' \in [Name -> Contents]
    BY <1>6 DEF Format, Contents
  <2>2. name \notin mounted
    BY <1>6 DEF Format
  <2> QED BY <1>6, <2>1, <2>2 DEF Format
<1>7. CASE MountFs
  BY <1>7 DEF MountFs
<1>8. CASE Umount
  BY <1>8 DEF Umount
<1>9. CASE Crash
  <2>1. content' \in [Name -> Contents]
    BY <1>9 DEF Crash, Contents
  <2> QED BY <1>9, <2>1 DEF Crash
<1>10. CASE UNCHANGED vars
  BY <1>10 DEF vars
<1> QED BY <1>1, <1>2, <1>3, <1>4, <1>5, <1>6, <1>7, <1>8, <1>9, <1>10 DEF Next, Step

\* No step of the invariant's states takes data from a disk.
LEMMA StepKeepsData == IInv /\ [Next]_vars => data \subseteq data'
<1> SUFFICES ASSUME IInv, [Next]_vars PROVE data \subseteq data'
  OBVIOUS
<1>1. CASE Format
  BY <1>1 DEF Format, IInv, DataIsDetected, FormatsUndetected, TypeOK
<1>2. CASE Crash
  BY <1>2 DEF Crash, IInv, DataIsDetected, FormatsUndetected, TypeOK
<1>3. CASE ~Format /\ ~Crash
  BY <1>3 DEF Next, Step, Mount, Write, Unmount, Adopt, Probe, MountFs, Umount, vars
<1> QED BY <1>1, <1>2, <1>3

\* Whatever command fails or is killed, and whenever the plugin dies, no disk
\* that came blank or with a file system loses what it holds to mkfs.
THEOREM FormatsOnlyBlank == NoTables => (Spec => KeepsData)
<1> SUFFICES ASSUME NoTables PROVE Spec => KeepsData
  OBVIOUS
<1>1. Init => IInv
  BY InitInv
<1>2. IInv /\ [Next]_vars => IInv'
  BY NextInv
<1>3. IInv /\ [Next]_vars => [data \subseteq data']_vars
  BY StepKeepsData
<1> QED BY <1>1, <1>2, <1>3, PTL DEF Spec, KeepsData
=============================================================================
