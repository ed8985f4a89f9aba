------------------------------- MODULE Device -------------------------------
(***************************************************************************)
(* What the plugin does to the contents of a disk: the commands of          *)
(* internal/mount that Mount runs on the device, each of which may fail or  *)
(* be killed, with the context or with the plugin.                         *)
(***************************************************************************)
EXTENDS Naturals

CONSTANTS
    Name,       \* the volumes of the VM, one disk each
    Origins,    \* what a new disk may hold: its source is nothing, a snapshot, an image
    FSTypes,    \* the fs option: ext4, xfs
    Faults      \* what may fail or be killed: "probe", "mkfs", "mount", "umount", "crash"

\* half: mkfs began and did not end.  table: a partition table, as the images
\* of operating systems have, and file systems in the partitions only.
Contents == {"blank", "half", "table"} \cup FSTypes

ASSUME DeviceAssumption ==
    /\ {"", "blank", "half", "table"} \cap FSTypes = {}
    /\ Origins \subseteq Contents \ {"half"}
    /\ Faults \subseteq {"probe", "mkfs", "mount", "umount", "crash"}

VARIABLES
    content,    \* of each device
    data,       \* the devices that hold what somebody put there
    mounted,    \* the devices that are mounted
    command,    \* that Mount or Unmount runs: under d.mu, one at a time
    name,       \* the volume it is for
    fsType      \* of each volume's options

vars == <<content, data, mounted, command, name, fsType>>

\* Every variable has its type.
TypeOK ==
    /\ content \in [Name -> Contents]
    /\ data \subseteq Name
    /\ mounted \subseteq Name
    /\ command \in {"none", "blkid", "mkfs", "mount", "umount"}
    /\ name \in Name
    /\ fsType \in [Name -> FSTypes]

Init ==
    /\ content \in [Name -> Origins]
    /\ data = {n \in Name : content[n] # "blank"}
    /\ mounted = {}
    /\ command = "none"
    /\ name \in Name
    /\ fsType \in [Name -> FSTypes]

Runs(c) == command = c
Then(c) == command' = c /\ UNCHANGED name

Mount(n) ==
    /\ Runs("none") /\ n \notin mounted
    /\ command' = "blkid" /\ name' = n
    /\ UNCHANGED <<content, data, mounted, fsType>>

\* What blkid says: the file system, or "" when it knows none, with the exit
\* status 2 or, for a partition table, 0.
Detected == IF content[name] \in FSTypes THEN content[name] ELSE ""

\* A blkid that fails for any reason is taken for a blank device.
Probe_AnyFailure ==
    /\ Runs("blkid")
    /\ \/ Then(IF Detected = "" THEN "mkfs" ELSE "mount")
       \/ "probe" \in Faults /\ Then("mkfs")
    /\ UNCHANGED <<content, data, mounted, fsType>>

\* A device that mkfs has begun with is taken for formatted.
Probe_OnlyOnce ==
    /\ Runs("blkid")
    /\ \/ Then(IF content[name] = "blank" THEN "mkfs" ELSE "mount")
       \/ "probe" \in Faults /\ Then("none")
    /\ UNCHANGED <<content, data, mounted, fsType>>

\* ProbeFSType, and what EnsureFormatted makes of it.
Probe ==
    /\ Runs("blkid")
    /\ \/ Then(IF Detected = "" THEN "mkfs" ELSE "mount")
       \/ "probe" \in Faults /\ Then("none")
    /\ UNCHANGED <<content, data, mounted, fsType>>

\* mkfs, forced, ends or is killed on its way.
Format ==
    /\ Runs("mkfs")
    /\ data' = data \ {name}
    /\ \/ content' = [content EXCEPT ![name] = fsType[name]] /\ Then("mount")
       \/ "mkfs" \in Faults /\ content' = [content EXCEPT ![name] = "half"] /\ Then("none")
    /\ UNCHANGED <<mounted, fsType>>

\* mount finds the file system by itself; the option is not looked at.
MountFs ==
    /\ Runs("mount")
    /\ \/ content[name] \in FSTypes /\ mounted' = mounted \cup {name}
       \/ content[name] \notin FSTypes /\ UNCHANGED mounted
       \/ "mount" \in Faults /\ UNCHANGED mounted
    /\ Then("none")
    /\ UNCHANGED <<content, data, fsType>>

\* The containers write.
Write(n) ==
    /\ n \in mounted
    /\ data' = data \cup {n}
    /\ UNCHANGED <<content, mounted, command, name, fsType>>

Unmount(n) ==
    /\ Runs("none") /\ n \in mounted
    /\ command' = "umount" /\ name' = n
    /\ UNCHANGED <<content, data, mounted, fsType>>

Umount ==
    /\ Runs("umount")
    /\ \/ mounted' = mounted \ {name}
       \/ "umount" \in Faults /\ UNCHANGED mounted
    /\ Then("none")
    /\ UNCHANGED <<content, data, fsType>>

\* The plugin dies, and its command with it.
Crash ==
    /\ "crash" \in Faults /\ ~Runs("none")
    /\ \/ UNCHANGED <<content, data>>
       \/ /\ Runs("mkfs")
          /\ content' = [content EXCEPT ![name] = "half"]
          /\ data' = data \ {name}
    /\ Then("none")
    /\ UNCHANGED <<mounted, fsType>>

\* The volume is removed and its disk kept; Create adopts the disk, for whatever
\* file system the user asks.
Adopt(n) ==
    /\ Runs("none") /\ n \notin mounted
    /\ \E f \in FSTypes : fsType' = [fsType EXCEPT ![n] = f]
    /\ UNCHANGED <<content, data, mounted, command, name>>

Step == Probe \/ Format \/ MountFs \/ Umount

Next ==
    \/ \E n \in Name : Mount(n) \/ Write(n) \/ Unmount(n) \/ Adopt(n)
    \/ Step \/ Crash

Spec == Init /\ [][Next]_vars

\* Docker asks again and again for a volume that is not mounted, a command ends,
\* and one that may end well does so now and then.
FairSpec ==
    /\ Spec /\ WF_vars(Step)
    /\ \A n \in Name :
          /\ SF_vars(Mount(n))
          /\ SF_vars(name = n /\ Probe /\ command' # "none")
          /\ SF_vars(name = n /\ Format /\ command' # "none")
          /\ SF_vars(name = n /\ MountFs /\ mounted' # mounted)

(***************************************************************************)
(* Properties.                                                             *)
(***************************************************************************)
\* Whatever fails, what a disk holds is never formatted away: the device is
\* formatted "only if blank" (README.md), "never reformat" (EnsureFormatted).
KeepsData == [][data \subseteq data']_vars

\* A disk is never left in a state that no Mount gets out of, not by an
\* interrupted mkfs either: when Docker goes on asking, it gets the volume.
GetsMounted == \A n \in Name : []<>(n \in mounted)
=============================================================================
