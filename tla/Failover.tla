------------------------------ MODULE Failover ------------------------------
(***************************************************************************)
(* AttachDisk in the scope "global" (internal/gce/attach.go): the plugins   *)
(* of several VMs take one disk from each other, as Swarm moves its task.   *)
(* Each VM mounts the disk, unmounts it, and may stop, be suspended, vanish *)
(* or start again between any two calls of anybody's failover.             *)
(*                                                                         *)
(* There is one API call to detach a disk, and no flag to force it: the     *)
(* "clean", the "forced" and every other detach are the same request, and   *)
(* Compute Engine cannot tell them apart.  What it does with a disk that is *)
(* mounted, OnMounted, is therefore the same for all of them.               *)
(***************************************************************************)
EXTENDS Naturals

CONSTANTS
    Instances,          \* the VMs of the zone
    nobody,             \* the user of a disk no VM has attached
    Callers,            \* the VMs on which Docker calls Mount
    Events,             \* what happens to VMs, see EventKinds
    ApiFaults,          \* as in Compute
    OnMounted,          \* what a detach may do with a mounted disk, see Effects
    ForceDetachAfter,   \* the configured grace, in polls of one second
    DefaultForceDetachAfter,
    OpTimeout           \* the deadline of Mount's context, in polls

\* A VM shuts down, is suspended, ends without shutting down, is deleted, or
\* starts again.
EventKinds == {"stop", "suspend", "crash", "delete", "restart"}

\* It is taken from the VM, under its file system, or left to it.
Effects == {"taken", "left"}

ASSUME FailoverAssumption ==
    /\ nobody \notin Instances
    /\ Callers \subseteq Instances
    /\ Events \subseteq EventKinds
    /\ ApiFaults \subseteq {"error", "lost"}
    /\ OnMounted \subseteq Effects /\ OnMounted # {}
    /\ ForceDetachAfter \in Nat
    /\ DefaultForceDetachAfter \in Nat
    /\ OpTimeout \in Nat

VARIABLES
    user,       \* the VM the disk is attached to
    status,     \* of each VM; "" when there is none
    fs,         \* its file system: none, live, or torn (the disk is gone)
    pc,         \* the step of its Mount or Unmount
    holder,     \* AttachDisk: the user its first Get has found
    waited,     \* ensureDetachedFromHolder: polls that found the disk still held
    stale       \* history: the holder has started again since its status was read

vars == <<user, status, fs, pc, holder, waited, stale>>

Statuses == {"RUNNING", "STOPPING", "SUSPENDING", "SUSPENDED", "TERMINATED", ""}
TakeSteps == {"down", "clean", "force"}
DetachSteps == TakeSteps \cup {"own"}
Calls == {"get", "state", "reget", "attach", "release"} \cup DetachSteps
Steps == {"idle", "poll", "mount"} \cup Calls

\* Every variable has its type.
TypeOK ==
    /\ user \in Instances \cup {nobody}
    /\ status \in [Instances -> Statuses]
    /\ fs \in [Instances -> {"none", "live", "torn"}]
    /\ pc \in [Instances -> Steps]
    /\ holder \in [Instances -> Instances \cup {nobody}]
    /\ waited \in [Instances -> Nat]
    /\ stale \in [Instances -> BOOLEAN]

\* A configured zero is taken for no configuration.
Grace == IF ForceDetachAfter = 0 THEN DefaultForceDetachAfter ELSE ForceDetachAfter

\* The task runs on one VM, the others are idle.
Init ==
    /\ user \in Instances
    /\ status = [v \in Instances |-> "RUNNING"]
    /\ fs = [v \in Instances |-> IF v = user THEN "live" ELSE "none"]
    /\ pc = [v \in Instances |-> "idle"]
    /\ holder = [v \in Instances |-> nobody]
    /\ waited = [v \in Instances |-> 0]
    /\ stale = [v \in Instances |-> FALSE]

\* The plugin of v is at the step, and goes to another.
At(v, step) == pc[v] = step
Goto(v, step) == pc' = [pc EXCEPT ![v] = step]
Up(v) == status[v] \in {"RUNNING", "STOPPING", "SUSPENDING"}

(***************************************************************************)
(* AttachDisk.                                                             *)
(***************************************************************************)
Mount(v) ==
    /\ v \in Callers /\ status[v] = "RUNNING"
    /\ At(v, "idle") /\ fs[v] = "none"
    /\ Goto(v, "get")
    /\ UNCHANGED <<user, status, fs, holder, waited, stale>>

Get(v) ==
    /\ At(v, "get")
    /\ Goto(v, CASE user = v -> "mount" [] user = nobody -> "attach" [] OTHER -> "state")
    /\ holder' = [holder EXCEPT ![v] = user]
    /\ UNCHANGED <<user, status, fs, waited, stale>>

IsHolderDown(s) ==
    s \in {"", "TERMINATED", "STOPPED", "STOPPING", "SUSPENDED", "SUSPENDING"}

ReadState(v) ==
    /\ At(v, "state")
    /\ Goto(v, IF IsHolderDown(status[holder[v]]) THEN "down" ELSE "clean")
    /\ stale' = [stale EXCEPT ![v] = FALSE]
    /\ UNCHANGED <<user, status, fs, holder, waited>>

\* The instance a detach names: the holder that was found, or the VM itself.
Target(v) == IF pc[v] = "own" THEN v ELSE holder[v]

\* What the request does to a disk that is attached to h.  It leaves at most a
\* mounted one where it is.
Takes(h) ==
    /\ fs[h] = "live" => "taken" \in OnMounted
    /\ user' = nobody
    /\ fs' = [fs EXCEPT ![h] = IF @ = "live" THEN "torn" ELSE @]

Leaves(h) ==
    /\ fs[h] = "live" /\ "left" \in OnMounted
    /\ UNCHANGED <<user, fs>>

\* detachFromInstance, for each of its callers: an error unless the disk is
\* attached to the instance.
Detach(v) ==
    /\ pc[v] \in DetachSteps
    /\ LET next == CASE pc[v] = "clean" -> "poll" [] pc[v] = "own" -> "idle"
                     [] OTHER -> "reget" IN
       \/ user # Target(v) /\ Goto(v, "idle") /\ UNCHANGED <<user, fs>>
       \/ /\ user = Target(v)
          /\ Takes(Target(v)) \/ Leaves(Target(v))
          /\ \/ Goto(v, next)
             \/ "lost" \in ApiFaults /\ Goto(v, "idle")
    /\ waited' = [waited EXCEPT ![v] = 0]
    /\ UNCHANGED <<status, holder, stale>>

\* A wait that knows no deadline of its own.
Poll_WaitsForever(v) ==
    /\ At(v, "poll")
    /\ \/ user # holder[v] /\ Goto(v, "reget") /\ UNCHANGED waited
       \/ /\ user = holder[v]
          /\ waited' = [waited EXCEPT ![v] = IF @ > Grace THEN @ ELSE @ + 1]
          /\ UNCHANGED pc
    /\ UNCHANGED <<user, status, fs, holder, stale>>

\* A wait that gives up at the first sight of the holder.
Poll_NoGrace(v) ==
    /\ At(v, "poll")
    /\ \/ user # holder[v] /\ Goto(v, "reget")
       \/ user = holder[v] /\ Goto(v, "force")
    /\ UNCHANGED <<user, status, fs, holder, waited, stale>>

\* One turn of the loop.  The context may end before the grace does.
Poll(v) ==
    /\ At(v, "poll")
    /\ \/ user # holder[v] /\ Goto(v, "reget") /\ UNCHANGED waited
       \/ /\ user = holder[v] /\ waited[v] > Grace
          /\ Goto(v, "force") /\ UNCHANGED waited
       \/ /\ user = holder[v] /\ waited[v] <= Grace /\ waited[v] < OpTimeout
          /\ waited' = [waited EXCEPT ![v] = @ + 1] /\ UNCHANGED pc
       \/ waited[v] >= OpTimeout /\ Goto(v, "idle") /\ UNCHANGED waited
    /\ UNCHANGED <<user, status, fs, holder, stale>>

\* The disk is read again, for its self-link: its users are not looked at.
Reget(v) ==
    /\ At(v, "reget")
    /\ Goto(v, "attach")
    /\ UNCHANGED <<user, status, fs, holder, waited, stale>>

Attach(v) ==
    /\ At(v, "attach")
    /\ IF user = nobody
       THEN /\ user' = v
            /\ \/ Goto(v, "mount")
               \/ "lost" \in ApiFaults /\ Goto(v, "idle")
       ELSE Goto(v, "idle") /\ UNCHANGED user
    /\ UNCHANGED <<status, fs, holder, waited, stale>>

\* The device is there only while the disk is attached.  Without it Mount fails,
\* and releases the disk.
MountFs(v) ==
    /\ At(v, "mount")
    /\ \/ user = v /\ fs' = [fs EXCEPT ![v] = "live"] /\ Goto(v, "idle")
       \/ user # v /\ UNCHANGED fs /\ Goto(v, "release")
    /\ UNCHANGED <<user, status, holder, waited, stale>>

\* A call fails without effect, and the operation with it.
Fail(v) ==
    /\ "error" \in ApiFaults /\ Up(v)
    /\ pc[v] \in Calls \cup {"poll"}
    /\ Goto(v, "idle")
    /\ UNCHANGED <<user, status, fs, holder, waited, stale>>

(***************************************************************************)
(* Unmount.                                                                *)
(***************************************************************************)
Unmount(v) ==
    /\ Up(v) /\ At(v, "idle") /\ fs[v] # "none"
    /\ fs' = [fs EXCEPT ![v] = "none"]
    /\ Goto(v, "release")
    /\ UNCHANGED <<user, status, holder, waited, stale>>

\* DetachDisk, its Get: nothing to do when the disk has been taken.
Release(v) ==
    /\ At(v, "release")
    /\ Goto(v, IF user = v THEN "own" ELSE "idle")
    /\ UNCHANGED <<user, status, fs, holder, waited, stale>>

(***************************************************************************)
(* The VMs.  A stopped VM keeps its disk, a deleted one gives it back; a    *)
(* suspended one keeps its disk, its mounts and its plugin, and goes on      *)
(* with them when it is resumed.                                           *)
(***************************************************************************)
Ends(v, s) ==
    /\ status' = [status EXCEPT ![v] = s]
    /\ fs' = [fs EXCEPT ![v] = "none"]
    /\ Goto(v, "idle")
    /\ UNCHANGED <<holder, waited, stale>>

Stop(v) ==
    /\ "stop" \in Events /\ status[v] = "RUNNING"
    /\ status' = [status EXCEPT ![v] = "STOPPING"]
    /\ UNCHANGED <<user, fs, pc, holder, waited, stale>>

Terminate(v) ==
    /\ status[v] = "STOPPING" \/ ("crash" \in Events /\ status[v] = "RUNNING")
    /\ Ends(v, "TERMINATED")
    /\ UNCHANGED user

Delete(v) ==
    /\ "delete" \in Events /\ status[v] # ""
    /\ Ends(v, "")
    /\ user' = IF user = v THEN nobody ELSE user

Suspend(v) ==
    /\ \/ /\ "suspend" \in Events /\ status[v] = "RUNNING"
          /\ status' = [status EXCEPT ![v] = "SUSPENDING"]
       \/ /\ status[v] = "SUSPENDING"
          /\ status' = [status EXCEPT ![v] = "SUSPENDED"]
    /\ UNCHANGED <<user, fs, pc, holder, waited, stale>>

\* A VM is created, started or resumed.
Restart(v) ==
    /\ "restart" \in Events /\ status[v] \in {"TERMINATED", "SUSPENDED", ""}
    /\ status' = [status EXCEPT ![v] = "RUNNING"]
    /\ stale' = [w \in Instances |-> stale[w] \/ holder[w] = v]
    /\ UNCHANGED <<user, fs, pc, holder, waited>>

Step(v) ==
    /\ Up(v)
    /\ \/ Get(v) \/ ReadState(v) \/ Detach(v) \/ Poll(v) \/ Reget(v) \/ Attach(v)
       \/ MountFs(v) \/ Release(v)

Next ==
    \E v \in Instances :
        \/ Mount(v) \/ Step(v) \/ Fail(v) \/ Unmount(v)
        \/ Stop(v) \/ Suspend(v) \/ Terminate(v) \/ Delete(v) \/ Restart(v)

Spec == Init /\ [][Next]_vars

\* The calls of a plugin return, and Swarm asks again while the task is not up.
FairSpec == Spec /\ \A v \in Callers : WF_vars(Step(v)) /\ WF_vars(Mount(v))

(***************************************************************************)
(* Properties.                                                             *)
(***************************************************************************)
\* The disk is taken under the file system of v.
Torn(v) == fs[v] = "live" /\ fs'[v] = "torn"

\* The fencing rules of ensureDetachedFromHolder, as far as they hold.  A mounted
\* file system loses its disk to the failover of another VM only, never to the
\* plugin that released it and never to a failover that found somebody else: to the
\* immediate detach if its VM was not running or has started again since it was
\* looked at, to the second one of a running VM only after the whole grace.
Fenced ==
    [][\A v \in Instances :
          Torn(v) =>
              \E w \in Instances \ {v} :
                  /\ holder[w] = v /\ pc'[w] # pc[w]
                  /\ \/ pc[w] = "down" /\ (status[v] # "RUNNING" \/ stale[w])
                     \/ pc[w] = "clean"
                     \/ pc[w] = "force" /\ waited[w] > Grace]_vars

\* "Up to GCEPD_FORCE_DETACH_AFTER for the disk to be released. If it releases, B
\* attaches it. If not, the plugin forces the detach" (README.md:276): a running VM
\* is cut off from the disk it has mounted after the grace only, unless it was down
\* when it was looked at and has started again since.  The detach before the grace
\* is the same request as the one after it, and takes the disk (see the README).
GraceGiven ==
    [][\A v \in Instances :
          Torn(v) /\ status[v] = "RUNNING" =>
              \E w \in Instances :
                  /\ holder[w] = v /\ pc'[w] # pc[w]
                  /\ \/ pc[w] = "force" /\ waited[w] > Grace
                     \/ pc[w] = "down" /\ stale[w]]_vars

\* A holder taken for down "cannot be writing" (ensureDetachedFromHolder): one that
\* is STOPPING can (see the README).
DownIsNotWriting ==
    [][\A v, w \in Instances :
          Torn(v) => ~(pc[w] = "down" /\ pc'[w] # "down" /\ holder[w] = v)]_vars

\* The plugin waits "up to GCEPD_FORCE_DETACH_AFTER" (README.md) and no longer,
\* unless that is zero (see the README).
WaitsAtMostTheGrace ==
    \A v \in Instances : waited[v] <= ForceDetachAfter + 1

\* A call of v's plugin fails although the zone was in its favour, and there was
\* time for it.
CallFails(v) ==
    \/ Fail(v) /\ (At(v, "poll") => waited[v] < OpTimeout)
    \/ Detach(v) /\ user = Target(v) /\ pc'[v] = "idle"
    \/ Detach(v) /\ pc[v] \in {"down", "force"} /\ user = holder[v] /\ user' = user
    \/ Attach(v) /\ user = nobody /\ pc'[v] = "idle"

\* The task stays on v: no other VM asks for the disk any more, v is not stopped
\* again, and its calls do not fail for ever, nor is the disk left for ever to a VM
\* that is down or has had its grace.
TaskStays(v) ==
    /\ <>[](status[v] = "RUNNING")
    /\ <>[][\A w \in Instances \ {v} : ~Mount(w)]_vars
    /\ <>[][~CallFails(v)]_vars

\* "A rescheduled task must get its volume even if the old VM is unresponsive"
\* (ensureDetachedFromHolder): wherever the disk is, and whatever became of the
\* VM that had it.
TaskGetsItsVolume ==
    \A v \in Callers : TaskStays(v) => (fs[v] = "none" ~> fs[v] = "live")
=============================================================================
