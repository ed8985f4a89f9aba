------------------------------ MODULE Deadlines ------------------------------
(***************************************************************************)
(* The time an operation of the plugin takes: the contexts and timeouts of  *)
(* internal/driver and of the startup, the retries and waits of             *)
(* internal/gce, the failover of the scope "global", the wait for the       *)
(* device and the commands of internal/mount.                              *)
(*                                                                         *)
(* An operation is a sequence of stages that share one context.  A step     *)
(* takes as long as it takes, up to the limit the code puts to it, and the  *)
(* zone goes on with a change it has accepted after nobody waits for it.    *)
(***************************************************************************)
EXTENDS Integers, Sequences

CONSTANTS
    OpTimeout,          \* of the context of a driver operation
    StartupTimeout,     \* of the context of the startup
    WaitTimeout,        \* Config.OpTimeout, of one waitOp
    MetadataTimeout,    \* of one request to the metadata server
    DeviceTimeout,      \* of WaitForDevice
    PollInterval,       \* of WaitForDevice
    ForceDetachAfter,   \* the grace of a failover
    ReleaseInterval,    \* the sleep between two looks at a disk in the grace
    InitialInterval, MaxInterval, Multiplier, MaxElapsed,   \* BackoffConfig
    Errors              \* what the API may answer, a subset of ApiErrors

\* 429, a 5xx, a connection that fails as gRPC says it, and all the others.
ApiErrors == {"throttled", "server", "unavailable", "client"}
IsRetryable(e) == e \in {"throttled", "server", "unavailable"}

ASSUME DeadlinesAssumption ==
    /\ {OpTimeout, StartupTimeout, WaitTimeout, MetadataTimeout, DeviceTimeout,
        PollInterval, ReleaseInterval, InitialInterval, MaxInterval, Multiplier, MaxElapsed}
          \subseteq Nat \ {0}
    /\ ForceDetachAfter \in Nat
    /\ InitialInterval <= MaxInterval
    /\ Errors \subseteq ApiErrors

Reads == {"get", "list", "state", "released"}
Changes == {"insert", "setLabels", "snapshot", "delete", "attach", "detach", "take"}

\* The stages of each operation.  "failover" is how AttachDisk takes the disk from
\* its holder, "detach" what Mount leaves with when the device or a command fails,
\* "unmount" when the count cannot be written, and "delete" how Create rolls back:
\* these share the context of the operation they belong to.  A stage that the code
\* leaves out, as it does with a snapshot nobody asked for, is one that takes no time.
Stages ==
    [startup |-> <<"metadata", "metadata", "metadata", "metadata", "list">>,
     create  |-> <<"get", "insert", "get">>,
     delete  |-> <<"get", "get", "setLabels", "snapshot", "delete">>,
     mount   |-> <<"get", "attach", "device", "command">>,
     failover |-> <<"state", "take", "released", "take", "get">>,
     detach  |-> <<"get", "detach">>,
     unmount |-> <<"command", "get", "detach">>]

Operations == DOMAIN Stages
Calls == Operations \ {"detach", "failover"}

VARIABLES
    op,         \* the operation, or "none"
    i,          \* its stage
    sub,        \* of a stage that calls the API: call, wait, backoff, sleep
    now,        \* since the context was made
    entered,    \* when the stage began
    start,      \* when its retry began
    interval,   \* of the backoff
    change,     \* the change that the zone has accepted and not finished
    attached    \* the disk is attached to this VM

vars == <<op, i, sub, now, entered, start, interval, change, attached>>

\* Every variable has its type.
TypeOK ==
    /\ op \in Operations \cup {"none"}
    /\ i \in Nat
    /\ sub \in {"call", "wait", "backoff", "sleep"}
    /\ {now, entered, start, interval} \subseteq Nat
    /\ change \in Changes \cup {"none"}
    /\ attached \in BOOLEAN

Lesser(a, b) == IF a <= b THEN a ELSE b
LongestPoll == IF PollInterval <= ReleaseInterval THEN ReleaseInterval ELSE PollInterval

Stage == Stages[op][i]
In(stages) == op # "none" /\ Stage \in stages
Deadline == IF op = "startup" THEN StartupTimeout ELSE OpTimeout
Expired == now >= Deadline

\* The step takes some time, which ends with the limit or with the context.
Takes(limit) ==
    IF Expired THEN now' = now ELSE now' \in now .. Lesser(limit, Deadline)
TimesOut(limit) == now' >= Lesser(limit, Deadline)

\* A retry begins; a stage, and with it its retry; a stage goes on.
Attempts == sub' = "call" /\ start' = now' /\ interval' = InitialInterval
Enter(o, k) == op' = o /\ i' = k /\ entered' = now' /\ Attempts
Pause(s) == sub' = s /\ UNCHANGED <<op, i, entered, start, interval>>
End == op' = "none" /\ sub' = "call" /\ UNCHANGED <<i, entered, start, interval>>

\* The last stage may be followed by a write of the store that fails.
Finish ==
    \/ End
    \/ op = "create" /\ Enter("delete", 1)
    \/ op = "mount" /\ Enter("unmount", 1)

Advance ==
    CASE i < Len(Stages[op]) -> Enter(op, i + 1)
      [] op = "failover" -> Enter("mount", 2)
      [] OTHER -> Finish

\* Once the disk is attached, Mount does not fail without a detach.
Fail == IF op = "mount" /\ i > 2 THEN Enter("detach", 1) ELSE End

Init ==
    /\ op = "none" /\ i = 0 /\ sub = "call"
    /\ now = 0 /\ entered = 0 /\ start = 0 /\ interval = InitialInterval
    /\ change = "none" /\ attached = FALSE

Begin(o) ==
    /\ op = "none"
    /\ now' = 0
    /\ Enter(o, 1)
    /\ UNCHANGED <<change, attached>>

(***************************************************************************)
(* retry, and the closures it runs: a call, and waitOp when the call starts *)
(* an operation of the zone.  An error of either is tried again; that the   *)
(* context has ended is no such error, nor that waitOp has.                 *)
(***************************************************************************)
Refused ==
    \/ /\ ~Expired
       /\ \E e \in Errors :
             IF IsRetryable(e)
             THEN Pause("backoff")
             ELSE Fail
    \/ TimesOut(Deadline) /\ Fail

\* What follows a read.  Mount may find the disk here, free, or with another VM:
\* it fails over to this one, or, in the scope local, fails.
Answered ==
    CASE op = "mount" /\ attached -> Enter(op, 3)
      [] op = "mount" /\ ~attached -> Advance \/ Enter("failover", 1) \/ End
      [] op \in {"detach", "unmount"} /\ ~attached -> End
      [] OTHER -> Advance

Read ==
    /\ In({"get", "list"}) /\ sub = "call"
    /\ Takes(Deadline)
    /\ (~Expired /\ Answered) \/ Refused
    /\ UNCHANGED <<change, attached>>

\* The status of the holder: it is up and gets a clean detach and the grace, or it
\* is down, and the disk is detached for good.
HolderState ==
    /\ In({"state"}) /\ sub = "call"
    /\ Takes(Deadline)
    /\ (~Expired /\ (Enter(op, 2) \/ Enter(op, 4))) \/ Refused
    /\ UNCHANGED <<change, attached>>

\* One look of the grace loop: the disk is released; or the grace is over; or the
\* context is, and the loop ends; or it sleeps.
Released ==
    /\ In({"released"}) /\ sub = "call"
    /\ Takes(Deadline)
    /\ \/ ~Expired /\ Enter(op, 5)
       \/ ~Expired /\ now' - entered > ForceDetachAfter /\ Enter(op, 4)
       \/ ~Expired /\ now' - entered <= ForceDetachAfter
          /\ IF now' >= Deadline THEN Fail ELSE Pause("sleep")
       \/ Refused
    /\ UNCHANGED <<change, attached>>

\* The sleep of the loop, which the context does not end.
ReleaseSleep ==
    /\ In({"released"}) /\ sub = "sleep"
    /\ now' = now + ReleaseInterval
    /\ Attempts
    /\ UNCHANGED <<op, i, entered, change, attached>>

Call ==
    /\ In(Changes) /\ sub = "call"
    /\ Takes(Deadline)
    /\ \/ /\ ~Expired /\ change = "none"
          /\ change' = Stage
          /\ Pause("wait")
       \/ Refused /\ UNCHANGED change
    /\ UNCHANGED attached

\* The effect of the accepted change.
Completes ==
    /\ change # "none"
    /\ change' = "none"
    /\ attached' = CASE change = "attach" -> TRUE
                     [] change = "detach" -> FALSE
                     [] OTHER -> attached

WaitOp ==
    /\ In(Changes) /\ sub = "wait"
    /\ Takes(now + WaitTimeout)
    /\ \/ /\ ~Expired
          /\ Completes \/ (change = "none" /\ UNCHANGED <<change, attached>>)
          /\ Advance
       \/ /\ Refused \/ (TimesOut(now + WaitTimeout) /\ Fail)
          /\ UNCHANGED <<change, attached>>

\* A backoff that grows without the cap.
Backoff_NoCap ==
    /\ op # "none" /\ sub = "backoff"
    /\ IF now - start >= MaxElapsed THEN UNCHANGED now /\ Fail
       ELSE \/ /\ now' \in now .. Lesser(now + interval, Deadline)
               /\ sub' = "call"
               /\ interval' = interval * Multiplier
               /\ UNCHANGED <<op, i, entered, start>>
            \/ now + interval >= Deadline /\ now' = Deadline /\ Fail
    /\ UNCHANGED <<change, attached>>

\* The time is looked at before the sleep; the context ends the sleep.
Backoff ==
    /\ op # "none" /\ sub = "backoff"
    /\ IF now - start >= MaxElapsed THEN UNCHANGED now /\ Fail
       ELSE \/ /\ now' \in now .. Lesser(now + interval, Deadline)
               /\ sub' = "call"
               /\ interval' = Lesser(interval * Multiplier, MaxInterval)
               /\ UNCHANGED <<op, i, entered, start>>
            \/ now + interval >= Deadline /\ now' = Deadline /\ Fail
    /\ UNCHANGED <<change, attached>>

\* The zone ends the change, whether or not anybody waits for it.
ZoneCompletes ==
    /\ Completes
    /\ UNCHANGED <<op, i, sub, now, entered, start, interval>>

(***************************************************************************)
(* The stages on the host.                                                 *)
(***************************************************************************)
\* A WaitForDevice that knows its own timeout only.
WaitForDevice_NoContext ==
    /\ In({"device"}) /\ sub = "call"
    /\ \/ attached /\ UNCHANGED now /\ Advance
       \/ now - start > DeviceTimeout /\ UNCHANGED now /\ Fail
       \/ /\ now - start <= DeviceTimeout
          /\ now' = now + PollInterval
          /\ Pause("call")
    /\ UNCHANGED <<change, attached>>

\* One turn of the loop: the device, the timeout, the context, a sleep.
WaitForDevice ==
    /\ In({"device"}) /\ sub = "call"
    /\ \/ attached /\ UNCHANGED now /\ Advance
       \/ (now - start > DeviceTimeout \/ Expired) /\ UNCHANGED now /\ Fail
       \/ /\ now - start <= DeviceTimeout /\ ~Expired
          /\ now' = now + PollInterval
          /\ Pause("call")
    /\ UNCHANGED <<change, attached>>

\* A command of the host, killed at the end of the context.  Unmount has
\* nothing to run when nothing is mounted.
Command ==
    /\ In({"command"}) /\ sub = "call"
    /\ Takes(Deadline)
    /\ \/ (Expired => op = "unmount") /\ Advance
       \/ Fail
    /\ UNCHANGED <<change, attached>>

\* A request to the metadata server: OnGCE, and the three of Fetch.
Metadata ==
    /\ In({"metadata"}) /\ sub = "call"
    /\ Takes(now + MetadataTimeout)
    /\ \/ ~Expired /\ Advance
       \/ Fail
    /\ UNCHANGED <<change, attached>>

Next ==
    \/ \E o \in Calls : Begin(o)
    \/ Read \/ HolderState \/ Released \/ ReleaseSleep
    \/ Call \/ WaitOp \/ Backoff \/ ZoneCompletes
    \/ WaitForDevice \/ Command \/ Metadata

Spec == Init /\ [][Next]_vars

(***************************************************************************)
(* Properties.                                                             *)
(***************************************************************************)
\* "opTimeout bounds a single driver operation end-to-end" (driver.go), and
\* startupTimeout the startup: whatever the stages wait for, with the unwinding
\* and the rollback, d.mu is given back by the deadline and one poll, of the device
\* or of a disk that another VM has to release.
ReturnsInTime == op # "none" => now <= Deadline + LongestPoll

\* The last attempt of a retry begins before the longest sleep after MaxElapsed.
LastAttempt ==
    op # "none" /\ sub = "call" /\ Stage \in Reads \cup Changes =>
        now - start < MaxElapsed + MaxInterval

(***************************************************************************)
(* What comments of the code say, and the code does not do (see the README). *)
(***************************************************************************)
\* BackoffConfig: "give up after this much total time", MaxElapsed.
GivesUpInTime ==
    op # "none" /\ sub = "call" /\ Stage \in Reads \cup Changes =>
        now - start <= MaxElapsed

\* "This backoff is only for the API call itself returning an error"
\* (BackoffConfig): a change that the zone has accepted is not asked for again.
AcceptedOnce == [][sub = "backoff" /\ sub' = "call" /\ op' = op => change # Stage]_vars

\* "Best-effort detach so we don't leave a dangling attachment" (Mount).
NoDanglingAttachment == [][op = "detach" /\ op' = "none" => ~attached]_vars
=============================================================================
