---------------------------- MODULE FailoverProofs ----------------------------
(***************************************************************************)
(* A failover keeps the fencing rules, for any number of VMs that take the  *)
(* disk from each other, whatever fails, whatever the VMs do, and whatever   *)
(* Compute Engine does with a disk that is mounted.                        *)
(***************************************************************************)
EXTENDS Failover, TLAPS

\* What an AttachDisk knows of the VM it takes the disk from, which is another,
\* and that an operation works on a VM where the disk is not mounted.
HolderInv ==
    \A w \in Instances :
        /\ pc[w] \in {"state", "poll"} \cup TakeSteps => holder[w] \in Instances \ {w}
        /\ pc[w] = "down" => status[holder[w]] # "RUNNING" \/ stale[w]
        /\ pc[w] = "force" => waited[w] > Grace
        /\ fs[w] = "live" => pc[w] = "idle"

Inv == TypeOK /\ HolderInv

LEMMA InvInit == Init => Inv
<1> SUFFICES ASSUME Init PROVE Inv
  OBVIOUS
<1>1. TypeOK
  BY DEF Init, TypeOK, Statuses, Steps
<1>2. HolderInv
  BY DEF Init, HolderInv, TakeSteps
<1> QED
  BY <1>1, <1>2 DEF Inv

\* Steps of one plugin that change nothing the others rely on: the statuses.
LEMMA OneStep ==
    ASSUME Inv, TypeOK', NEW v \in Instances, UNCHANGED status,
           \A w \in Instances : w # v =>
              /\ pc'[w] = pc[w] /\ holder'[w] = holder[w]
              /\ waited'[w] = waited[w] /\ stale'[w] = stale[w]
              /\ fs'[w] = "live" => fs[w] = "live",
           pc'[v] \in {"state", "poll"} \cup TakeSteps => holder'[v] \in Instances \ {v},
           pc'[v] = "down" => status[holder'[v]] # "RUNNING" \/ stale'[v],
           pc'[v] = "force" => waited'[v] > Grace,
           fs'[v] = "live" => pc'[v] = "idle"
    PROVE  Inv'
BY DEF Inv, HolderInv

LEMMA StepKeeps ==
    ASSUME Inv, NEW v \in Instances,
           Mount(v) \/ Step(v) \/ Fail(v) \/ Unmount(v)
    PROVE  Inv'
<1>t. TypeOK
  BY DEF Inv
<1>h. /\ pc[v] \in {"state", "poll"} \cup TakeSteps => holder[v] \in Instances \ {v}
      /\ fs[v] = "live" => pc[v] = "idle"
      /\ holder[v] \in Instances \cup {nobody} /\ waited[v] \in Nat
  BY DEF Inv, HolderInv, TypeOK
<1> USE <1>t, <1>h DEF At, Goto, Steps, Calls, DetachSteps, TakeSteps
<1>1. CASE Mount(v)
  BY <1>1, OneStep DEF Mount, TypeOK
<1>2. CASE Get(v)
  BY <1>2, OneStep, FailoverAssumption DEF Get, TypeOK
<1>3. CASE ReadState(v)
  <2>1. TypeOK'
    BY <1>3 DEF ReadState, TypeOK
  <2>2. pc'[v] = "down" => status[holder[v]] # "RUNNING"
    BY <1>3 DEF ReadState, TypeOK, IsHolderDown
  <2> QED
    BY <1>3, <2>1, <2>2, OneStep DEF ReadState, TypeOK
<1>4. CASE Detach(v)
  <2>1. /\ pc'[v] \in {"poll", "reget", "idle"} /\ pc' = [pc EXCEPT ![v] = pc'[v]]
        /\ waited' = [waited EXCEPT ![v] = 0]
        /\ UNCHANGED <<status, holder, stale>>
    BY <1>4 DEF Detach, TypeOK
  <2>2. /\ user' \in Instances \cup {nobody} /\ fs' \in [Instances -> {"none", "live", "torn"}]
        /\ \A w \in Instances : fs'[w] = "live" => fs[w] = "live"
    BY <1>4 DEF Detach, Takes, Leaves, TypeOK
  <2>3. TypeOK'
    <3>1. pc' \in [Instances -> Steps] /\ waited' \in [Instances -> Nat]
      BY ONLY <1>t, <2>1, v \in Instances DEF TypeOK, Steps, Calls
    <3> QED
      BY ONLY <1>t, <2>1, <2>2, <3>1 DEF TypeOK
  <2>4. pc'[v] = "poll" => holder[v] \in Instances \ {v}
    BY <1>4 DEF Detach, TypeOK
  <2>5. fs'[v] # "live"
    BY <1>4, <2>2 DEF Detach
  <2> QED
    BY <2>1, <2>2, <2>3, <2>4, <2>5, OneStep DEF TypeOK
<1>5. CASE Poll(v)
  <2>1. TypeOK'
    BY <1>5 DEF Poll, TypeOK
  <2>2. pc'[v] = "force" => waited'[v] > Grace
    BY <1>5 DEF Poll, TypeOK
  <2> QED
    BY <1>5, <2>1, <2>2, OneStep DEF Poll, TypeOK
<1>6. CASE Reget(v)
  BY <1>6, OneStep DEF Reget, TypeOK
<1>7. CASE Attach(v)
  BY <1>7, OneStep DEF Attach, TypeOK
<1>8. CASE MountFs(v)
  BY <1>8, OneStep DEF MountFs, TypeOK
<1>9. CASE Release(v)
  BY <1>9, OneStep DEF Release, TypeOK
<1>10. CASE Fail(v)
  BY <1>10, OneStep DEF Fail, TypeOK
<1>11. CASE Unmount(v)
  BY <1>11, OneStep DEF Unmount, TypeOK
<1> QED
  BY <1>1, <1>2, <1>3, <1>4, <1>5, <1>6, <1>7, <1>8, <1>9, <1>10, <1>11 DEF Step

\* A VM that is not running stays so, or those that look at it are marked.
LEMMA EventKeeps ==
    ASSUME Inv, NEW v \in Instances,
           Stop(v) \/ Suspend(v) \/ Terminate(v) \/ Delete(v) \/ Restart(v)
    PROVE  Inv'
<1>t. TypeOK
  BY DEF Inv
<1>1. /\ status' \in [Instances -> Statuses]
      /\ stale' \in [Instances -> BOOLEAN]
      /\ \A w \in Instances : stale[w] => stale'[w]
      /\ \A w \in Instances :
            holder[w] \in Instances /\ status[holder[w]] # "RUNNING" =>
                status'[holder[w]] # "RUNNING" \/ stale'[w]
      /\ UNCHANGED <<holder, waited>>
      /\ pc' = pc \/ pc' = [pc EXCEPT ![v] = "idle"]
      /\ \A w \in Instances : fs'[w] = "live" => fs[w] = "live"
  <2>1. CASE Stop(v)
    BY <1>t, <2>1 DEF Stop, TypeOK, Statuses
  <2>2. CASE Terminate(v)
    BY <1>t, <2>2 DEF Terminate, Ends, Goto, TypeOK, Statuses
  <2>3. CASE Delete(v)
    BY <1>t, <2>3 DEF Delete, Ends, Goto, TypeOK, Statuses
  <2>4. CASE Restart(v)
    <3>1. ASSUME NEW w \in Instances, holder[w] # v, holder[w] \in Instances
          PROVE  status'[holder[w]] = status[holder[w]]
      BY <1>t, <2>4, <3>1 DEF Restart, TypeOK
    <3>2. ASSUME NEW w \in Instances
          PROVE  (stale[w] \/ holder[w] = v) = stale'[w]
      BY <2>4 DEF Restart
    <3>3. status' \in [Instances -> Statuses] /\ stale' \in [Instances -> BOOLEAN]
      BY <1>t, <2>4 DEF Restart, TypeOK, Statuses
    <3>4. UNCHANGED <<holder, waited, pc, fs>>
      BY <2>4 DEF Restart
    <3> QED
      BY <3>1, <3>2, <3>3, <3>4
  <2>5. CASE Suspend(v)
    BY <1>t, <2>5 DEF Suspend, TypeOK, Statuses
  <2> QED
    BY <2>1, <2>2, <2>3, <2>4, <2>5
<1>2. user' \in Instances \cup {nobody} /\ fs' \in [Instances -> {"none", "live", "torn"}]
  BY <1>t DEF Stop, Suspend, Terminate, Delete, Restart, Ends, TypeOK
<1>3. TypeOK'
  BY <1>t, <1>1, <1>2 DEF TypeOK, Steps
<1>4. HolderInv'
  BY <1>t, <1>1 DEF Inv, HolderInv, TypeOK, TakeSteps
<1> QED
  BY <1>3, <1>4 DEF Inv

LEMMA InvNext ==
    ASSUME Inv, [Next]_vars
    PROVE  Inv'
<1>1. CASE Next
  BY <1>1, StepKeeps, EventKeeps DEF Next
<1>2. CASE UNCHANGED vars
  BY <1>2 DEF vars, Inv, TypeOK, HolderInv
<1> QED
  BY <1>1, <1>2

\* Only a detach tears, and only that of a failover from another VM.
TornByRules ==
    \A v \in Instances :
        Torn(v) =>
            \E w \in Instances \ {v} :
                /\ holder[w] = v /\ pc'[w] # pc[w]
                /\ \/ pc[w] = "down" /\ (status[v] # "RUNNING" \/ stale[w])
                   \/ pc[w] = "clean"
                   \/ pc[w] = "force" /\ waited[w] > Grace

LEMMA TearsByRules ==
    ASSUME Inv, [Next]_vars
    PROVE  TornByRules
<1> SUFFICES ASSUME NEW v \in Instances, Torn(v)
             PROVE  \E w \in Instances \ {v} :
                       /\ holder[w] = v /\ pc'[w] # pc[w]
                       /\ \/ pc[w] = "down" /\ (status[v] # "RUNNING" \/ stale[w])
                          \/ pc[w] = "clean"
                          \/ pc[w] = "force" /\ waited[w] > Grace
  BY DEF TornByRules
<1>t. TypeOK
  BY DEF Inv
<1>1. PICK w \in Instances : Detach(w)
  <2>1. ASSUME NEW u \in Instances,
               \/ Mount(u) \/ Get(u) \/ ReadState(u) \/ Poll(u) \/ Reget(u) \/ Attach(u)
               \/ MountFs(u) \/ Release(u) \/ Fail(u) \/ Unmount(u)
               \/ Stop(u) \/ Suspend(u) \/ Terminate(u) \/ Delete(u) \/ Restart(u)
        PROVE  FALSE
    BY <1>t, <2>1 DEF Torn, TypeOK, Mount, Get, ReadState, Poll, Reget, Attach, MountFs,
       Release, Fail, Unmount, Stop, Suspend, Terminate, Delete, Restart, Ends
  <2>2. fs' # fs
    BY DEF Torn
  <2> QED
    BY <2>1, <2>2 DEF Next, Step, vars
<1>2. Target(w) = v /\ fs[v] = "live"
  BY <1>t, <1>1 DEF Detach, Takes, Leaves, Torn, TypeOK
<1>3. pc[w] \in TakeSteps /\ holder[w] = v
  <2>1. pc[w] # "own"
    BY <1>2 DEF Target, Inv, HolderInv
  <2> QED
    BY <1>1, <1>2, <2>1 DEF Detach, DetachSteps, Target
<1>4. w # v
  BY <1>3 DEF Inv, HolderInv
<1>5. pc'[w] # pc[w]
  BY <1>t, <1>1, <1>3 DEF Detach, TakeSteps, Goto, TypeOK
<1>6. /\ pc[w] = "force" => waited[w] > Grace
      /\ pc[w] = "down" => status[v] # "RUNNING" \/ stale[w]
  BY <1>3 DEF Inv, HolderInv
<1> QED
  BY <1>3, <1>4, <1>5, <1>6 DEF TakeSteps

\* A mounted file system loses its disk to another VM's failover only, and to that
\* only as the fencing rules have it: a holder that was down when it was looked at
\* at once, a running one by the first detach or, after the grace, by the second.
THEOREM FencingHolds == Spec => Fenced
<1>1. Init => Inv
  BY InvInit
<1>2. Inv /\ [Next]_vars => Inv' /\ [TornByRules]_vars
  BY InvNext, TearsByRules
<1>3. Fenced <=> [][TornByRules]_vars
  BY DEF Fenced, TornByRules
<1> QED
  BY <1>1, <1>2, <1>3, PTL DEF Spec
=============================================================================
