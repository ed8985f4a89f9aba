--------------------------- MODULE DeadlinesProofs ---------------------------
(***************************************************************************)
(* Deadlines, for every value of the timeouts: an operation returns by its  *)
(* deadline and one poll, and no retry begins an attempt later than its     *)
(* longest sleep after MaxElapsed.                                         *)
(*                                                                         *)
(* Every step of an operation enters a stage, ends the operation, or stays  *)
(* in its stage; the lemmas say what the first two do to the invariant.     *)
(***************************************************************************)
EXTENDS Deadlines, TLAPS

\* A stage begins before now, no sleep is longer than the longest, and nothing
\* waits or backs off after the deadline.
TimesInv ==
    /\ now \in Nat /\ entered \in Nat /\ start \in Nat /\ start <= now
    /\ interval \in Nat /\ interval <= MaxInterval

IInv ==
    /\ op \in Operations \cup {"none"}
    /\ TimesInv
    /\ ReturnsInTime
    /\ LastAttempt
    /\ op # "none" /\ sub # "call" => now <= Deadline
    /\ sub = "sleep" => now < Deadline

\* The names of the operations.
LEMMA OperationNames ==
    Operations = {"startup", "create", "delete", "mount", "failover", "detach",
                   "unmount"}
BY DEF Operations, Stages

\* The deadlines are naturals, whichever operation runs.
LEMMA DeadlineNat ==
    /\ Deadline \in Nat
    /\ LongestPoll \in Nat /\ PollInterval <= LongestPoll /\ ReleaseInterval <= LongestPoll
    /\ PollInterval \in Nat /\ ReleaseInterval \in Nat
BY DeadlinesAssumption DEF Deadline, LongestPoll

\* A step that takes time neither goes back nor beyond the deadline.
LEMMA TakesBounded ==
    ASSUME IInv, op # "none", NEW limit \in Nat, now <= limit, Takes(limit)
    PROVE  /\ now' \in Nat /\ now <= now' /\ now' <= Deadline + LongestPoll
           /\ ~Expired => now' <= Deadline
<1>1. now \in Nat /\ now <= Deadline + LongestPoll
  BY DEF IInv, TimesInv, ReturnsInTime
<1>2. CASE Expired
  BY <1>1, <1>2 DEF Takes
<1>3. CASE ~Expired
  BY <1>1, <1>3, DeadlineNat DEF Takes, Expired, Lesser
<1> QED BY <1>2, <1>3

\* The first attempt of a stage is in time.
LEMMA FirstAttempt ==
    ASSUME NEW t \in Nat
    PROVE  t - t < MaxElapsed + MaxInterval
<1>1. MaxElapsed \in Nat \ {0} /\ MaxInterval \in Nat
  BY DeadlinesAssumption
<1> QED BY <1>1

\* Whatever stage is entered before the deadline of its operation, the
\* invariant holds there.
LEMMA EnterKeeps ==
    ASSUME NEW o \in Operations, NEW k, Enter(o, k), now' \in Nat,
           now' <= (IF o = "startup" THEN StartupTimeout ELSE OpTimeout) + LongestPoll
    PROVE  IInv'
<1>1. TimesInv'
  BY DeadlinesAssumption DEF Enter, Attempts, TimesInv
<1>2. ReturnsInTime'
  BY DEF Enter, Attempts, ReturnsInTime, Deadline
<1>3. LastAttempt'
  <2>1. start' = now' /\ now' \in Nat
    BY DEF Enter, Attempts
  <2>2. now' - now' < MaxElapsed + MaxInterval
    BY <2>1, FirstAttempt
  <2>3. now' - start' < MaxElapsed + MaxInterval
    BY <2>1, <2>2, Zenon
  <2> QED BY <2>3 DEF LastAttempt
<1>4. op' \in Operations /\ sub' = "call"
  BY DEF Enter, Attempts
<1> QED BY <1>1, <1>2, <1>3, <1>4 DEF IInv

\* An operation that ends has no deadline any more.
LEMMA EndKeeps ==
    ASSUME IInv, End, now' \in Nat, now <= now'
    PROVE  IInv'
BY DEF IInv, End, TimesInv, ReturnsInTime, LastAttempt

\* The next stage, or the end, after a step within the deadline.
LEMMA AdvanceKeeps ==
    ASSUME IInv, op # "none", Advance,
           now' \in Nat, now <= now', now' <= Deadline + LongestPoll
    PROVE  IInv'
<1>1. CASE Enter(op, i + 1)
  BY <1>1, EnterKeeps DEF IInv, Deadline
<1>2. CASE End
  BY <1>2, EndKeeps
<1>3. CASE op = "create" /\ Enter("delete", 1)
  BY <1>3, EnterKeeps, OperationNames DEF Deadline
<1>4. CASE op = "mount" /\ Enter("unmount", 1)
  BY <1>4, EnterKeeps, OperationNames DEF Deadline
<1>5. CASE op = "failover" /\ Enter("mount", 2)
  BY <1>5, EnterKeeps, OperationNames DEF Deadline
<1> QED BY <1>1, <1>2, <1>3, <1>4, <1>5 DEF Advance, Finish

\* The unwinding of Mount shares its deadline.
LEMMA FailKeeps ==
    ASSUME IInv, op # "none", Fail,
           now' \in Nat, now <= now', now' <= Deadline + LongestPoll
    PROVE  IInv'
<1>1. CASE op = "mount" /\ Enter("detach", 1)
  BY <1>1, EnterKeeps, OperationNames DEF Deadline
<1>2. CASE End
  BY <1>2, EndKeeps
<1> QED BY <1>1, <1>2 DEF Fail

\* A stage that waits, backs off or sleeps has no attempt to bound.
LEMMA PausesKeep ==
    ASSUME IInv, op # "none", NEW s \in {"wait", "backoff", "sleep"}, Pause(s),
           now' \in Nat, now <= now', now' <= Deadline, s = "sleep" => now' < Deadline
    PROVE  IInv'
BY DeadlineNat DEF IInv, TimesInv, ReturnsInTime, LastAttempt, Deadline, Pause

LEMMA RefusedKeeps ==
    ASSUME IInv, op # "none", Refused,
           now' \in Nat, now <= now', now' <= Deadline + LongestPoll,
           ~Expired => now' <= Deadline
    PROVE  IInv'
BY FailKeeps, PausesKeep DEF Refused

LEMMA InitInv == Init => IInv
BY DeadlinesAssumption
   DEF Init, IInv, TimesInv, ReturnsInTime, LastAttempt

\* An API call or a wait, whatever it is for.
LEMMA TimedStep ==
    ASSUME IInv, op # "none", Takes(Deadline) \/ Takes(now + WaitTimeout)
               \/ Takes(now + MetadataTimeout)
    PROVE  /\ now' \in Nat /\ now <= now' /\ now' <= Deadline + LongestPoll
           /\ ~Expired => now' <= Deadline
<1>1. now \in Nat /\ now <= Deadline + LongestPoll
  BY DEF IInv, TimesInv, ReturnsInTime
<1>2. CASE Expired
  BY <1>1, <1>2 DEF Takes
<1>3. CASE ~Expired
  <2>1. now <= Deadline
    BY <1>1, <1>3, DeadlineNat DEF Expired
  <2>2. /\ now + WaitTimeout \in Nat /\ now <= now + WaitTimeout
        /\ now + MetadataTimeout \in Nat /\ now <= now + MetadataTimeout
    BY <1>1, DeadlinesAssumption
  <2> QED BY <2>1, <2>2, DeadlineNat, TakesBounded
<1> QED BY <1>2, <1>3

LEMMA NextInv == IInv /\ [Next]_vars => IInv'
<1> SUFFICES ASSUME IInv, [Next]_vars PROVE IInv'
  OBVIOUS
<1>0. now \in Nat /\ start \in Nat /\ start <= now
  BY DEF IInv, TimesInv
<1>00. op # "none" => now <= Deadline + LongestPoll
  BY DEF IInv, ReturnsInTime
<1>1. ASSUME NEW o \in Calls, Begin(o) PROVE IInv'
  <2>1. /\ now' = 0 /\ o \in Operations
        /\ OpTimeout \in Nat /\ StartupTimeout \in Nat /\ LongestPoll \in Nat
    BY <1>1, DeadlineNat, DeadlinesAssumption DEF Begin, Calls
  <2> QED BY <1>1, <2>1, EnterKeeps DEF Begin
<1>2. CASE Read
  <2>1. op # "none" /\ op \in Operations
    BY <1>2 DEF Read, In, IInv
  <2>2. /\ now' \in Nat /\ now <= now' /\ now' <= Deadline + LongestPoll
        /\ ~Expired => now' <= Deadline
    BY <1>2, <2>1, TimedStep DEF Read
  <2>3. CASE op = "mount" /\ (Enter(op, 3) \/ Enter("failover", 1))
    BY <2>1, <2>2, <2>3, EnterKeeps, OperationNames DEF Deadline
  <2>4. CASE End
    BY <2>2, <2>4, EndKeeps
  <2>5. CASE Advance
    BY <2>1, <2>2, <2>5, AdvanceKeeps
  <2>6. CASE Refused
    BY <2>1, <2>2, <2>6, RefusedKeeps
  <2> QED BY <1>2, <2>3, <2>4, <2>5, <2>6 DEF Read, Answered
<1>11. CASE HolderState
  <2>1. op # "none" /\ op \in Operations
    BY <1>11 DEF HolderState, In, IInv
  <2>2. /\ now' \in Nat /\ now <= now' /\ now' <= Deadline + LongestPoll
        /\ ~Expired => now' <= Deadline
    BY <1>11, <2>1, TimedStep DEF HolderState
  <2>3. CASE Enter(op, 2) \/ Enter(op, 4)
    BY <2>1, <2>2, <2>3, EnterKeeps DEF Deadline
  <2>4. CASE Refused
    BY <2>1, <2>2, <2>4, RefusedKeeps
  <2> QED BY <1>11, <2>3, <2>4 DEF HolderState
<1>12. CASE Released
  <2>1. op # "none" /\ op \in Operations
    BY <1>12 DEF Released, In, IInv
  <2>2. /\ now' \in Nat /\ now <= now' /\ now' <= Deadline + LongestPoll
        /\ ~Expired => now' <= Deadline
    BY <1>12, <2>1, TimedStep DEF Released
  <2>3. CASE Enter(op, 4) \/ Enter(op, 5)
    BY <2>1, <2>2, <2>3, EnterKeeps DEF Deadline
  <2>4. CASE Fail
    BY <2>1, <2>2, <2>4, FailKeeps
  <2>5. CASE ~Expired /\ ~(now' >= Deadline) /\ Pause("sleep")
    BY <2>1, <2>2, <2>5, DeadlineNat, PausesKeep
  <2>6. CASE Refused
    BY <2>1, <2>2, <2>6, RefusedKeeps
  <2> QED BY <1>12, <2>3, <2>4, <2>5, <2>6 DEF Released
<1>13. CASE ReleaseSleep
  <2>1. op # "none" /\ op \in Operations /\ now < Deadline
    BY <1>13 DEF ReleaseSleep, In, IInv
  <2>2. now' \in Nat /\ now' <= Deadline + LongestPoll
    BY <1>0, <1>13, <2>1, DeadlineNat DEF ReleaseSleep
  <2>3. TimesInv'
    BY <1>13, <2>2, DeadlinesAssumption DEF ReleaseSleep, Attempts, IInv, TimesInv
  <2>4. LastAttempt'
    <3>1. now' - now' < MaxElapsed + MaxInterval
      BY <2>2, FirstAttempt
    <3>2. start' = now'
      BY <1>13 DEF ReleaseSleep, Attempts
    <3>3. now' - start' < MaxElapsed + MaxInterval
      BY <3>1, <3>2, Zenon
    <3> QED BY <3>3 DEF LastAttempt
  <2>5. op' = op /\ sub' = "call"
    BY <1>13 DEF ReleaseSleep, Attempts
  <2>6. ReturnsInTime'
    BY <2>2, <2>5 DEF ReturnsInTime, Deadline
  <2> QED BY <2>1, <2>3, <2>4, <2>5, <2>6 DEF IInv
<1>3. CASE Call
  <2>1. op # "none"
    BY <1>3 DEF Call, In
  <2>2. /\ now' \in Nat /\ now <= now' /\ now' <= Deadline + LongestPoll
        /\ ~Expired => now' <= Deadline
    BY <1>3, <2>1, TimedStep DEF Call
  <2>3. CASE ~Expired /\ Pause("wait")
    BY <2>1, <2>2, <2>3, PausesKeep
  <2>4. CASE Refused
    BY <2>1, <2>2, <2>4, RefusedKeeps
  <2> QED BY <1>3, <2>3, <2>4 DEF Call
<1>4. CASE WaitOp
  <2>1. op # "none"
    BY <1>4 DEF WaitOp, In
  <2>2. /\ now' \in Nat /\ now <= now' /\ now' <= Deadline + LongestPoll
        /\ ~Expired => now' <= Deadline
    BY <1>4, <2>1, TimedStep DEF WaitOp
  <2> QED BY <1>4, <2>1, <2>2, AdvanceKeeps, FailKeeps, RefusedKeeps DEF WaitOp
<1>5. CASE Backoff
  <2>1. op # "none" /\ now <= Deadline
    BY <1>5 DEF Backoff, IInv
  <2>2. CASE Fail /\ UNCHANGED now
    BY <1>0, <1>00, <2>1, <2>2, FailKeeps
  <2>3. CASE now' = Deadline /\ Fail
    BY <1>0, <2>1, <2>3, DeadlineNat, FailKeeps
  <2>4. CASE /\ ~(now - start >= MaxElapsed)
             /\ now' \in now .. Lesser(now + interval, Deadline)
             /\ sub' = "call"
             /\ interval' = Lesser(interval * Multiplier, MaxInterval)
             /\ UNCHANGED <<op, i, entered, start>>
    <3>1. interval \in Nat /\ interval <= MaxInterval
      BY DEF IInv, TimesInv
    <3>2. now' \in Nat /\ now <= now' /\ now' <= now + interval /\ now' <= Deadline
      BY <1>0, <2>4, <3>1, DeadlineNat DEF Lesser
    <3>3. interval' \in Nat /\ interval' <= MaxInterval
      <4>1. interval * Multiplier \in Nat
        BY <3>1, DeadlinesAssumption
      <4> QED BY <2>4, <4>1, DeadlinesAssumption DEF Lesser
    <3>4. TimesInv'
      BY <1>0, <2>4, <3>2, <3>3 DEF IInv, TimesInv
    <3>5. ReturnsInTime'
      BY <2>4, <3>2, DeadlineNat DEF ReturnsInTime, Deadline
    <3>6. now' - start' < MaxElapsed + MaxInterval
      BY <1>0, <2>4, <3>1, <3>2, DeadlinesAssumption
    <3> QED BY <2>4, <3>4, <3>5, <3>6 DEF IInv, LastAttempt
  <2> QED BY <1>5, <2>2, <2>3, <2>4 DEF Backoff
<1>6. CASE ZoneCompletes
  BY <1>6 DEF ZoneCompletes, IInv, TimesInv, ReturnsInTime, LastAttempt, Deadline, Stage
<1>7. CASE WaitForDevice
  <2>1. op # "none" /\ Stage = "device"
    BY <1>7 DEF WaitForDevice, In
  <2>2. CASE Advance /\ UNCHANGED now
    BY <1>0, <1>00, <2>1, <2>2, AdvanceKeeps
  <2>3. CASE Fail /\ UNCHANGED now
    BY <1>0, <1>00, <2>1, <2>3, FailKeeps
  <2>4. CASE /\ ~Expired
             /\ now' = now + PollInterval
             /\ Pause("call")
    <3>1. now' \in Nat /\ start <= now' /\ now' <= Deadline + LongestPoll
      BY <1>0, <2>4, DeadlineNat DEF Expired
    <3>2. LastAttempt'
      BY <2>1, <2>4 DEF LastAttempt, Stage, Reads, Changes, Pause
    <3>3. sub = "call"
      BY <1>7 DEF WaitForDevice
    <3> QED BY <2>4, <3>1, <3>2, <3>3
            DEF IInv, TimesInv, ReturnsInTime, Deadline, Pause
  <2> QED BY <1>7, <2>2, <2>3, <2>4 DEF WaitForDevice
<1>8. CASE Command
  <2>1. op # "none"
    BY <1>8 DEF Command, In
  <2> QED BY <1>8, <2>1, TimedStep, AdvanceKeeps, FailKeeps DEF Command
<1>9. CASE Metadata
  <2>1. op # "none"
    BY <1>9 DEF Metadata, In
  <2> QED BY <1>9, <2>1, TimedStep, AdvanceKeeps, FailKeeps DEF Metadata
<1>10. CASE UNCHANGED vars
  BY <1>10 DEF vars, IInv, TimesInv, ReturnsInTime, LastAttempt, Deadline, Stage
<1> QED BY <1>1, <1>2, <1>3, <1>4, <1>5, <1>6, <1>7, <1>8, <1>9, <1>10, <1>11, <1>12, <1>13 DEF Next

(***************************************************************************)
(* The types.                                                              *)
(***************************************************************************)
LEMMA TypeInit == Init => TypeOK
<1> SUFFICES ASSUME Init PROVE TypeOK
  OBVIOUS
<1>1. InitialInterval \in Nat
  BY DeadlinesAssumption
<1>2. i \in Nat /\ {now, entered, start, interval} \subseteq Nat
  BY <1>1 DEF Init
<1>3. attached \in BOOLEAN
  BY Zenon DEF Init
<1> QED BY <1>2, <1>3, Zenon DEF Init, TypeOK

\* A step moves between the stages with naturals, or stays.
LEMMA MovesAreTyped ==
    ASSUME TypeOK, op # "none", now' \in Nat, Advance \/ Fail
    PROVE  /\ op' \in Operations \cup {"none"} /\ i' \in Nat
           /\ sub' \in {"call", "wait", "backoff", "sleep"}
           /\ entered' \in Nat /\ start' \in Nat /\ interval' \in Nat
<1>1. i + 1 \in Nat /\ InitialInterval \in Nat
  BY DeadlinesAssumption DEF TypeOK
<1>2. ASSUME NEW o \in Operations, NEW k \in Nat, Enter(o, k)
      PROVE  /\ op' \in Operations \cup {"none"} /\ i' \in Nat
             /\ sub' \in {"call", "wait", "backoff", "sleep"}
             /\ entered' \in Nat /\ start' \in Nat /\ interval' \in Nat
  BY <1>1, <1>2 DEF Enter, Attempts
<1>3. CASE End
  BY <1>3 DEF End, TypeOK
<1>4. op \in Operations
  BY DEF TypeOK
<1> QED BY <1>1, <1>2, <1>3, <1>4, OperationNames DEF Advance, Finish, Fail

LEMMA TimeIsTyped ==
    ASSUME TypeOK, NEW limit \in Nat, Takes(limit)
    PROVE  now' \in Nat
BY DeadlineNat DEF TypeOK, Takes, Lesser

LEMMA RefusalsAreTyped ==
    ASSUME TypeOK, op # "none", now' \in Nat, Refused, UNCHANGED <<change, attached>>
    PROVE  TypeOK'
BY MovesAreTyped DEF TypeOK, Refused, Pause

LEMMA TypeNext == TypeOK /\ [Next]_vars => TypeOK'
<1> SUFFICES ASSUME TypeOK, [Next]_vars PROVE TypeOK'
  OBVIOUS
<1>0. /\ now \in Nat /\ Deadline \in Nat
      /\ now + WaitTimeout \in Nat /\ now + MetadataTimeout \in Nat
      /\ now + PollInterval \in Nat /\ now + ReleaseInterval \in Nat
  BY DeadlineNat, DeadlinesAssumption DEF TypeOK
<1>1. ASSUME NEW o \in Calls, Begin(o) PROVE TypeOK'
  BY <1>1, DeadlinesAssumption DEF Begin, Calls, Enter, Attempts, TypeOK
<1>2. CASE Read
  <2>1. op # "none" /\ now' \in Nat /\ op \in Operations
    BY <1>0, <1>2, TimeIsTyped DEF Read, In, TypeOK
  <2>2. CASE Refused
    BY <1>2, <2>1, <2>2, RefusalsAreTyped DEF Read
  <2>3. CASE Enter(op, 3) \/ Enter("failover", 1)
    BY <1>2, <2>1, <2>3, DeadlinesAssumption, OperationNames
       DEF Read, Enter, Attempts, TypeOK
  <2>4. CASE End
    BY <1>2, <2>1, <2>4 DEF Read, End, TypeOK
  <2>5. CASE Advance
    BY <1>2, <2>1, <2>5, MovesAreTyped DEF Read, TypeOK
  <2> QED BY <1>2, <2>2, <2>3, <2>4, <2>5 DEF Read, Answered
<1>11. CASE HolderState
  <2>1. op # "none" /\ now' \in Nat /\ op \in Operations
    BY <1>0, <1>11, TimeIsTyped DEF HolderState, In, TypeOK
  <2>2. CASE Refused
    BY <1>11, <2>1, <2>2, RefusalsAreTyped DEF HolderState
  <2>3. CASE Enter(op, 2) \/ Enter(op, 4)
    BY <1>11, <2>1, <2>3, DeadlinesAssumption DEF HolderState, Enter, Attempts, TypeOK
  <2> QED BY <1>11, <2>2, <2>3 DEF HolderState
<1>12. CASE Released
  <2>1. op # "none" /\ now' \in Nat /\ op \in Operations
    BY <1>0, <1>12, TimeIsTyped DEF Released, In, TypeOK
  <2>2. CASE Refused
    BY <1>12, <2>1, <2>2, RefusalsAreTyped DEF Released
  <2>3. CASE Enter(op, 4) \/ Enter(op, 5)
    BY <1>12, <2>1, <2>3, DeadlinesAssumption DEF Released, Enter, Attempts, TypeOK
  <2>4. CASE Fail
    BY <1>12, <2>1, <2>4, MovesAreTyped DEF Released, TypeOK
  <2>5. CASE Pause("sleep")
    BY <1>12, <2>1, <2>5 DEF Released, Pause, TypeOK
  <2> QED BY <1>12, <2>2, <2>3, <2>4, <2>5 DEF Released
<1>13. CASE ReleaseSleep
  BY <1>0, <1>13, DeadlinesAssumption DEF ReleaseSleep, Attempts, TypeOK
<1>3. CASE Call
  <2>1. op # "none" /\ now' \in Nat /\ Stage \in Changes
    BY <1>0, <1>3, TimeIsTyped DEF Call, In
  <2>2. CASE Refused /\ UNCHANGED change
    BY <1>3, <2>1, <2>2, RefusalsAreTyped DEF Call
  <2>3. CASE /\ change' = Stage
             /\ Pause("wait")
    BY <1>3, <2>1, <2>3 DEF Call, Pause, TypeOK
  <2> QED BY <1>3, <2>2, <2>3 DEF Call
<1>4. CASE WaitOp
  <2>1. op # "none" /\ now' \in Nat
    BY <1>0, <1>4, TimeIsTyped DEF WaitOp, In
  <2>2. CASE Refused /\ UNCHANGED <<change, attached>>
    BY <2>1, <2>2, RefusalsAreTyped
  <2>3. CASE Fail /\ UNCHANGED <<change, attached>>
    BY <2>1, <2>3, MovesAreTyped DEF TypeOK
  <2>4. CASE Advance /\ UNCHANGED <<change, attached>>
    BY <2>1, <2>4, MovesAreTyped DEF TypeOK
  <2>5. CASE Advance /\ Completes
    BY <2>1, <2>5, MovesAreTyped DEF TypeOK, Completes
  <2> QED BY <1>4, <2>2, <2>3, <2>4, <2>5 DEF WaitOp
<1>5. CASE Backoff
  <2>1. op # "none"
    BY <1>5 DEF Backoff
  <2>2. CASE Fail /\ (UNCHANGED now \/ now' = Deadline)
    BY <1>0, <1>5, <2>1, <2>2, MovesAreTyped DEF Backoff, TypeOK
  <2>3. CASE /\ now' \in now .. Lesser(now + interval, Deadline)
             /\ sub' = "call"
             /\ interval' = Lesser(interval * Multiplier, MaxInterval)
             /\ UNCHANGED <<op, i, entered, start>>
    <3>1. interval' \in Nat
      <4>1. interval * Multiplier \in Nat /\ MaxInterval \in Nat
        BY DeadlinesAssumption DEF TypeOK
      <4> QED BY <2>3, <4>1 DEF Lesser
    <3>2. now' \in Nat
      BY <1>0, <2>3 DEF Lesser, TypeOK
    <3> QED BY <1>5, <2>3, <3>1, <3>2 DEF Backoff, TypeOK
  <2> QED BY <1>5, <2>2, <2>3 DEF Backoff
<1>6. CASE ZoneCompletes
  BY <1>6 DEF ZoneCompletes, Completes, TypeOK
<1>7. CASE WaitForDevice
  <2>1. op # "none"
    BY <1>7 DEF WaitForDevice, In
  <2>2. CASE UNCHANGED now /\ (Advance \/ Fail)
    BY <1>0, <1>7, <2>1, <2>2, MovesAreTyped DEF WaitForDevice, TypeOK
  <2>3. CASE now' = now + PollInterval /\ Pause("call")
    BY <1>0, <1>7, <2>3 DEF WaitForDevice, Pause, TypeOK
  <2> QED BY <1>7, <2>2, <2>3 DEF WaitForDevice
<1>8. CASE Command
  <2>1. op # "none" /\ now' \in Nat
    BY <1>0, <1>8, TimeIsTyped DEF Command, In
  <2> QED BY <1>8, <2>1, MovesAreTyped DEF Command, TypeOK
<1>9. CASE Metadata
  <2>1. op # "none" /\ now' \in Nat
    BY <1>0, <1>9, TimeIsTyped DEF Metadata, In
  <2> QED BY <1>9, <2>1, MovesAreTyped DEF Metadata, TypeOK
<1>10. CASE UNCHANGED vars
  BY <1>10 DEF vars, TypeOK
<1> QED BY <1>1, <1>2, <1>3, <1>4, <1>5, <1>6, <1>7, <1>8, <1>9, <1>10, <1>11, <1>12, <1>13 DEF Next

\* Every variable has its type, whatever the timeouts.
THEOREM DeadlinesTypeCorrect == Spec => []TypeOK
BY TypeInit, TypeNext, PTL DEF Spec

(***************************************************************************)
(* The theorems.                                                           *)
(***************************************************************************)
LEMMA Invariance == Spec => []IInv
BY InitInv, NextInv, PTL DEF Spec

\* Whatever the API, the device, the commands and the holder of a disk do, d.mu is
\* given back by the deadline of the operation and one poll.
THEOREM OperationsReturnInTime == Spec => []ReturnsInTime
<1>1. IInv => ReturnsInTime
  BY DEF IInv
<1> QED BY <1>1, Invariance, PTL

\* Whatever the errors and the sleeps, the last attempt of a retry comes before
\* its longest sleep after MaxElapsed.
THEOREM RetriesAreBounded == Spec => []LastAttempt
<1>1. IInv => LastAttempt
  BY DEF IInv
<1> QED BY <1>1, Invariance, PTL
=============================================================================
