------------------------------ MODULE StateFile ------------------------------
(***************************************************************************)
(* The state file (internal/state: Load and persist): a temporary file that *)
(* is truncated, written and renamed into place, system call by system      *)
(* call, without an fsync.  The process may die between any two of them,    *)
(* and the machine may lose its power.                                     *)
(***************************************************************************)
EXTENDS Naturals, TLAPS

CONSTANTS
    Content,    \* what the store may hold: one value for each list of volumes
    Empty,      \* the store without volumes
    Down,       \* the memory of a process that does not run
    NoFile,     \* there is no such file
    Zero,       \* a file of length zero
    Part,       \* the beginning of a JSON text, that does not parse
    Faults      \* "write": a failing system call, "power": a loss of power

ASSUME StateFileAssumption ==
    /\ Empty \notin Content \cup {Down, NoFile, Zero, Part}
    /\ Down \notin Content
    /\ {NoFile, Zero, Part} \cap Content = {}
    /\ NoFile # Zero /\ NoFile # Part /\ Zero # Part
    /\ Faults \subseteq {"write", "power"}

Files == Content \cup {NoFile, Zero, Part}

VARIABLES
    mem,        \* Store.vols
    tmp,        \* path.tmp, as a process reads it
    path,       \* the state file, as a process reads it
    durable,    \* what of the state file has reached the device
    pc,         \* the step of the process
    before      \* history: the memory before the update under way

vars == <<mem, tmp, path, durable, pc, before>>

Writing == {"open", "begin", "write", "rename"}

\* Every variable has its type.
TypeOK ==
    /\ mem \in Content \cup {Empty, Down}
    /\ tmp \in Files
    /\ path \in Files
    /\ durable \in Files
    /\ pc \in {"down", "idle"} \cup Writing
    /\ before \in Content \cup {Empty, Down}

Init ==
    /\ mem = Down
    /\ tmp = NoFile
    /\ path = NoFile
    /\ durable = NoFile
    /\ pc = "down"
    /\ before = Down

\* A missing file and an empty one are a store without volumes.  A file that does
\* not parse ends the process.
Stored(f) == IF f \in {NoFile, Zero} THEN Empty ELSE f

Load ==
    /\ pc = "down" /\ path # Part
    /\ mem' = Stored(path)
    /\ pc' = "idle"
    /\ UNCHANGED <<tmp, path, durable, before>>

\* An operation of the store: memory changes, then persist is called.
Change(c) ==
    /\ pc = "idle"
    /\ mem' = c
    /\ before' = mem
    /\ pc' = "open"
    /\ UNCHANGED <<tmp, path, durable>>

\* os.WriteFile opens the file, truncating what a dead process left of it.
OpenTmp ==
    /\ pc = "open"
    /\ tmp' = Zero
    /\ pc' = "begin"
    /\ UNCHANGED <<mem, path, durable, before>>

\* A persist that writes the state file itself.
WriteTmp_InPlace ==
    /\ pc \in {"begin", "write"}
    /\ \/ pc = "begin" /\ tmp' = Part /\ path' = Part /\ pc' = "write"
       \/ tmp' = mem /\ path' = mem /\ pc' = "rename"
    /\ UNCHANGED <<mem, durable, before>>

WriteTmp ==
    /\ pc \in {"begin", "write"}
    /\ \/ pc = "begin" /\ tmp' = Part /\ pc' = "write"
       \/ tmp' = mem /\ pc' = "rename"
    /\ UNCHANGED <<mem, path, durable, before>>

Rename ==
    /\ pc = "rename"
    /\ path' = tmp
    /\ tmp' = NoFile
    /\ pc' = "idle"
    /\ UNCHANGED <<mem, durable, before>>

\* A system call of persist fails: so does the update, with memory changed.
WriteFails ==
    /\ "write" \in Faults
    /\ pc \in Writing
    /\ pc' = "idle"
    /\ UNCHANGED <<mem, tmp, path, durable, before>>

\* The kernel writes back the data and the rename in its own time.
Flush ==
    /\ durable # path
    /\ durable' = path
    /\ UNCHANGED <<mem, tmp, path, pc, before>>

Die ==
    /\ pc # "down"
    /\ pc' = "down"
    /\ mem' = Down
    /\ UNCHANGED <<tmp, path, durable, before>>

\* A rename that had not reached the device, or whose data had not.
PowerLoss ==
    /\ "power" \in Faults
    /\ pc' = "down"
    /\ mem' = Down
    /\ tmp' = NoFile
    /\ path' \in {path, durable} \cup (IF path # durable THEN {Zero} ELSE {})
    /\ durable' = path'
    /\ UNCHANGED before

Next ==
    \/ Load \/ \E c \in Content : Change(c)
    \/ OpenTmp \/ WriteTmp \/ Rename \/ WriteFails
    \/ Flush \/ Die \/ PowerLoss

Spec == Init /\ [][Next]_vars

(***************************************************************************)
(* Properties.                                                             *)
(***************************************************************************)
\* An update is one step, the one in which the rename or the failure comes: the
\* file is replaced as a whole, whatever the process dies of ("writes the store
\* to disk atomically", persist).  A loss of power takes it back to an earlier
\* store or empties it, but never cuts it short.
Atomic ==
    INSTANCE AtomicFile WITH
        Volatile <- "power" \in Faults,
        mem <- IF pc \in Writing THEN before ELSE mem,
        kept <- Stored(path),
        synced <- Stored(durable)
IsAtomic == Atomic!Spec

\* A store that was written is never found empty or cut short: "a corrupt file is
\* an error so we never silently lose track of disks" (Load).  A loss of power
\* breaks it (see the README).
NeverEmptied == [][(path \in Content) => (path' \in Content)]_vars

(***************************************************************************)
(* The proof that the system calls of persist implement AtomicFile: the     *)
(* justification of Driver's one step for an update of the store.           *)
(***************************************************************************)
\* The state file is whole, or empty after a loss of power, and so is what has
\* reached the device; the temporary file is whole when it is renamed.
FileInv ==
    /\ {path, durable} \subseteq Content \cup {NoFile, Zero}
    /\ pc \in Writing => mem \in Content /\ before # Down
    /\ pc = "rename" => tmp = mem
    /\ pc = "down" <=> mem = Down

Inv == TypeOK /\ FileInv

LEMMA InvInit == Init => Inv /\ Atomic!Init
BY StateFileAssumption DEF Init, Inv, TypeOK, FileInv, Writing, Files, Atomic!Init, Stored

\* The variables of AtomicFile.
Mapped == <<IF pc \in Writing THEN before ELSE mem, Stored(path), Stored(durable)>>

LEMMA InvNext ==
    ASSUME Inv, [Next]_vars
    PROVE  Inv' /\ [Atomic!Next]_Mapped
<1> USE StateFileAssumption DEF Inv, TypeOK, FileInv, Writing, Files, Mapped
<1>1. CASE Load
  BY <1>1 DEF Load, Stored, Atomic!Next, Atomic!Load
<1>2. ASSUME NEW c \in Content, Change(c)
      PROVE  Inv' /\ UNCHANGED Mapped
  BY <1>2 DEF Change, Stored
<1>3. CASE OpenTmp
  BY <1>3 DEF OpenTmp, Stored
<1>4. CASE WriteTmp
  BY <1>4 DEF WriteTmp, Stored
<1>5. CASE Rename
  BY <1>5 DEF Rename, Stored, Atomic!Next, Atomic!Update
<1>6. CASE WriteFails
  BY <1>6 DEF WriteFails, Stored, Atomic!Next, Atomic!Update
<1>7. CASE Flush
  BY <1>7 DEF Flush, Stored, Atomic!Next, Atomic!Sync
<1>8. CASE Die
  BY <1>8 DEF Die, Stored, Atomic!Next, Atomic!Die
<1>9. CASE PowerLoss
  BY <1>9 DEF PowerLoss, Stored, Atomic!Next, Atomic!PowerLoss
<1>10. CASE UNCHANGED vars
  BY <1>10 DEF vars, Stored
<1> QED
  BY <1>1, <1>2, <1>3, <1>4, <1>5, <1>6, <1>7, <1>8, <1>9, <1>10 DEF Next

\* The state file is a value that every update replaces as a whole, or not at all.
THEOREM FileIsAtomic == Spec => IsAtomic
<1>1. Init => Inv /\ Atomic!Init
  BY InvInit
<1>2. Inv /\ [Next]_vars => Inv' /\ [Atomic!Next]_Mapped
  BY InvNext
<1>3. Mapped = Atomic!vars
  BY DEF Mapped, Atomic!vars
<1> QED
  BY <1>1, <1>2, <1>3, PTL DEF Spec, IsAtomic, Atomic!Spec, Mapped, Atomic!vars
=============================================================================
