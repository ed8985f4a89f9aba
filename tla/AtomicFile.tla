----------------------------- MODULE AtomicFile -----------------------------
(***************************************************************************)
(* What Driver takes the state file for: a value that an update replaces as *)
(* a whole, or not at all when the update fails, and that a process finds   *)
(* again when it starts (Saved and Start in Driver).  Only a loss of power, *)
(* which is no fault of Driver, may take it back to what had reached the    *)
(* device, or lose it.                                                      *)
(***************************************************************************)
CONSTANTS
    Content,    \* the stores that are written
    Empty,      \* the store without volumes
    Down,       \* the memory of a process that does not run
    Volatile    \* whether the power may fail

VARIABLES mem, kept, synced

vars == <<mem, kept, synced>>

Init == mem = Down /\ kept = Empty /\ synced = Empty

Load == mem = Down /\ mem' = kept /\ UNCHANGED <<kept, synced>>

Update ==
    /\ mem # Down
    /\ mem' \in Content
    /\ kept' \in {kept, mem'}
    /\ UNCHANGED synced

Sync == synced' = kept /\ UNCHANGED <<mem, kept>>

Die == mem' = Down /\ UNCHANGED <<kept, synced>>

PowerLoss ==
    /\ Volatile
    /\ mem' = Down
    /\ kept' \in {kept, synced} \cup (IF kept # synced THEN {Empty} ELSE {})
    /\ synced' = kept'

Next == Load \/ Update \/ Sync \/ Die \/ PowerLoss

Spec == Init /\ [][Next]_vars
=============================================================================
