----------------------------- MODULE VolumeLife -----------------------------
(***************************************************************************)
(* What the driver promises of each volume, whatever fails in between: the  *)
(* disk behind a name is absent, available, removing (the user was told     *)
(* that it is gone, and nothing shows it in the zone yet) or deleting (it   *)
(* bears the mark).                                                        *)
(*                                                                         *)
(* A removal can be taken back, by a restart that finds the disk unmarked   *)
(* and lists it again; a mark cannot.  Nothing is marked but by a removal,  *)
(* or the rollback of a Create, that came before.                          *)
(***************************************************************************)
CONSTANT Name

VARIABLE life

Lives == {"absent", "available", "removing", "deleting"}

Moves ==
    {<<"absent", "available">>,         \* created
     <<"available", "removing">>,       \* removed, or rolled back
     <<"removing", "available">>,       \* imported or adopted again
     <<"removing", "deleting">>,        \* marked
     <<"deleting", "absent">>}          \* deleted

Init == life = [n \in Name |-> "absent"]

\* Startup may list several volumes again in one step.
Next ==
    /\ life' \in [Name -> Lives]
    /\ \A n \in Name : life'[n] = life[n] \/ <<life[n], life'[n]>> \in Moves

Spec == Init /\ [][Next]_life
=============================================================================
