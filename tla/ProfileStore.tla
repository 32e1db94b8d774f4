---------------------------- MODULE ProfileStore ----------------------------
(* What a keyboard with onboard profiles promises to its owner: every profile *)
(* keeps a polling rate, a lighting, a key matrix and a snap tap set-up, and  *)
(* whatever is told to the keyboard changes one of them in one profile.       *)
(* Lighting, matrix and snap tap go to the profile the screen names; a        *)
(* shortcut of the keyboard changes the snap tap of the active one.           *)
CONSTANTS
    Profile,
    First,           \* the profile whose polling rate counts
    NoRate, NoLight  \* what an empty record says

VARIABLES
    store,   \* profile -> [polling, light, matrix, snap]
    active,  \* the profile the keyboard works with
    target   \* the profile the screen names

vars == <<store, active, target>>

Init == active \in Profile /\ target \in Profile

\* Of profile p nothing but the aspects in as becomes something else.
Set(p, as) ==
    /\ store' = [store EXCEPT ![p] = [a \in DOMAIN @ |-> IF a \in as THEN store'[p][a] ELSE @[a]]]
    /\ UNCHANGED <<active, target>>

SetPolling == Set(First, {"polling"})
SetLight == Set(target, {"light"}) \/ Set(target, {"matrix"})
SetSnap == Set(target, {"snap"}) \/ Set(active, {"snap"})

\* A record written over one that could not be read: a lighting costs the
\* profile its polling rate, a polling rate its lighting.
Overwrite(p) ==
    /\ Set(p, {"light", "polling"})
    /\ store'[p].polling = NoRate \/ store'[p].light = NoLight

Switch == active' \in Profile /\ UNCHANGED <<store, target>>
Select == target' \in Profile /\ UNCHANGED <<store, active>>

Next == SetPolling \/ SetLight \/ SetSnap \/ Switch \/ Select \/ \E p \in Profile : Overwrite(p)

Spec == Init /\ [][Next]_vars
=============================================================================
