------------------------- MODULE MCKeyboardProfiles -------------------------
(* Bounded instances of KeyboardProfiles. *)
EXTENDS KeyboardProfiles

MCPair == <<"AD", "WS">>

\* an effect with a direction (6, spiral wave) and the one with zones (14, custom), by
\* their place in the driver's list
MCOptions == [fx |-> {6, 14}, dir |-> {3}, zone |-> {4}]

MCFactory == [p \in Profile |->
    [fx |-> 14 \div p, bright |-> 100, speed |-> 3, multi |-> 1, dir |-> 0, zone |-> 0, color |-> "green"]]

\* a keyboard no snap tap group was ever sent to
MCFirstHeld == NoGroup
=============================================================================
