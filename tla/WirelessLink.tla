---------------------------- MODULE WirelessLink ----------------------------
(* A wireless mouse behind its receiver: the battery gauge that doubles as    *)
(* the program's only sign of life, the start-up handshake that waits for it, *)
(* and the wizard that binds a new mouse. The receiver's node is opened once; *)
(* the receiver may drop off the bus and come back as a node of its own.      *)
EXTENDS Integers

CONSTANTS
    Levels,     \* battery bytes a mouse may answer with
    MaxMisses,  \* MOUSE_BATTERY_MAX_MISSES
    Faults,     \* "nap": a linked mouse does not answer; "sleep", "off", "replug", "bt"
    MaxFaults

ASSUME MissesAssumption == MaxMisses \in Nat \ {0}
ASSUME LevelsAssumption == Levels \subseteq 0..255
ASSUME FaultsAssumption == MaxFaults \in Nat

VARIABLES
    node,     \* "same" as opened, "gone", or "new": there again, as another one
    mouse,    \* "on", "asleep" or "off"
    radio,    \* which link the mouse's switch selects: "2.4" or "bt"
    bound,    \* the receiver knows the mouse
    gauge,    \* battery_pct, -1 without a reading
    misses,   \* queries without an answer, capped at MaxMisses
    bt,       \* bt_present
    synced,   \* device_synced
    reached,  \* what the handshake pushed came to a mouse
    wizard,   \* "closed", "probe" or "instruct"
    dongle,   \* what the wizard's last frame saw of the receiver
    answered, \* for each of the last MaxMisses queries, whether it was answered
    faults

linkVars == <<gauge, misses, bt, answered>>
world == <<node, mouse, radio, bound, faults>>
vars == <<linkVars, world, synced, reached, wizard, dongle>>

None == -1
AllMissed == [i \in 1..MaxMisses |-> FALSE]

\* alloy_driver_present: any node of the receiver will do.
Present == node # "gone"

\* Reads and writes go through the descriptor opened at the start.
Writable == node = "same"

Linked == Writable /\ bound /\ mouse = "on" /\ radio = "2.4"

\* The mouse is reachable, if need be after a wake-up.
InReach == Writable /\ bound /\ mouse # "off" /\ radio = "2.4"

Fault(kind) == kind \in Faults /\ faults < MaxFaults /\ faults' = faults + 1

-----------------------------------------------------------------------------
(* The gauge. *)

\* Charge in steps of five percent, bit 7 set while charging.
Percent(b) == LET p == ((b % 128) - 1) * 5 IN IF p < 0 THEN 0 ELSE IF p > 100 THEN 100 ELSE p

Remember(ok) == answered' = [i \in 1..MaxMisses |-> IF i = 1 THEN ok ELSE answered[i - 1]]

\* mutant: an answer does not reset the count of misses
a3wl_battery_answers_NoReset == \E b \in Levels :
    /\ InReach
    /\ gauge' = Percent(b) /\ UNCHANGED misses
    /\ Remember(TRUE)
    /\ mouse' = "on"
    /\ UNCHANGED faults

a3wl_battery_answers == \E b \in Levels :
    /\ InReach
    /\ gauge' = Percent(b) /\ misses' = 0
    /\ Remember(TRUE)
    /\ mouse' = "on"
    /\ UNCHANGED faults

\* mutant: the last reading is kept for good
a3wl_battery_silent_Keeps ==
    /\ \/ ~Linked /\ UNCHANGED faults
       \/ Linked /\ Fault("nap")
    /\ misses' = IF misses < MaxMisses THEN misses + 1 ELSE misses
    /\ Remember(FALSE)
    /\ UNCHANGED <<gauge, mouse>>

a3wl_battery_silent ==
    /\ \/ ~Linked /\ UNCHANGED faults
       \/ Linked /\ Fault("nap")
    /\ misses' = IF misses < MaxMisses THEN misses + 1 ELSE misses
    /\ gauge' = IF misses' >= MaxMisses THEN None ELSE gauge
    /\ Remember(FALSE)
    /\ UNCHANGED mouse

\* A frame in which the query is due; none is drawn while the wizard is open.
mouse_tick ==
    /\ wizard = "closed"
    /\ bt' = (radio = "bt" /\ mouse = "on")
    /\ a3wl_battery_answers \/ a3wl_battery_silent
    /\ UNCHANGED <<node, radio, bound, synced, reached, wizard, dongle>>

-----------------------------------------------------------------------------
(* The handshake. *)

\* mutant: only Bluetooth counts
mouse_ready_BtOnly == bt

mouse_ready == gauge # None \/ bt

\* Firmware query and the steps without SKIP_SYNC, once; what comes back is
\* not looked at.
tui_sync_device ==
    /\ wizard = "closed" /\ ~synced /\ mouse_ready
    /\ synced' = TRUE
    /\ reached' = InReach
    /\ mouse' = IF InReach THEN "on" ELSE mouse
    /\ UNCHANGED <<linkVars, node, radio, bound, faults, wizard, dongle>>

-----------------------------------------------------------------------------
(* The pairing wizard: a modal of its own loop, drawing before every key.     *)

needs_pairing == gauge = None /\ ~bt

mouse_key ==
    /\ wizard = "closed" /\ needs_pairing
    /\ wizard' = "probe" /\ dongle' = Present
    /\ UNCHANGED <<linkVars, world, synced, reached>>

\* The frame drawn when no key comes.
pair_draw ==
    /\ wizard # "closed" /\ dongle # Present
    /\ dongle' = Present
    /\ UNCHANGED <<linkVars, world, synced, reached, wizard>>

PairEscape ==
    /\ wizard # "closed"
    /\ wizard' = IF wizard = "instruct" THEN "probe" ELSE "closed"
    /\ dongle' = Present
    /\ UNCHANGED <<linkVars, world, synced, reached>>

PairNext ==
    /\ wizard = "probe" /\ dongle
    /\ wizard' = "instruct" /\ dongle' = Present
    /\ UNCHANGED <<linkVars, world, synced, reached>>

\* The two arming commands are echoed or not, only the last write counts. It
\* makes the receiver drop its mouse and come back, with the new one if that
\* was in pairing mode.
a3wl_pair ==
    /\ wizard = "instruct"
    /\ wizard' = "closed"
    /\ IF Writable
       THEN /\ node' = "gone"
            /\ bound' = (mouse = "on" /\ radio = "2.4")
       ELSE UNCHANGED <<node, bound>>
    /\ UNCHANGED <<linkVars, mouse, radio, faults, synced, reached, dongle>>

-----------------------------------------------------------------------------
(* The world. *)

host == <<linkVars, synced, reached, wizard, dongle>>

Enumerate == node = "gone" /\ node' = "new" /\ UNCHANGED <<host, mouse, radio, bound, faults>>
Unplug == node # "gone" /\ Fault("replug") /\ node' = "gone" /\ UNCHANGED <<host, mouse, radio, bound>>

Doze == mouse = "on" /\ Fault("sleep") /\ mouse' = "asleep" /\ UNCHANGED <<host, node, radio, bound>>
Wake == mouse = "asleep" /\ mouse' = "on" /\ UNCHANGED <<host, node, radio, bound, faults>>
TurnOff == mouse # "off" /\ Fault("off") /\ mouse' = "off" /\ UNCHANGED <<host, node, radio, bound>>
TurnOn == mouse = "off" /\ mouse' = "on" /\ UNCHANGED <<host, node, radio, bound, faults>>
Flick ==
    /\ Fault("bt")
    /\ radio' = IF radio = "bt" THEN "2.4" ELSE "bt"
    /\ UNCHANGED <<host, node, mouse, bound>>

Init ==
    /\ node = "same" /\ mouse \in {"on", "asleep", "off"} /\ radio = "2.4" /\ bound \in BOOLEAN
    /\ gauge = None /\ misses = 0 /\ bt = FALSE /\ answered = AllMissed
    /\ synced = FALSE /\ reached = FALSE
    /\ wizard = "closed" /\ dongle = FALSE /\ faults = 0

Wizard == mouse_key \/ pair_draw \/ PairEscape \/ PairNext \/ a3wl_pair
World == Enumerate \/ Unplug \/ Doze \/ Wake \/ TurnOff \/ TurnOn \/ Flick
Next == mouse_tick \/ tui_sync_device \/ Wizard \/ World

Spec == Init /\ [][Next]_vars

\* The frame loop goes on while no modal is open.
Fairness == WF_vars(mouse_tick) /\ WF_vars(tui_sync_device)
FairSpec == Spec /\ Fairness

-----------------------------------------------------------------------------
(* Properties. *)

\* The variables have their types.
LinkTypeOK ==
    /\ node \in {"same", "gone", "new"} /\ mouse \in {"on", "asleep", "off"} /\ radio \in {"2.4", "bt"}
    /\ gauge \in None..100 /\ misses \in 0..MaxMisses
    /\ wizard \in {"closed", "probe", "instruct"}
    /\ {bound, bt, synced, reached, dongle} \subseteq BOOLEAN
    /\ answered \in [1..MaxMisses -> BOOLEAN] /\ faults \in 0..MaxFaults

\* The gauge shows a reading exactly as long as one of the last three queries
\* was answered: a nap does not make it flicker, a lost mouse does not keep it
\* lit (mouse_tick, mouse_enter).
GaugeIsRecent == (gauge # None) = (\E i \in 1..MaxMisses : answered[i])

\* Once the mouse stays in reach and no modal is open, the handshake is done
\* (mouse_ready, tui_sync_device).
LinkedIsGreeted == <>[](Linked /\ wizard = "closed") => <>synced

\* A mouse that stays out of reach is shown as such in the end, so that pairing is
\* offered unless it is on Bluetooth (mouse_tick, needs_pairing).
LostIsShown == <>[](~InReach /\ wizard = "closed") => <>[](gauge = None)
=============================================================================
