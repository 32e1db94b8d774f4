-------------------------- MODULE WirelessLinkProofs --------------------------
(* What is proved of WirelessLink, whatever the answers, the number of misses   *)
(* that count as a loss, and the faults: the types, and that the gauge shows a  *)
(* reading exactly as long as one of the last MaxMisses queries was answered.   *)
EXTENDS WirelessLink, TLAPS

\* The count of misses is where the last answer lies; without a reading there is
\* none to be found.
Recency ==
    /\ gauge = None => \A i \in 1..MaxMisses : ~answered[i]
    /\ gauge # None => /\ misses < MaxMisses
                       /\ answered[misses + 1]
                       /\ \A i \in 1..misses : ~answered[i]

IInv == LinkTypeOK /\ Recency

-----------------------------------------------------------------------------

\* Any byte is a percentage.
LEMMA PercentRange ==
    ASSUME NEW b \in Levels
    PROVE  Percent(b) \in 0..100
<1>1. b \in 0..255
  BY LevelsAssumption
<1>2. b % 128 \in 0..127
  BY <1>1
<1> QED
  BY <1>2 DEF Percent

\* The recorded past after one more query.
LEMMA Remembered ==
    ASSUME NEW ok \in BOOLEAN, answered \in [1..MaxMisses -> BOOLEAN], Remember(ok)
    PROVE  /\ answered' \in [1..MaxMisses -> BOOLEAN]
           /\ answered'[1] = ok
           /\ \A i \in 2..MaxMisses : answered'[i] = answered[i - 1]
<1>1. answered' = [i \in 1..MaxMisses |-> IF i = 1 THEN ok ELSE answered[i - 1]]
  BY DEF Remember
<1>2. \A i \in 1..MaxMisses : i # 1 => i - 1 \in 1..MaxMisses
  BY MissesAssumption
<1>3. answered' \in [1..MaxMisses -> BOOLEAN]
  BY <1>1, <1>2
<1>4. 1 \in 1..MaxMisses
  BY MissesAssumption
<1>5. answered'[1] = ok
  BY <1>1, <1>4
<1>6. \A i \in 2..MaxMisses : i \in 1..MaxMisses /\ i # 1
  BY MissesAssumption
<1>7. \A i \in 2..MaxMisses : answered'[i] = answered[i - 1]
  BY <1>1, <1>6
<1> QED
  BY <1>3, <1>5, <1>7

\* One more fault is within the bound.
LEMMA FaultTyping ==
    ASSUME NEW kind, faults \in 0..MaxFaults, Fault(kind)
    PROVE  faults' \in 0..MaxFaults
  BY FaultsAssumption DEF Fault

\* The program starts without a reading.
LEMMA RecencyHoldsInitially == Init => IInv
<1> SUFFICES ASSUME Init PROVE IInv
  OBVIOUS
<1>1. AllMissed \in [1..MaxMisses -> BOOLEAN]
  BY DEF AllMissed
<1>2. LinkTypeOK
  <2>1. gauge \in None..100 /\ misses \in 0..MaxMisses /\ faults \in 0..MaxFaults
    BY MissesAssumption, FaultsAssumption DEF Init, None
  <2>2. {bound, bt, synced, reached, dongle} \subseteq BOOLEAN
    BY DEF Init
  <2>3. answered \in [1..MaxMisses -> BOOLEAN]
    BY <1>1 DEF Init
  <2> QED
    BY <2>1, <2>2, <2>3 DEF Init, LinkTypeOK
<1>3. Recency
  BY DEF Init, Recency, AllMissed, None
<1> QED
  BY <1>2, <1>3 DEF IInv

\* An answer moves the last answer to the front.
LEMMA AnswerKeepsRecency ==
    ASSUME IInv, a3wl_battery_answers
    PROVE  gauge' \in None..100 /\ misses' \in 0..MaxMisses /\ mouse' = "on"
           /\ answered' \in [1..MaxMisses -> BOOLEAN] /\ faults' \in 0..MaxFaults /\ Recency'
<1>1. PICK b \in Levels : gauge' = Percent(b)
  BY DEF a3wl_battery_answers
<1>2. gauge' \in 0..100
  BY <1>1, PercentRange
<1>3. misses' = 0 /\ Remember(TRUE) /\ mouse' = "on" /\ faults' = faults
  BY DEF a3wl_battery_answers
<1>4. answered' \in [1..MaxMisses -> BOOLEAN] /\ answered'[1] = TRUE
  BY <1>3, Remembered DEF IInv, LinkTypeOK
<1>5. gauge' # None /\ gauge' \in None..100
  BY <1>2 DEF None
<1>6. Recency'
  BY <1>3, <1>4, <1>5, MissesAssumption DEF Recency, None
<1> QED
  BY <1>3, <1>4, <1>5, <1>6, MissesAssumption DEF IInv, LinkTypeOK

\* A miss moves it one further back, or out of sight.
LEMMA SilenceKeepsRecency ==
    ASSUME IInv, a3wl_battery_silent
    PROVE  gauge' \in None..100 /\ misses' \in 0..MaxMisses /\ mouse' = mouse
           /\ answered' \in [1..MaxMisses -> BOOLEAN] /\ faults' \in 0..MaxFaults /\ Recency'
<1> USE MissesAssumption DEF IInv
<1>1. /\ misses' = IF misses < MaxMisses THEN misses + 1 ELSE misses
      /\ gauge' = IF misses' >= MaxMisses THEN None ELSE gauge
      /\ Remember(FALSE) /\ mouse' = mouse
  BY DEF a3wl_battery_silent
<1>2. faults' \in 0..MaxFaults
  BY FaultTyping DEF a3wl_battery_silent, LinkTypeOK
<1>3. /\ answered' \in [1..MaxMisses -> BOOLEAN] /\ answered'[1] = FALSE
      /\ \A i \in 2..MaxMisses : answered'[i] = answered[i - 1]
  BY <1>1, Remembered DEF LinkTypeOK
<1>4. misses \in 0..MaxMisses /\ misses' \in 0..MaxMisses
  BY <1>1 DEF LinkTypeOK
<1>5. gauge' \in None..100
  BY <1>1 DEF LinkTypeOK, None
<1>6. Recency'
  <2>1. CASE gauge = None
    <3>1. gauge' = None
      BY <1>1, <2>1
    <3>2. \A i \in 2..MaxMisses : ~answered[i - 1]
      BY <2>1 DEF Recency
    <3>3. \A i \in 1..MaxMisses : ~answered'[i]
      BY <1>3, <3>2
    <3> QED
      BY <3>1, <3>3 DEF Recency
  <2>2. CASE gauge # None
    <3>1. misses < MaxMisses /\ answered[misses + 1] /\ \A i \in 1..misses : ~answered[i]
      BY <2>2 DEF Recency
    <3>2. misses' = misses + 1
      BY <1>1, <3>1
    <3>3. \A i \in 1..misses' : ~answered'[i]
      BY <1>3, <1>4, <3>1, <3>2
    <3>4. CASE misses' = MaxMisses
      <4>1. gauge' = None
        BY <1>1, <1>4, <3>4
      <4> QED
        BY <3>3, <3>4, <4>1 DEF Recency
    <3>5. CASE misses' # MaxMisses
      <4>1. misses' < MaxMisses /\ gauge' = gauge
        BY <1>1, <1>4, <3>5
      <4>2. misses' + 1 \in 2..MaxMisses
        BY <1>4, <3>2, <4>1
      <4>3. answered'[misses' + 1] = answered[misses + 1]
        BY <1>3, <1>4, <3>2, <4>2
      <4> QED
        BY <2>2, <3>1, <3>3, <4>1, <4>3 DEF Recency
    <3> QED
      BY <3>4, <3>5
  <2> QED
    BY <2>1, <2>2
<1> QED
  BY <1>1, <1>2, <1>3, <1>4, <1>5, <1>6

\* What leaves the gauge alone keeps its relation to the past.
LEMMA UntouchedGauge ==
    ASSUME Recency, UNCHANGED linkVars
    PROVE  Recency'
  BY DEF Recency, linkVars

\* Every step keeps both.
LEMMA NextKeepsRecency == IInv /\ [Next]_vars => IInv'
<1> SUFFICES ASSUME IInv, [Next]_vars PROVE IInv'
  OBVIOUS
<1> USE DEF IInv
<1>1. CASE mouse_tick
  <2>1. bt' \in BOOLEAN /\ UNCHANGED <<node, radio, bound, synced, reached, wizard, dongle>>
    BY <1>1 DEF mouse_tick
  <2>2. /\ gauge' \in None..100 /\ misses' \in 0..MaxMisses /\ mouse' \in {"on", mouse}
        /\ answered' \in [1..MaxMisses -> BOOLEAN] /\ faults' \in 0..MaxFaults /\ Recency'
    BY <1>1, AnswerKeepsRecency, SilenceKeepsRecency DEF mouse_tick
  <2> QED
    BY <2>1, <2>2 DEF LinkTypeOK
<1>2. CASE tui_sync_device
  <2>1. UNCHANGED linkVars
    BY <1>2 DEF tui_sync_device
  <2>2. LinkTypeOK'
    BY <1>2 DEF tui_sync_device, LinkTypeOK, linkVars, InReach, Writable
  <2> QED
    BY <2>1, <2>2, UntouchedGauge
<1>3. CASE Wizard
  <2>1. UNCHANGED linkVars
    BY <1>3 DEF Wizard, mouse_key, pair_draw, PairEscape, PairNext, a3wl_pair
  <2>2. LinkTypeOK'
    <3> USE DEF LinkTypeOK, linkVars, world, Present
    <3>1. CASE mouse_key
      BY <3>1 DEF mouse_key
    <3>2. CASE pair_draw
      BY <3>2 DEF pair_draw
    <3>3. CASE PairEscape
      BY <3>3 DEF PairEscape
    <3>4. CASE PairNext
      BY <3>4 DEF PairNext
    <3>5. CASE a3wl_pair
      BY <3>5 DEF a3wl_pair, Writable
    <3> QED
      BY <1>3, <3>1, <3>2, <3>3, <3>4, <3>5 DEF Wizard
  <2> QED
    BY <2>1, <2>2, UntouchedGauge
<1>4. CASE World
  <2> USE DEF host
  <2>1. UNCHANGED host
    BY <1>4 DEF World, Enumerate, Unplug, Doze, Wake, TurnOff, TurnOn, Flick
  <2>2. faults' \in 0..MaxFaults
    BY <1>4, FaultTyping DEF World, Enumerate, Unplug, Doze, Wake, TurnOff, TurnOn, Flick, LinkTypeOK
  <2>3. node' \in {"same", "gone", "new"} /\ mouse' \in {"on", "asleep", "off"} /\ radio' \in {"2.4", "bt"}
        /\ bound' = bound
    BY <1>4 DEF World, Enumerate, Unplug, Doze, Wake, TurnOff, TurnOn, Flick, LinkTypeOK
  <2>4. LinkTypeOK'
    BY <2>1, <2>2, <2>3 DEF LinkTypeOK, linkVars
  <2> QED
    BY <2>1, <2>4, UntouchedGauge
<1>5. CASE UNCHANGED vars
  BY <1>5, UntouchedGauge DEF vars, world, linkVars, LinkTypeOK
<1> QED
  BY <1>1, <1>2, <1>3, <1>4, <1>5 DEF Next

\* The variables have their types in every state.
THEOREM LinkTyping == Spec => []LinkTypeOK
<1>1. IInv => LinkTypeOK
  BY DEF IInv
<1> QED
  BY <1>1, RecencyHoldsInitially, NextKeepsRecency, PTL DEF Spec

\* The gauge shows a reading exactly as long as one of the last MaxMisses queries
\* was answered: neither does a nap of the mouse blank it, nor does it keep showing
\* what a lost mouse said (mouse_tick, mouse_enter).
THEOREM GaugeStaysRecent == Spec => []GaugeIsRecent
<1>1. IInv => GaugeIsRecent
  <2> SUFFICES ASSUME IInv PROVE GaugeIsRecent
    OBVIOUS
  <2>1. gauge # None => misses + 1 \in 1..MaxMisses
    BY MissesAssumption DEF IInv, LinkTypeOK, Recency
  <2> QED
    BY <2>1 DEF IInv, Recency, GaugeIsRecent
<1> QED
  BY <1>1, RecencyHoldsInitially, NextKeepsRecency, PTL DEF Spec
=============================================================================
