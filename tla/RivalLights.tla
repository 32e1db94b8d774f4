----------------------------- MODULE RivalLights ------------------------------
(***************************************************************************)
(* The lighting of the Rival 3 Gen 2 (drivers/steelseries/rival3_gen2): a  *)
(* batch of up to four commands of SteelCommand whose order the firmware's *)
(* rainbow engine dictates, and the one-command steps beside it, for which *)
(* brightness stands.  The mouse is modelled from the comments of the      *)
(* driver and Documentation/protocol/steelseries-rival3-gen2.rst.          *)
(***************************************************************************)
EXTENDS SteelCommand

CONSTANTS
    Zone,            \* of the illumination strip
    Color,           \* static colours
    Rainbow, Dark    \* what else a zone can show

ASSUME ShadeAssumption == Rainbow \notin Color /\ Dark \notin Color /\ Rainbow # Dark

Shade == Color \cup {Rainbow, Dark}

\* zone_fx, zone_color, reactive_enabled and the brightness, low or high
Lights == [fx : [Zone -> BOOLEAN], color : [Zone -> Color],
           reactive : BOOLEAN, bright : BOOLEAN]

\* the device: the rainbow engine and what each zone shows
Lamps == [engine : BOOLEAN, shown : [Zone -> Shade],
          reactive : BOOLEAN, bright : BOOLEAN]

Opcode == {"startup", "rainbow", "colors", "reactive", "brightness"}

\* a payload is built from the configuration as it was at that moment
LightCommand == [op : Opcode, of : Lights]

ASSUME PayloadAssumption == Command = LightCommand

LightStep == {"colors", "brightness"}

VARIABLES
    cfg,    \* the working configuration
    dev,    \* the mouse
    step,   \* the apply step that is running, or "none"
    todo,   \* the commands it has still to issue
    ret,    \* no command of it has failed yet
    acked   \* history: did the step's last run return 0, with cfg as it is?

stepVars == <<cfg, dev, step, todo, ret, acked>>
lightVars == <<commandVars, stepVars>>

LightsTypeOK ==
    /\ CommandTypeOK
    /\ cfg \in Lights
    /\ dev \in Lamps
    /\ step \in LightStep \cup {"none"}
    /\ todo \in Seq(Opcode)
    /\ ret \in BOOLEAN
    /\ acked \in [LightStep -> BOOLEAN]

\* whatever the last session, or another program, left on the mouse
LightsInit ==
    /\ CommandInit
    /\ cfg \in Lights
    /\ dev \in {d \in Lamps : ~d.engine => \A z \in Zone : d.shown[z] # Rainbow}
    /\ step = "none" /\ todo = <<>>
    /\ ret = TRUE
    /\ acked = [s \in LightStep |-> FALSE]

-----------------------------------------------------------------------------
(* The driver.                                                             *)

\* the masks of r3g2_build_rainbow() and r3g2_build_colors()
Cycling(c) == {z \in Zone : c.fx[z]}
Static(c) == Zone \ Cycling(c)

If(test, s) == IF test THEN s ELSE <<>>

\* mutant: the engine is switched last
Batch_EngineLast(c) ==
    If(Cycling(c) # {}, <<"rainbow">>) \o If(Static(c) # {}, <<"colors">>)
        \o <<"reactive", "startup">>

\* r3g2_apply_colors(): nothing is sent for an empty mask
Batch(c) ==
    <<"startup">> \o If(Cycling(c) # {}, <<"rainbow">>)
        \o If(Static(c) # {}, <<"colors">>) \o <<"reactive">>

Begin(s) ==
    /\ step = "none"
    /\ step' = s
    /\ todo' = IF s = "colors" THEN Batch(cfg') ELSE <<"brightness">>
    /\ ret' = TRUE
    /\ UNCHANGED <<commandVars, dev, acked>>

\* live preview: an edit is pushed at once
EditZone ==
    /\ \E z \in Zone : \/ cfg' = [cfg EXCEPT !.fx[z] = ~cfg.fx[z]]
                       \/ \E k \in Color : cfg' = [cfg EXCEPT !.color[z] = k]
    /\ Begin("colors")

EditBrightness ==
    /\ cfg' = [cfg EXCEPT !.bright = ~cfg.bright]
    /\ Begin("brightness")

\* an edit with live preview off, or the baseline that REVERT takes over: what
\* was shown is no longer what is wanted.  The click flash is not edited here.
Rewrite ==
    /\ step = "none"
    /\ cfg' \in {c \in Lights : c.reactive = cfg.reactive}
    /\ acked' = [s \in LightStep |-> FALSE]
    /\ UNCHANGED <<commandVars, dev, step, todo, ret>>

\* alloy_driver_apply_all(): the handshake, SAVE, REVERT and the live toggle
\* push a step whatever it pushed last
PushAgain ==
    /\ UNCHANGED cfg
    /\ \E s \in LightStep : Begin(s)

IssueNext ==
    /\ step # "none" /\ todo # <<>>
    /\ Issue([op |-> Head(todo), of |-> cfg])
    /\ todo' = Tail(todo)
    /\ UNCHANGED <<cfg, dev, step, ret, acked>>

\* ret |= steelseries_cmd(...): the batch goes on after a command that failed
HostStep ==
    /\ Host
    /\ ret' = (ret /\ result' # "silent")
    /\ UNCHANGED <<cfg, dev, step, todo, acked>>

StepDone ==
    /\ step # "none" /\ todo = <<>> /\ stage = "idle"
    /\ step' = "none"
    /\ acked' = [acked EXCEPT ![step] = ret]
    /\ UNCHANGED <<commandVars, cfg, dev, todo, ret>>

-----------------------------------------------------------------------------
(* The mouse.                                                              *)

\* r3g2_build_startup(): its rainbow byte is the engine's master switch.  Off
\* leaves the cycling zones dark and may turn off the others; on enrolls every
\* zone, which a second on may do again.
Switch(d, on) ==
    IF on
      THEN {[d EXCEPT !.engine = TRUE, !.shown = [z \in Zone |-> Rainbow]]}
             \cup {e \in {d} : e.engine}
      ELSE {[d EXCEPT !.engine = FALSE,
                      !.shown = [z \in Zone |-> IF z \in off THEN Dark ELSE d.shown[z]]] :
              off \in {o \in SUBSET Zone : {z \in Zone : d.shown[z] = Rainbow} \subseteq o}}

\* what a command may make of the mouse
Outcome(d, c) ==
    CASE c.op = "startup" -> Switch(d, Cycling(c.of) # {})
      [] c.op = "rainbow" ->
           {IF d.engine
              THEN [d EXCEPT !.shown = [z \in Zone |-> IF z \in Cycling(c.of) THEN Rainbow
                                                       ELSE d.shown[z]]]
              ELSE d}
      [] c.op = "colors" ->
           {[d EXCEPT !.shown = [z \in Zone |-> IF z \in Static(c.of) THEN c.of.color[z]
                                                ELSE d.shown[z]]]}
      [] c.op = "reactive" -> {[d EXCEPT !.reactive = c.of.reactive]}
      [] c.op = "brightness" -> {[d EXCEPT !.bright = c.of.bright]}

MouseStep ==
    /\ Take
    /\ dev' \in Outcome(dev, Head(air))
    /\ UNCHANGED <<cfg, step, todo, ret, acked>>

LinkStep ==
    /\ Drop \/ Stray
    /\ UNCHANGED stepVars

LightsNext ==
    \/ EditZone \/ EditBrightness \/ Rewrite \/ PushAgain
    \/ IssueNext \/ HostStep \/ StepDone
    \/ MouseStep \/ LinkStep

LightsSpec == LightsInit /\ [][LightsNext]_lightVars

-----------------------------------------------------------------------------

\* what the configuration says the strip should show
Wanted(c) == [z \in Zone |-> IF c.fx[z] THEN Rainbow ELSE c.color[z]]

\* A step that returned 0 has arrived: every zone shows what the configuration
\* says, the click flash and the brightness too, from whatever state the mouse
\* was in and although commands were lost, repeated or failed before
\* (r3g2_apply_colors: "the mode goes out first").  This is what Session
\* assumes of a push that was acknowledged.
AckedIsShown ==
    step = "none" =>
        /\ acked["colors"] => dev.shown = Wanted(cfg) /\ dev.reactive = cfg.reactive
        /\ acked["brightness"] => dev.bright = cfg.bright
==============================================================================
