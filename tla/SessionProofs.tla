---------------------------- MODULE SessionProofs ----------------------------
(***************************************************************************)
(* What is proved of Session for every set of values, table size, fault    *)
(* and bound.  Three inductive invariants: Shape, which is about types,    *)
(* the handler that is running and the reports under way; Honest, which    *)
(* says what the dirty flag and the baseline mean while a handler runs;    *)
(* and Shown, which says what the device still owes the screen.            *)
(***************************************************************************)
EXTENDS Session, SequenceTheorems, TLAPS

\* what a handler may have left to push
Plans == {<<>>, <<"dpi">>, <<"light">>, <<"dpi", "light">>}

\* no level command is left to push
Spared == todo \in {<<>>, <<"light">>}

\* where the level reports under way are within the bound of the button:
\* wherever a level command is still to come, and all along the handshake
Early == \/ pc \in {"sync", "key", "confirm"}
         \/ pc = "apply" /\ (~Spared \/ task = "sync")

Shape ==
    /\ SessionTypeOK
    /\ todo \in Plans
    /\ pc = "apply" /\ task = "sync" => Spared
    /\ Early => Len(events) <= MaxPresses

Reverting == pc = "apply" /\ task \in {"revert", "discard"}

Honest ==
    /\ IF Reverting THEN cfg = baseline ELSE dirty <=> cfg # baseline
    /\ Settings(baseline) = kept
    /\ quit # "no" => pc = "done" /\ cfg = baseline

-----------------------------------------------------------------------------

\* Sequences of one and of two elements, and what consuming one leaves.
LEMMA Singleton ==
    ASSUME NEW S, NEW a \in S
    PROVE  /\ <<a>> \in Seq(S) /\ <<a>> # <<>> /\ Len(<<a>>) = 1
           /\ Head(<<a>>) = a /\ Tail(<<a>>) = <<>>
  OBVIOUS

LEMMA Pair ==
    ASSUME NEW S, NEW a \in S, NEW b \in S
    PROVE  /\ <<a, b>> \in Seq(S) /\ <<a, b>> # <<>> /\ Len(<<a, b>>) = 2
           /\ Head(<<a, b>>) = a /\ Tail(<<a, b>>) = <<b>>
           /\ <<a, b>> # <<a>> /\ <<a, b>> # <<b>>
<1> DEFINE s == <<a, b>>
<1>1. s \in Seq(S) /\ Len(s) = 2 /\ s # <<>> /\ s[2] = b
  OBVIOUS
<1>2. Tail(s) \in Seq(S) /\ Len(Tail(s)) = 1 /\ Tail(s)[1] = s[2]
  BY <1>1, HeadTailProperties
<1>3. Tail(s) = <<b>>
  BY <1>1, <1>2, SeqEqual
<1> QED BY <1>1, <1>3

\* Consuming a plan leaves a plan.
LEMMA PlanTail ==
    ASSUME NEW p \in Plans, p # <<>>
    PROVE  /\ Head(p) \in Step
           /\ Tail(p) \in {<<>>, <<"light">>}
           /\ Head(p) = "dpi" => p \notin {<<>>, <<"light">>}
           /\ p = <<"light">> => Head(p) = "light" /\ Tail(p) = <<>>
<1>1. "dpi" \in Step /\ "light" \in Step
  BY DEF Step
<1>2. CASE p = <<"dpi">>
  BY <1>1, <1>2, Singleton
<1>3. CASE p = <<"light">>
  BY <1>1, <1>3, Singleton
<1>4. CASE p = <<"dpi", "light">>
  BY <1>1, <1>4, Pair
<1> QED BY <1>2, <1>3, <1>4 DEF Plans

\* A plan is a sequence of at most two steps.
LEMMA PlanSeq ==
    ASSUME NEW p \in Plans
    PROVE  p \in Seq(Step) /\ Len(p) <= 2
<1>1. "dpi" \in Step /\ "light" \in Step
  BY DEF Step
<1>2. CASE p = <<>>
  BY <1>2
<1>3. CASE p = <<"dpi">>
  BY <1>1, <1>3, Singleton
<1>4. CASE p = <<"light">>
  BY <1>1, <1>4, Singleton
<1>5. CASE p = <<"dpi", "light">>
  BY <1>1, <1>5, Pair
<1> QED BY <1>2, <1>3, <1>4, <1>5 DEF Plans

\* A level report makes the queue of reports longer by one at most.
LEMMA ReportGrows ==
    ASSUME NEW l \in Levels, events \in Seq(Levels), Report(l)
    PROVE  /\ events' \in Seq(Levels) /\ Len(events') <= Len(events) + 1
           /\ l = ram.level => events' = events
<1>1. CASE l = ram.level
  BY <1>1 DEF Report
<1>2. CASE l # ram.level
  BY <1>2 DEF Report
<1> QED BY <1>1, <1>2

\* A command the device takes leaves it with settings a device can have.
LEMMA TakenDevice ==
    ASSUME NEW d \in Device, NEW s \in Step, NEW c \in Config
    PROVE  /\ Taken(d, s, c) \in Device
           /\ s = "light" => Taken(d, s, c).level = d.level
  BY DEF Taken, Device, Config, Step

\* The settings of a configuration are a configuration, at level 0.
LEMMA SettingsConfig ==
    ASSUME NEW c \in Config
    PROVE  Settings(c) \in Config
<1>1. 0 \in Levels
  BY SessionAssumption DEF Levels
<1> QED BY <1>1 DEF Settings, Config

\* Moving the level leaves the other settings alone.
LEMMA LevelIsNoSetting ==
    ASSUME NEW c \in Config, NEW l \in Levels
    PROVE  /\ [c EXCEPT !.level = l] \in Config
           /\ Settings([c EXCEPT !.level = l]) = Settings(c)
  BY DEF Config, Settings

-----------------------------------------------------------------------------

\* Pushing one step to the device.
LEMMA PushShape ==
    ASSUME Shape, Push
    PROVE  Shape'
<1> USE DEF Shape, SessionTypeOK
<1>1. /\ pc = "apply" /\ todo # <<>> /\ Head(todo) \in Step
      /\ Tail(todo) \in {<<>>, <<"light">>}
      /\ Head(todo) = "dpi" => ~Spared
  BY PlanTail DEF Push, Spared
<1>2. ram' \in Device /\ (Head(todo) = "light" => ram'.level = ram.level)
  <2>1. ram' = ram \/ ram' = Taken(ram, Head(todo), cfg)
    BY Zenon DEF Push
  <2>2. /\ Taken(ram, Head(todo), cfg) \in Device
        /\ Head(todo) = "light" => Taken(ram, Head(todo), cfg).level = ram.level
    <3>1. ram \in Device /\ cfg \in Config
      OBVIOUS
    <3>2. Head(todo) \in Step
      BY <1>1
    <3> HIDE DEF Shape, SessionTypeOK
    <3> QED BY <3>1, <3>2, TakenDevice
  <2> QED BY <2>1, <2>2
<1>3. ram'.level \in Levels
  BY <1>2 DEF Device
<1>4. /\ events' \in Seq(Levels) /\ Len(events') <= Len(events) + 1
      /\ Head(todo) = "light" => events' = events
  BY <1>2, <1>3, ReportGrows DEF Push
<1>5. Len(events') <= MaxPresses + 2 /\ (Early' => Len(events') <= MaxPresses)
  <2>1. Len(events) \in Nat /\ Len(events') \in Nat /\ MaxPresses \in Nat
    BY <1>4, SessionAssumption
  <2>2. CASE Head(todo) = "light"
    BY <1>1, <1>4, <2>1, <2>2 DEF Early, Push, Back, Spared
  <2>3. CASE Head(todo) = "dpi"
    <3>1. Len(events) <= MaxPresses
      BY <1>1, <2>3 DEF Early
    <3>2. ~Early'
      BY <1>1, <2>3 DEF Early, Push, Back, Spared
    <3> QED BY <1>4, <2>1, <3>1, <3>2
  <2> QED BY <1>1, <2>2, <2>3 DEF Step
<1>6. todo' \in Plans /\ (pc' = "apply" /\ task' = "sync" => Spared')
  BY <1>1 DEF Push, Back, Plans, Spared
<1>7. acked' \in [Step \cup {"disk"} -> BOOLEAN]
  BY <1>1 DEF Push
<1>8. todo' \in Seq(Step) /\ Len(todo') <= 2
  BY <1>6, PlanSeq
<1> QED
  BY <1>2, <1>4, <1>5, <1>6, <1>7, <1>8 DEF Push, Back, host, Task

\* A press of the CPI button.
LEMMA PressShape ==
    ASSUME Shape, Press
    PROVE  Shape'
<1> USE DEF Shape, SessionTypeOK
<1> DEFINE l == (ram.level + 1) % ram.count
<1>1. ram \in Device /\ ram.level \in Nat /\ ram.count \in 1 .. MaxLevels
  BY SessionAssumption DEF Device, Levels
<1>2. l \in 0 .. ram.count - 1
  BY <1>1, SessionAssumption
<1>3. l \in Levels
  BY <1>1, <1>2, SessionAssumption DEF Levels
<1>4. ram' \in Device
  BY <1>1, <1>3 DEF Press, Device
<1>5. Report(l)
  BY DEF Press
<1>6. events' \in Seq(Levels) /\ Len(events') <= Len(events) + 1
  BY <1>3, <1>5, ReportGrows
<1>7. Len(events') <= MaxPresses
  <2>1. Len(events) \in Nat /\ Len(events') \in Nat /\ MaxPresses \in Nat
    BY <1>6, SessionAssumption
  <2> QED BY <1>6, <2>1 DEF Press
<1>8. Len(events') <= MaxPresses + 2
  BY <1>6, <1>7, SessionAssumption
<1> QED
  BY <1>4, <1>6, <1>7, <1>8 DEF Press, host, Spared, Early

\* Reading one level report.
LEMMA DrainShape ==
    ASSUME Shape, Drain
    PROVE  Shape'
<1> USE DEF Shape, SessionTypeOK
<1>1. Head(events) \in Levels /\ events' \in Seq(Levels) /\ Len(events') = Len(events) - 1
  BY HeadTailProperties DEF Drain
<1>2. Len(events') <= MaxPresses + 2
  BY <1>1, SessionAssumption
<1>3. ~Early /\ ~Early'
  BY DEF Drain, Early
<1> DEFINE l == Head(events)
<1>4. cfg' \in Config /\ baseline' \in Config /\ dirty' \in BOOLEAN
  <2>1. CASE l < cfg.count /\ l # cfg.level
    <3>1. cfg' = [cfg EXCEPT !.level = l] /\ baseline' = [baseline EXCEPT !.level = l]
      BY <2>1 DEF Drain, Fold
    <3>2. dirty' = (cfg' # baseline')
      BY <2>1, Zenon DEF Drain, Fold
    <3>3. dirty' \in BOOLEAN
      BY <3>2, Zenon
    <3> QED BY <1>1, <3>1, <3>3, LevelIsNoSetting
  <2>2. CASE ~(l < cfg.count /\ l # cfg.level)
    <3>1. UNCHANGED <<cfg, baseline, dirty>>
      BY <2>2, Zenon DEF Drain, Fold
    <3> QED BY <3>1
  <2> QED BY <2>1, <2>2
<1> QED
  BY <1>1, <1>2, <1>3, <1>4 DEF Drain, Spared

\* What a store leaves behind.
LEMMA StoreTypes ==
    ASSUME NEW c \in Config, disk \in Config, acked \in [Step \cup {"disk"} -> BOOLEAN],
           Store(c) \/ NoStore
    PROVE  disk' \in Config /\ acked' \in [Step \cup {"disk"} -> BOOLEAN]
<1>1. CASE Store(c)
  BY <1>1 DEF Store
<1>2. CASE NoStore
  BY <1>2 DEF NoStore
<1> QED BY <1>1, <1>2

\* Beginning or ending a handler keeps the shape, given the rest of it.
LEMMA Turns ==
    ASSUME Shape, pc # "apply" \/ todo = <<>>, UNCHANGED events,
           \/ \E to \in {"drain", "done"} : Back(to)
           \/ \E to \in {"key", "confirm", "sync"} :
                Back(to) /\ Len(events) <= MaxPresses
           \/ \E t \in Task \ {"sync"}, p \in Plans :
                Begin(t, p) /\ Len(events) <= MaxPresses
           \/ Begin("sync", <<"light">>) /\ Len(events) <= MaxPresses
    PROVE  /\ pc' \in {"drain", "sync", "key", "confirm", "apply", "done"}
           /\ task' \in Task
           /\ todo' \in Seq(Step) /\ Len(todo') <= 2
           /\ todo' \in Plans
           /\ pc' = "apply" /\ task' = "sync" => Spared'
           /\ Early' => Len(events') <= MaxPresses
<1>1. task' \in Task /\ todo' \in Plans
  BY DEF Back, Begin, Task, Plans
<1>2. todo' \in Seq(Step) /\ Len(todo') <= 2
  BY <1>1, PlanSeq
<1>3. /\ pc' \in {"drain", "sync", "key", "confirm", "apply", "done"}
      /\ pc' = "apply" /\ task' = "sync" => Spared'
      /\ Early' => Len(events') <= MaxPresses
  BY DEF Back, Begin, Task, Spared, Early
<1> QED BY <1>1, <1>2, <1>3

\* The rest of the frame loop.
LEMMA FrameShape ==
    ASSUME Shape, Drained \/ Sync \/ SyncDone \/ Idle
    PROVE  Shape'
<1> USE DEF Shape, SessionTypeOK, host, device
<1>1. CASE Drained
  BY <1>1, SessionAssumption DEF Drained, Early, Spared
<1>2. CASE Sync
  BY <1>2, Turns DEF Sync, Early, Plans
<1>3. CASE SyncDone
  <2>1. Len(events) <= MaxPresses
    BY <1>3 DEF SyncDone, Early
  <2> QED BY <1>3, <2>1, Turns DEF SyncDone
<1>4. CASE Idle
  BY <1>4 DEF Idle, Early, Spared
<1> QED BY <1>1, <1>2, <1>3, <1>4

\* Recording the intent to have the engine on, or off.
LEMMA Intended ==
    ASSUME NEW c \in Config, NEW v \in BOOLEAN
    PROVE  [c EXCEPT !.enabled = v] \in Config
  BY DEF Config

\* Edits of the device's settings.
LEMMA EditShape ==
    ASSUME Shape, EditLight \/ ActivateLevel \/ CreateLevel
    PROVE  Shape'
<1> USE DEF Shape, SessionTypeOK
<1>1. /\ pc = "key" /\ edits < MaxEdits
      /\ \E s \in Step : Changed(s)
  BY DEF EditLight, ActivateLevel, CreateLevel, MayEdit, Step
<1>2. cfg' \in Config
  <2>1. CASE EditLight
    <3>1. PICK v \in Light : cfg' = [cfg EXCEPT !.light = v]
      BY <2>1 DEF EditLight
    <3> QED BY <3>1 DEF Config
  <2>2. CASE ActivateLevel
    <3>1. cfg.count \in 1 .. MaxLevels
      BY DEF Config
    <3>2. 0 .. cfg.count - 1 \subseteq Levels
      BY <3>1, SessionAssumption DEF Levels
    <3> QED BY <2>2, <3>2, LevelIsNoSetting DEF ActivateLevel
  <2>3. CASE CreateLevel
    <3>1. cfg.count \in 1 .. MaxLevels /\ cfg.count < MaxLevels
      BY <2>3 DEF CreateLevel, Config
    <3>2. cfg.count + 1 \in 1 .. MaxLevels
      BY <3>1, SessionAssumption
    <3>3. cfg' = [cfg EXCEPT !.count = cfg.count + 1]
      BY <2>3 DEF CreateLevel
    <3> QED BY <3>2, <3>3 DEF Config
  <2> QED BY <2>1, <2>2, <2>3
<1>3. PICK s \in Step : Changed(s)
  BY <1>1
<1>4. Len(events) <= MaxPresses
  BY <1>1 DEF Early
<1>5. <<s>> \in Plans
  BY DEF Plans, Step
<1>6. (\E t \in Task \ {"sync"}, p \in Plans : Begin(t, p)) \/ Back("drain")
  BY <1>3, <1>5 DEF Changed, Task
<1>7. UNCHANGED <<baseline, disk, live, synced, engine, quit, kept, ram, flash, events, acked>>
  BY <1>3 DEF Changed, device
<1>8. /\ pc' \in {"drain", "sync", "key", "confirm", "apply", "done"}
      /\ task' \in Task
      /\ todo' \in Seq(Step) /\ Len(todo') <= 2
      /\ todo' \in Plans
      /\ pc' = "apply" /\ task' = "sync" => Spared'
      /\ Early' => Len(events') <= MaxPresses
  BY <1>1, <1>4, <1>6, <1>7, Turns
<1>9. edits' \in 0 .. MaxEdits
  BY <1>1, <1>3, SessionAssumption DEF Changed
<1>10. dirty' \in BOOLEAN
  <2>1. dirty' = (cfg' # baseline)
    BY <1>3, Zenon DEF Changed
  <2> QED BY <2>1, Zenon
<1> QED BY <1>2, <1>7, <1>8, <1>9, <1>10

\* Edits of the pointer transform and its engine.
LEMMA EngineShape ==
    ASSUME Shape, EditAccel \/ EngineOn \/ EngineOff \/ EngineFails
    PROVE  Shape'
<1> USE DEF Shape, SessionTypeOK
<1>1. /\ pc = "key" /\ edits < MaxEdits /\ edits' = edits + 1
      /\ Back("drain")
      /\ UNCHANGED <<baseline, live, synced, quit, kept, ram, flash, events>>
      /\ engine' \in BOOLEAN
  BY DEF EditAccel, EngineOn, EngineOff, EngineFails, Switched, MayEdit, device
<1>2. cfg' \in Config
  <2>1. CASE EditAccel
    <3>1. PICK v \in Accel : cfg' = [cfg EXCEPT !.accel = v]
      BY <2>1 DEF EditAccel
    <3> QED BY <3>1 DEF Config
  <2>2. CASE EngineOn \/ EngineOff \/ EngineFails
    <3>1. cfg' = [cfg EXCEPT !.enabled = TRUE] \/ cfg' = [cfg EXCEPT !.enabled = FALSE]
      BY <2>2, Zenon DEF EngineOn, EngineOff, EngineFails, Switched
    <3> QED BY <3>1, Intended
  <2> QED BY <2>1, <2>2
<1>3. disk' \in Config /\ acked' \in [Step \cup {"disk"} -> BOOLEAN]
  <2>1. CASE EditAccel \/ EngineOn \/ EngineOff
    <3>1. Store(cfg') \/ NoStore
      BY <2>1 DEF EditAccel, EngineOn, EngineOff
    <3> QED BY <1>2, <3>1, StoreTypes
  <2>2. CASE EngineFails
    <3>1. [cfg EXCEPT !.enabled = TRUE] \in Config
      BY Intended
    <3>2. PICK first, last \in Writes :
            /\ disk' = IF last = "written" THEN cfg'
                       ELSE IF first = "written" THEN [cfg EXCEPT !.enabled = TRUE]
                       ELSE disk
            /\ acked' = [acked EXCEPT !["disk"] = (last = "written")]
      BY <2>2, Zenon DEF EngineFails
    <3>3. disk' \in {cfg', [cfg EXCEPT !.enabled = TRUE], disk}
      BY <3>2, Zenon
    <3>4. acked' \in [Step \cup {"disk"} -> BOOLEAN]
      BY <3>2
    <3> QED BY <1>2, <3>1, <3>3, <3>4
  <2> QED BY <2>1, <2>2
<1>4. dirty' \in BOOLEAN
  <2>1. dirty' = (cfg' # baseline)
    BY Zenon DEF EditAccel, EngineOn, EngineOff, EngineFails, Switched
  <2> QED BY <2>1, Zenon
<1>5. /\ pc' \in {"drain", "sync", "key", "confirm", "apply", "done"}
      /\ task' \in Task
      /\ todo' \in Seq(Step) /\ Len(todo') <= 2
      /\ todo' \in Plans
      /\ pc' = "apply" /\ task' = "sync" => Spared'
      /\ Early' => Len(events') <= MaxPresses
  BY <1>1, Turns
<1>6. edits' \in 0 .. MaxEdits
  BY <1>1, SessionAssumption
<1> QED BY <1>1, <1>2, <1>3, <1>4, <1>5, <1>6

\* The footer, the save key and the way out, as far as they only begin a task.
LEMMA BeginShape ==
    ASSUME Shape, ToggleLive \/ Save \/ SaveAndQuit \/ Revert \/ QuitWithoutSaving
    PROVE  Shape'
<1> USE DEF Shape, SessionTypeOK, host, device
<1>1. Len(events) <= MaxPresses /\ UNCHANGED events /\ pc # "apply"
  BY DEF ToggleLive, Save, SaveAndQuit, StartSave, Revert, QuitWithoutSaving,
         StartRevert, Early
<1>2. (\E t \in Task \ {"sync"}, p \in Plans : Begin(t, p)) \/ Back("drain")
  BY DEF ToggleLive, Save, SaveAndQuit, StartSave, Revert, QuitWithoutSaving,
         StartRevert, Task, Plans, All
<1>3. /\ pc' \in {"drain", "sync", "key", "confirm", "apply", "done"}
      /\ task' \in Task
      /\ todo' \in Seq(Step) /\ Len(todo') <= 2
      /\ todo' \in Plans
      /\ pc' = "apply" /\ task' = "sync" => Spared'
      /\ Early' => Len(events') <= MaxPresses
  BY <1>1, <1>2, Turns
<1>4. /\ cfg' \in {cfg, baseline}
      /\ live' \in BOOLEAN
      /\ UNCHANGED <<baseline, disk, dirty, synced, engine, quit, kept, ram, flash,
                     edits, acked>>
  BY DEF ToggleLive, Save, SaveAndQuit, StartSave, Revert, QuitWithoutSaving,
         StartRevert
<1> QED BY <1>1, <1>3, <1>4

\* The ways a task or a session ends.
LEMMA EndShape ==
    ASSUME Shape, SaveWorks \/ SaveFails \/ RevertDone \/ Quit \/ Cancel
    PROVE  Shape'
<1> USE DEF Shape, SessionTypeOK, host, device
<1>1. UNCHANGED events /\ (pc # "apply" \/ todo = <<>>)
  BY DEF SaveWorks, SaveFails, Saving, RevertDone, Quit, Cancel
<1>2. \/ \E to \in {"drain", "done"} : Back(to)
      \/ \E to \in {"key", "confirm", "sync"} : Back(to) /\ Len(events) <= MaxPresses
  BY DEF SaveWorks, SaveFails, RevertDone, Quit, Cancel, Early
<1>3. /\ pc' \in {"drain", "sync", "key", "confirm", "apply", "done"}
      /\ task' \in Task
      /\ todo' \in Seq(Step) /\ Len(todo') <= 2
      /\ todo' \in Plans
      /\ pc' = "apply" /\ task' = "sync" => Spared'
      /\ Early' => Len(events') <= MaxPresses
  BY <1>1, <1>2, Turns
<1>4. /\ baseline' \in {cfg, baseline}
      /\ dirty' \in BOOLEAN /\ flash' \in {flash, ram}
      /\ quit' \in {"no", "clean", "saved", "discarded"}
      /\ UNCHANGED <<cfg, live, synced, engine, ram, edits>>
  BY DEF SaveWorks, SaveFails, RevertDone, Quit, Cancel
<1>5. kept' \in Config
  <2>1. kept' \in {kept, Settings(cfg)}
    BY DEF SaveWorks, SaveFails, RevertDone, Quit, Cancel
  <2>2. Settings(cfg) \in Config
    BY SettingsConfig
  <2> QED BY <2>1, <2>2
<1>6. disk' \in Config /\ acked' \in [Step \cup {"disk"} -> BOOLEAN]
  <2>1. Store(cfg) \/ NoStore
    BY DEF SaveWorks, SaveFails, RevertDone, Quit, Cancel, NoStore
  <2> QED BY <2>1, StoreTypes
<1> QED BY <1>1, <1>3, <1>4, <1>5, <1>6

\* The state every session starts in.
LEMMA InitShape == SessionInit => Shape
<1> SUFFICES ASSUME SessionInit PROVE Shape
  OBVIOUS
<1>1. Settings(disk) \in Config
  BY SettingsConfig DEF SessionInit
<1>2. acked \in [Step \cup {"disk"} -> BOOLEAN]
  BY DEF SessionInit
<1>3. todo \in Plans /\ todo \in Seq(Step) /\ Len(todo) <= 2
  BY PlanSeq DEF SessionInit, Plans
<1>4. Len(events) = 0 /\ events \in Seq(Levels)
  BY DEF SessionInit
<1>5. 0 <= MaxPresses /\ 0 <= MaxPresses + 2 /\ edits \in 0 .. MaxEdits
  BY SessionAssumption DEF SessionInit
<1> QED
  BY <1>1, <1>2, <1>3, <1>4, <1>5 DEF SessionInit, Shape, SessionTypeOK, Task, Spared

LEMMA ShapeStep == Shape /\ [SessionNext]_sessionVars => Shape'
<1> SUFFICES ASSUME Shape, [SessionNext]_sessionVars PROVE Shape'
  OBVIOUS
<1>1. CASE Press
  BY <1>1, PressShape
<1>2. CASE Push
  BY <1>2, PushShape
<1>3. CASE Frame
  BY <1>3, DrainShape, FrameShape DEF Frame
<1>4. CASE Edit
  BY <1>4, EditShape, EngineShape DEF Edit
<1>5. CASE Footer
  BY <1>5, BeginShape, EndShape DEF Footer
<1>6. CASE UNCHANGED sessionVars
  BY <1>6 DEF Shape, SessionTypeOK, Spared, Early, sessionVars, host, device
<1> QED BY <1>1, <1>2, <1>3, <1>4, <1>5, <1>6 DEF SessionNext

LEMMA ShapeAlways == SessionSpec => []Shape
  BY InitShape, ShapeStep, PTL DEF SessionSpec

\* Every reachable state is well-typed, whatever the values and bounds: in
\* particular the level table never outgrows what the mouse holds, and the
\* reports under way stay within two of the bound of the button.
THEOREM SessionTyping == SessionSpec => []SessionTypeOK
<1>1. Shape => SessionTypeOK
  BY DEF Shape
<1> QED BY <1>1, ShapeAlways, PTL

-----------------------------------------------------------------------------
(* What the dirty flag means while a handler runs.                         *)

\* Actions that change neither side of the comparison, nor the flag.
LEMMA Untouched ==
    ASSUME Honest, UNCHANGED <<cfg, baseline, dirty, kept, quit>>,
           Reverting' <=> Reverting, quit # "no" => pc' = pc
    PROVE  Honest'
<1>1. Settings(baseline') = kept' /\ (quit' # "no" => pc' = "done" /\ cfg' = baseline')
  BY DEF Honest
<1>2. CASE Reverting
  BY <1>1, <1>2, Zenon DEF Honest
<1>3. CASE ~Reverting
  BY <1>1, <1>3, Zenon DEF Honest
<1> QED BY <1>2, <1>3

\* Actions that refresh the flag and keep the baseline's settings.
LEMMA Refreshed ==
    ASSUME Honest, dirty' = (cfg' # baseline'), quit = "no", UNCHANGED <<quit, kept>>,
           ~Reverting', Settings(baseline') = Settings(baseline)
    PROVE  Honest'
  BY Zenon DEF Honest

LEMMA HonestStep == Shape /\ Honest /\ [SessionNext]_sessionVars => Honest'
<1> SUFFICES ASSUME Shape, Honest, [SessionNext]_sessionVars PROVE Honest'
  OBVIOUS
<1>1. pc # "done" => quit = "no"
  BY DEF Honest
<1>2. CASE Press \/ Push \/ Drained \/ Sync \/ SyncDone \/ Idle \/ Cancel \/ SaveFails
           \/ Save \/ SaveAndQuit \/ ToggleLive
  <2>1. UNCHANGED <<cfg, baseline, dirty, kept, quit>>
    BY <1>2 DEF Press, Push, Drained, Sync, SyncDone, Idle, Cancel, SaveFails, Save,
           SaveAndQuit, StartSave, ToggleLive, host
  <2>2. Reverting' <=> Reverting
    <3>1. CASE Push
      BY <1>2, <3>1 DEF Push, Back, Reverting
    <3>2. CASE Press \/ Drained \/ Sync \/ SyncDone \/ Idle \/ Cancel
      BY <3>2 DEF Press, Drained, Sync, SyncDone, Idle, Cancel, Back, Begin, Reverting
    <3>3. CASE SaveFails \/ Save \/ SaveAndQuit \/ ToggleLive
      BY <3>3 DEF SaveFails, Saving, Save, SaveAndQuit, StartSave, ToggleLive, Back, Begin,
             Reverting
    <3> QED BY <1>2, <3>1, <3>2, <3>3
  <2>3. quit # "no" => pc' = pc
    BY <1>1, <1>2 DEF Press, Push, Drained, Sync, SyncDone, Idle, Cancel, SaveFails, Saving,
           Save, SaveAndQuit, StartSave, ToggleLive
  <2> QED BY <2>1, <2>2, <2>3, Untouched
<1>3. CASE Drain
  <2> DEFINE l == Head(events)
  <2>1. CASE l < cfg.count /\ l # cfg.level
    <3>1. l \in Levels /\ baseline \in Config
      BY <1>3, HeadTailProperties DEF Drain, Shape, SessionTypeOK
    <3>2. baseline' = [baseline EXCEPT !.level = l] /\ dirty' = (cfg' # baseline')
      BY <1>3, <2>1, Zenon DEF Drain, Fold
    <3>3. quit = "no" /\ UNCHANGED <<quit, kept>> /\ ~Reverting'
      BY <1>1, <1>3 DEF Drain, Reverting
    <3>4. Settings(baseline') = Settings(baseline)
      BY <3>1, <3>2, LevelIsNoSetting
    <3> QED BY <3>2, <3>3, <3>4, Refreshed
  <2>2. CASE ~(l < cfg.count /\ l # cfg.level)
    <3>1. UNCHANGED <<cfg, baseline, dirty>>
      BY <1>3, <2>2, Zenon DEF Drain, Fold
    <3>2. UNCHANGED <<kept, quit, pc, task>>
      BY <1>3 DEF Drain
    <3> QED BY <3>1, <3>2, Untouched DEF Reverting
  <2> QED BY <2>1, <2>2
<1>4. CASE Edit
  <2>1. dirty' = (cfg' # baseline')
    BY <1>4, Zenon DEF Edit, EditLight, ActivateLevel, CreateLevel, EditAccel, EngineOn,
           EngineOff, EngineFails, Switched, Changed
  <2>2. pc = "key" /\ UNCHANGED <<quit, kept, baseline>>
    BY <1>4 DEF Edit, EditLight, ActivateLevel, CreateLevel, EditAccel, EngineOn,
           EngineOff, EngineFails, Switched, Changed, MayEdit
  <2>3. ~Reverting'
    BY <1>4 DEF Edit, EditLight, ActivateLevel, CreateLevel, EditAccel, EngineOn,
           EngineOff, EngineFails, Switched, Changed, Back, Begin, Reverting
  <2> QED BY <1>1, <2>1, <2>2, <2>3, Refreshed
<1>5. CASE Revert \/ QuitWithoutSaving
  <2>1. /\ Reverting' /\ cfg' = baseline' /\ quit = "no"
        /\ UNCHANGED <<baseline, quit, kept>>
    BY <1>1, <1>5 DEF Revert, QuitWithoutSaving, StartRevert, Begin, Reverting
  <2> QED BY <2>1, Zenon DEF Honest
<1>6. CASE RevertDone
  <2>1. Reverting /\ cfg = baseline /\ dirty' = FALSE /\ ~Reverting'
    BY <1>6, Zenon DEF RevertDone, Back, Reverting, Honest
  <2>2. quit = "no" /\ UNCHANGED <<cfg, baseline, kept>> /\ (quit' # "no" => pc' = "done")
    BY <1>1, <1>6 DEF RevertDone, Back
  <2> QED BY <2>1, <2>2, Zenon DEF Honest
<1>7. CASE SaveWorks
  <2>1. /\ baseline' = cfg /\ cfg' = cfg /\ kept' = Settings(cfg) /\ dirty' = FALSE
        /\ quit = "no" /\ (quit' # "no" => pc' = "done")
    BY <1>1, <1>7 DEF SaveWorks, Saving, Back
  <2>2. ~Reverting'
    BY <1>7 DEF SaveWorks, Back, Reverting
  <2> QED BY <2>1, <2>2, Zenon DEF Honest
<1>8. CASE Quit
  <2>1. /\ UNCHANGED <<cfg, baseline, dirty, kept>> /\ ~Reverting /\ ~Reverting'
        /\ quit = "no" /\ (quit' # "no" => pc' = "done")
    BY <1>1, <1>8 DEF Quit, Back, Reverting
  <2>2. quit' # "no" => ~dirty
    BY <1>8, <2>1, Zenon DEF Quit
  <2> QED BY <2>1, <2>2, Zenon DEF Honest
<1>9. CASE UNCHANGED sessionVars
  BY <1>9, Untouched DEF sessionVars, host, Reverting
<1> QED
  BY <1>2, <1>3, <1>4, <1>5, <1>6, <1>7, <1>8, <1>9 DEF SessionNext, Frame, Footer

LEMMA HonestAlways == SessionSpec => []Honest
<1>1. SessionInit => Honest
  <2> SUFFICES ASSUME SessionInit PROVE Honest
    OBVIOUS
  <2>1. cfg = baseline /\ dirty = FALSE /\ quit = "no" /\ pc = "sync"
    BY DEF SessionInit
  <2>2. Settings(baseline) = kept
    BY DEF SessionInit
  <2> QED BY <2>1, <2>2, Zenon DEF Honest, Reverting
<1> QED BY <1>1, HonestStep, ShapeAlways, PTL DEF SessionSpec

\* The flag the quit guard reads says, whenever no handler is running, whether
\* there is anything to lose - for every set of values, fault and bound.
THEOREM FlagIsHonest == SessionSpec => []DirtyIsHonest
<1>1. Honest => DirtyIsHonest
  BY Zenon DEF Honest, DirtyIsHonest, Settled, Reverting
<1> QED BY <1>1, HonestAlways, PTL

\* However a session ends, what it leaves on the screen is what was last saved.
THEOREM QuitIsGuarded == SessionSpec => []GuardedQuit
<1>1. Honest => GuardedQuit
  BY Zenon DEF Honest, GuardedQuit
<1> QED BY <1>1, HonestAlways, PTL

\* A press of the mouse's own button never makes a clean session a dirty one.
THEOREM ButtonIsQuiet == SessionSpec => ButtonNeverDirties
<1>1. Honest /\ [SessionNext]_sessionVars
        => [pc = "drain" /\ pc' = "drain" /\ ~dirty => ~dirty']_sessionVars
  <2> SUFFICES ASSUME Honest, SessionNext, pc = "drain", pc' = "drain", ~dirty
               PROVE  ~dirty'
    BY Zenon
  <2>1. cfg = baseline
    BY Zenon DEF Honest, Reverting
  <2>2. Press \/ Drain
    BY DEF SessionNext, Push, Frame, Drained, Sync, SyncDone, Idle, Back, Edit, EditLight,
           ActivateLevel, CreateLevel, EditAccel, EngineOn, EngineOff, EngineFails, MayEdit,
           Footer, ToggleLive, Save, SaveAndQuit, StartSave, SaveWorks, SaveFails, Saving,
           Revert, QuitWithoutSaving, StartRevert, RevertDone, Quit, Cancel
  <2>3. CASE Press
    BY <2>3, Zenon DEF Press, host
  <2>4. CASE Drain
    <3> DEFINE l == Head(events)
    <3>1. CASE l < cfg.count /\ l # cfg.level
      <4>1. /\ cfg' = [cfg EXCEPT !.level = l] /\ baseline' = [baseline EXCEPT !.level = l]
            /\ dirty' = (cfg' # baseline')
        BY <2>4, <3>1, Zenon DEF Drain, Fold
      <4> QED BY <2>1, <4>1, Zenon
    <3>2. CASE ~(l < cfg.count /\ l # cfg.level)
      BY <2>4, <3>2, Zenon DEF Drain, Fold
    <3> QED BY <3>1, <3>2
  <2> QED BY <2>2, <2>3, <2>4
<1> QED BY <1>1, HonestAlways, PTL DEF SessionSpec, ButtonNeverDirties

-----------------------------------------------------------------------------
(* What the device shows, as far as it answered.                           *)

\* the handlers that push everything, whether live preview is on or not
Bulk == pc = "apply" /\ task \in {"save", "savequit", "revert", "discard"}

\* step s is still to be pushed
Pending(s) == todo \in {<<s>>, <<"dpi", "light">>}

\* the device owes an answer for nothing the screen says about step s
Settles(s) == (live \/ Bulk) /\ ~Pending(s) /\ acked[s]

LastTold == events # <<>> => events[Len(events)] = ram.level

LightSettled == Settles("light") => ram.light = cfg.light

TableSettled ==
    Settles("dpi") =>
        /\ ram.count = cfg.count
        /\ events = <<>> /\ (Legal(ram) \/ Bulk) => ram.level = cfg.level

Shown ==
    /\ pc # "apply" => todo = <<>>
    /\ LastTold /\ LightSettled /\ TableSettled

-----------------------------------------------------------------------------

\* What is pending of a plan, and what consuming its head changes of that.
LEMMA PendingOf ==
    /\ todo = <<>> => ~Pending("light") /\ ~Pending("dpi")
    /\ todo = <<"dpi", "light">> => Pending("light") /\ Pending("dpi")
    /\ \A s \in Step : todo = <<s>> => Pending(s)
  BY DEF Pending, Step

LEMMA PendingTail ==
    ASSUME todo \in Plans, todo # <<>>, todo' = Tail(todo) \/ (todo' = <<>> /\ Len(todo) = 1)
    PROVE  \A s \in Step : Pending(s)' <=> Pending(s) /\ s # Head(todo)
<1>1. "dpi" \in Step /\ "light" \in Step
  BY DEF Step
<1>2. CASE todo = <<"dpi">>
  BY <1>1, <1>2, Singleton DEF Pending, Step
<1>3. CASE todo = <<"light">>
  BY <1>1, <1>3, Singleton DEF Pending, Step
<1>4. CASE todo = <<"dpi", "light">>
  BY <1>1, <1>4, Singleton, Pair DEF Pending, Step
<1> QED BY <1>2, <1>3, <1>4 DEF Plans

\* Reports: the newest one is about the level the mouse is on.
LEMMA ReportTells ==
    ASSUME NEW l \in Levels, events \in Seq(Levels), Report(l), LastTold, ram'.level = l
    PROVE  LastTold' /\ (events' = <<>> => l = ram.level)
<1>1. CASE l = ram.level
  BY <1>1 DEF Report, LastTold
<1>2. CASE l # ram.level
  BY <1>2, AppendProperties DEF Report, LastTold
<1> QED BY <1>1, <1>2

\* A step of the program that talks to nobody: what was owed still is.
LEMMA Silent ==
    ASSUME Shown, UNCHANGED <<ram, events>>,
           cfg'.light = cfg.light, cfg'.count = cfg.count, cfg'.level = cfg.level,
           todo' = todo, acked'["light"] = acked["light"], acked'["dpi"] = acked["dpi"],
           live' => live \/ Bulk, Bulk' => Bulk, pc' # "apply" => todo = <<>>
    PROVE  Shown'
<1>1. \A s \in Step : Settles(s)' => Settles(s)
  BY Zenon DEF Settles, Pending, Step
<1>2. LastTold'
  BY DEF Shown, LastTold
<1>3. LightSettled'
  BY <1>1 DEF Shown, LightSettled, Step
<1>4. TableSettled'
  BY <1>1 DEF Shown, TableSettled, Step, Legal
<1> QED BY <1>2, <1>3, <1>4 DEF Shown

\* Beginning to push everything.
LEMMA Afresh ==
    ASSUME Shown, UNCHANGED <<ram, events>>, pc' = "apply", todo' = <<"dpi", "light">>
    PROVE  Shown'
<1>1. Pending("light")' /\ Pending("dpi")'
  BY DEF Pending
<1>2. LastTold'
  BY DEF Shown, LastTold
<1> QED BY <1>1, <1>2 DEF Shown, LightSettled, TableSettled, Settles

\* A press of the button either changes nothing or leaves a report, and moves
\* the mouse to a level of its table.
LEMMA PressShown ==
    ASSUME Shape, Shown, Press
    PROVE  Shown'
<1> DEFINE l == (ram.level + 1) % ram.count
<1>1. ram \in Device /\ ram.level \in Nat /\ ram.count \in Nat \ {0}
  BY SessionAssumption DEF Shape, SessionTypeOK, Device, Levels
<1>2. l \in 0 .. ram.count - 1 /\ l \in Levels
  <2>1. l \in 0 .. ram.count - 1
    BY <1>1
  <2>2. ram.count <= MaxLevels
    BY SessionAssumption DEF Shape, SessionTypeOK, Device
  <2> QED BY <1>1, <2>1, <2>2, SessionAssumption DEF Levels
<1>3. /\ ram' = [ram EXCEPT !.level = l] /\ Report(l)
      /\ UNCHANGED <<cfg, live, pc, task, todo, acked>>
  BY DEF Press, host
<1>4. ram'.level = l /\ ram'.light = ram.light /\ ram'.count = ram.count
  BY <1>1, <1>3 DEF Device
<1>5. LastTold' /\ (events' = <<>> => l = ram.level)
  BY <1>2, <1>3, <1>4, ReportTells DEF Shape, SessionTypeOK, Shown
<1>6. events' = <<>> => events = <<>>
  BY <1>3 DEF Report, Shape, SessionTypeOK
<1>7. \A s \in Step : (Settles(s)' <=> Settles(s)) /\ (Bulk' <=> Bulk)
  BY <1>3, Zenon DEF Settles, Pending, Bulk
<1>8. LightSettled'
  BY <1>3, <1>4, <1>7 DEF Shown, LightSettled, Step
<1>9. TableSettled'
  <2>1. events' = <<>> => Legal(ram)
    BY <1>1, <1>2, <1>5 DEF Legal
  <2> QED BY <1>3, <1>4, <1>5, <1>6, <1>7, <2>1 DEF Shown, TableSettled, Step
<1> QED BY <1>3, <1>5, <1>8, <1>9 DEF Shown

\* A push that is acknowledged settles its step and leaves the other alone.
LEMMA PushShown ==
    ASSUME Shape, Shown, Push
    PROVE  Shown'
<1> DEFINE s == Head(todo)
<1>1. pc = "apply" /\ todo \in Plans /\ todo # <<>> /\ s \in Step
  BY PlanTail DEF Push, Shape
<1>2. PICK o \in {"ok"} \cup Failure :
        /\ ram' = IF o = "nak" THEN ram ELSE Taken(ram, s, cfg)
        /\ acked' = [acked EXCEPT ![s] = (o = "ok")]
  BY Zenon DEF Push
<1>3. /\ Report(ram'.level) /\ UNCHANGED <<cfg, live>>
      /\ todo' = Tail(todo) \/ (todo' = <<>> /\ Len(todo) = 1)
      /\ Bulk' <=> Bulk
      /\ pc' # "apply" => todo' = <<>>
  BY DEF Push, host, Back, Bulk
<1>4. \A t \in Step : Pending(t)' <=> Pending(t) /\ t # Head(todo)
  BY <1>1, <1>3, PendingTail
<1>5. ram \in Device /\ cfg \in Config /\ acked \in [Step \cup {"disk"} -> BOOLEAN]
  BY DEF Shape, SessionTypeOK
<1>6. /\ ram' = ram \/ ram' = Taken(ram, s, cfg)
      /\ ram' \in Device
      /\ acked'[s] => o = "ok" /\ ram' = Taken(ram, s, cfg)
      /\ \A t \in Step \ {s} : acked'[t] = acked[t]
  <2>1. ram' = ram \/ ram' = Taken(ram, s, cfg)
    BY <1>2, Zenon
  <2>2. ram' \in Device
    BY <1>1, <1>5, <2>1, TakenDevice
  <2>3. acked'[s] => o = "ok"
    BY <1>1, <1>2, <1>5
  <2>4. \A t \in Step \ {s} : acked'[t] = acked[t]
    BY <1>1, <1>2, <1>5
  <2> QED BY <1>2, <2>1, <2>2, <2>3, <2>4
<1>7. LastTold' /\ (events' = <<>> => ram'.level = ram.level)
  <2>1. ram'.level \in Levels /\ events \in Seq(Levels) /\ LastTold
    BY <1>6 DEF Shape, SessionTypeOK, Device, Shown
  <2> QED BY <1>3, <2>1, ReportTells
<1>8. events' = <<>> => events = <<>>
  BY <1>3 DEF Report, Shape, SessionTypeOK
<1>9. \A t \in Step \ {s} : Settles(t)' => Settles(t)
  BY <1>3, <1>4, <1>6, Zenon DEF Settles
<1>10. LightSettled'
  <2>1. CASE s = "light"
    BY <1>3, <1>5, <1>6, <2>1 DEF LightSettled, Settles, Taken, Device, Config
  <2>2. CASE s = "dpi"
    BY <1>3, <1>5, <1>6, <1>9, <2>2 DEF Shown, LightSettled, Step, Taken, Device, Config
  <2> QED BY <1>1, <2>1, <2>2 DEF Step
<1>11. TableSettled'
  <2>1. CASE s = "dpi"
    BY <1>3, <1>5, <1>6, <2>1 DEF TableSettled, Settles, Taken, Device, Config
  <2>2. CASE s = "light"
    <3>1. ram'.count = ram.count /\ ram'.level = ram.level
      BY <1>5, <1>6, <2>2 DEF Taken, Device
    <3>2. Legal(ram)' <=> Legal(ram)
      BY <3>1 DEF Legal
    <3>3. Settles("dpi")' => Settles("dpi")
      BY <1>9, <2>2 DEF Step
    <3> QED BY <1>3, <1>8, <3>1, <3>2, <3>3 DEF Shown, TableSettled
  <2> QED BY <1>1, <2>1, <2>2 DEF Step
<1> QED BY <1>3, <1>7, <1>10, <1>11 DEF Shown

\* Reading a report: the last one is about the level the mouse is on, and is
\* taken over when the table on the screen, which is the mouse's, has it.
LEMMA DrainShown ==
    ASSUME Shape, Shown, Drain
    PROVE  Shown'
<1> DEFINE l == Head(events)
<1>1. events \in Seq(Levels) /\ events # <<>> /\ events' = Tail(events)
  BY DEF Drain, Shape, SessionTypeOK
<1>2. l \in Levels /\ ram \in Device /\ cfg \in Config
  BY <1>1, HeadTailProperties DEF Shape, SessionTypeOK
<1>3. /\ pc = "drain" /\ todo = <<>> /\ ~Bulk /\ ~Bulk'
      /\ UNCHANGED <<ram, live, pc, todo, acked>>
  BY DEF Drain, Shown, Bulk
<1>4. /\ cfg'.light = cfg.light /\ cfg'.count = cfg.count
      /\ l < cfg.count => cfg'.level = l
  <2>1. CASE l < cfg.count /\ l # cfg.level
    <3>1. cfg' = [cfg EXCEPT !.level = l]
      BY <2>1, Zenon DEF Drain, Fold
    <3> QED BY <1>2, <3>1 DEF Config
  <2>2. CASE ~(l < cfg.count /\ l # cfg.level)
    <3>1. cfg' = cfg
      BY <2>2, Zenon DEF Drain, Fold
    <3> QED BY <2>2, <3>1
  <2> QED BY <2>1, <2>2
<1>5. \A s \in Step : Settles(s)' <=> Settles(s)
  BY <1>3, Zenon DEF Settles, Pending
<1>6. LastTold'
  <2>1. events' # <<>> => events'[Len(events')] = events[Len(events)]
    BY <1>1, HeadTailProperties
  <2> QED BY <1>1, <1>3, <2>1 DEF Shown, LastTold
<1>7. LightSettled'
  BY <1>3, <1>4, <1>5 DEF Shown, LightSettled, Step
<1>8. events' = <<>> => l = ram.level
  <2>1. events' = <<>> => Len(events) = 1
    <3>1. Len(events') = Len(events) - 1 /\ Len(events) \in Nat
      BY <1>1, HeadTailProperties
    <3> QED BY <3>1
  <2>2. l = events[1]
    BY <1>1
  <2> QED BY <1>1, <2>1, <2>2 DEF Shown, LastTold
<1>9. TableSettled'
  BY <1>3, <1>4, <1>5, <1>8 DEF Shown, TableSettled, Legal, Step
<1> QED BY <1>3, <1>6, <1>7, <1>9 DEF Shown

\* An edit of the device's settings is pushed at once, or not shown yet.
LEMMA EditShown ==
    ASSUME Shape, Shown, EditLight \/ ActivateLevel \/ CreateLevel
    PROVE  Shown'
<1>1. /\ pc = "key" /\ todo = <<>> /\ ~Bulk
      /\ UNCHANGED <<ram, events, live, acked>>
  BY DEF EditLight, ActivateLevel, CreateLevel, MayEdit, Changed, Shown, Bulk, device
<1>2. cfg \in Config
  BY DEF Shape, SessionTypeOK
<1>3. PICK s \in Step :
        /\ Changed(s)
        /\ s = "dpi" => cfg'.light = cfg.light
        /\ s = "light" => cfg'.count = cfg.count /\ cfg'.level = cfg.level
  <2>1. CASE EditLight
    <3>1. PICK v \in Light : cfg' = [cfg EXCEPT !.light = v]
      BY <2>1 DEF EditLight
    <3> QED BY <1>2, <2>1, <3>1 DEF EditLight, Config, Step
  <2>2. CASE ActivateLevel
    <3>1. PICK l \in 0 .. cfg.count - 1 : cfg' = [cfg EXCEPT !.level = l]
      BY <2>2 DEF ActivateLevel
    <3> QED BY <1>2, <2>2, <3>1 DEF ActivateLevel, Config, Step
  <2>3. CASE CreateLevel
    BY <1>2, <2>3 DEF CreateLevel, Config, Step
  <2> QED BY <2>1, <2>2, <2>3
<1>4. IF live THEN pc' = "apply" /\ todo' = <<s>> ELSE pc' = "drain" /\ todo' = <<>>
  BY <1>3 DEF Changed, Begin, Back
<1>5. ~Bulk'
  BY <1>3 DEF Changed, Begin, Back, Bulk
<1>6. \A t \in Step : Settles(t)' => Settles(t) /\ t # s
  <2>1. \A t \in Step : ~Pending(t)
    BY <1>1, PendingOf DEF Step
  <2>2. live => Pending(s)'
    BY <1>4, Zenon DEF Pending
  <2> QED BY <1>1, <1>5, <2>1, <2>2, Zenon DEF Settles
<1>7. LastTold'
  BY <1>1 DEF Shown, LastTold
<1>8. LightSettled'
  BY <1>1, <1>3, <1>6 DEF Shown, LightSettled, Step
<1>9. TableSettled'
  BY <1>1, <1>3, <1>5, <1>6 DEF Shown, TableSettled, Step, Legal
<1> QED BY <1>4, <1>7, <1>8, <1>9 DEF Shown

\* What a store, or none, leaves of the answers of the device.
LEMMA StoreAnswers ==
    ASSUME Shape, NEW c, Store(c) \/ NoStore
    PROVE  acked'["light"] = acked["light"] /\ acked'["dpi"] = acked["dpi"]
<1>1. acked \in [Step \cup {"disk"} -> BOOLEAN]
  BY DEF Shape, SessionTypeOK
<1>2. CASE Store(c)
  BY <1>1, <1>2 DEF Store, Step
<1>3. CASE NoStore
  BY <1>3 DEF NoStore
<1> QED BY <1>2, <1>3

\* Edits of the host's settings say nothing to the device.
LEMMA EngineShown ==
    ASSUME Shape, Shown, EditAccel \/ EngineOn \/ EngineOff \/ EngineFails
    PROVE  Shown'
<1>1. /\ pc = "key" /\ todo = <<>> /\ Back("drain")
      /\ UNCHANGED <<ram, events, live>>
  BY DEF EditAccel, EngineOn, EngineOff, EngineFails, Switched, MayEdit, device, Shown
<1>2. cfg'.light = cfg.light /\ cfg'.count = cfg.count /\ cfg'.level = cfg.level
  <2>1. cfg \in Config
    BY DEF Shape, SessionTypeOK
  <2>2. CASE EditAccel
    <3>1. PICK v \in Accel : cfg' = [cfg EXCEPT !.accel = v]
      BY <2>2 DEF EditAccel
    <3> QED BY <2>1, <3>1 DEF Config
  <2>3. CASE EngineOn \/ EngineOff \/ EngineFails
    <3>1. \E on \in BOOLEAN : cfg' = [cfg EXCEPT !.enabled = on]
      BY <2>3, Zenon DEF EngineOn, EngineOff, EngineFails, Switched
    <3> QED BY <2>1, <3>1 DEF Config
  <2> QED BY <2>2, <2>3
<1>3. acked'["light"] = acked["light"] /\ acked'["dpi"] = acked["dpi"]
  <2>1. CASE EditAccel \/ EngineOn \/ EngineOff
    BY <2>1, StoreAnswers DEF EditAccel, EngineOn, EngineOff
  <2>2. CASE EngineFails
    BY <2>2 DEF EngineFails, Shape, SessionTypeOK, Step
  <2> QED BY <2>1, <2>2
<1>4. pc' = "drain" /\ todo' = todo /\ ~Bulk'
  BY <1>1 DEF Back, Bulk
<1> QED BY <1>1, <1>2, <1>3, <1>4, Silent

LEMMA ShownStep == Shape /\ Shown /\ [SessionNext]_sessionVars => Shown'
<1> SUFFICES ASSUME Shape, Shown, [SessionNext]_sessionVars PROVE Shown'
  OBVIOUS
<1> USE DEF host, device
<1>1. CASE Press \/ Push \/ Drain
  BY <1>1, PressShown, PushShown, DrainShown
<1>2. CASE Edit
  BY <1>2, EditShown, EngineShown DEF Edit
<1>3. CASE Save \/ SaveAndQuit \/ Revert \/ QuitWithoutSaving
  <2>1. UNCHANGED <<ram, events>> /\ pc' = "apply" /\ todo' = <<"dpi", "light">>
    BY <1>3 DEF Save, SaveAndQuit, StartSave, Revert, QuitWithoutSaving, StartRevert, Begin,
                All
  <2> QED BY <2>1, Afresh
<1>4. CASE ToggleLive
  <2>1. UNCHANGED <<ram, events, cfg, acked>> /\ pc = "key" /\ todo = <<>>
    BY <1>4 DEF ToggleLive, Shown
  <2>2. CASE live'
    <3>1. pc' = "apply" /\ todo' = <<"dpi", "light">>
      BY <1>4, <2>2 DEF ToggleLive, Begin, All
    <3> QED BY <2>1, <3>1, Afresh
  <2>3. CASE ~live'
    <3>1. pc' = "drain" /\ todo' = <<>>
      BY <1>4, <2>3 DEF ToggleLive, Back
    <3>2. ~Bulk'
      BY <3>1 DEF Bulk
    <3> QED BY <2>1, <2>3, <3>1, <3>2, Silent
  <2> QED BY <2>2, <2>3
<1>5. CASE Sync /\ pc' = "apply"
  <2>1. /\ UNCHANGED <<ram, events, cfg, live, acked>> /\ pc = "sync" /\ todo = <<>>
        /\ todo' = <<"light">> /\ ~Bulk /\ ~Bulk'
    BY <1>5 DEF Sync, Begin, Back, Bulk, Shown
  <2>2. \A s \in Step : Settles(s)' => Settles(s) /\ s = "dpi"
    <3>1. ~Pending("light") /\ ~Pending("dpi") /\ Pending("light")'
      BY <2>1, PendingOf, Zenon DEF Pending
    <3> QED BY <2>1, <3>1, Zenon DEF Settles, Step
  <2>3. LastTold' /\ LightSettled'
    BY <2>1, <2>2 DEF Shown, LastTold, LightSettled, Step
  <2>4. TableSettled'
    BY <2>1, <2>2 DEF Shown, TableSettled, Legal, Step
  <2> QED BY <1>5, <2>3, <2>4 DEF Shown
<1>6. CASE Drained \/ Idle \/ SyncDone \/ (Sync /\ pc' # "apply")
  <2>1. UNCHANGED <<ram, events, cfg, live, acked>> /\ todo = <<>> /\ todo' = <<>> /\ ~Bulk'
    BY <1>6 DEF Drained, Idle, SyncDone, Sync, Begin, Back, Bulk, Shown
  <2> QED BY <2>1, Silent
<1>7. CASE SaveWorks \/ SaveFails \/ RevertDone \/ Quit \/ Cancel
  <2>1. UNCHANGED <<ram, events, cfg, live>> /\ todo = <<>> /\ todo' = <<>> /\ ~Bulk'
    BY <1>7 DEF SaveWorks, SaveFails, Saving, RevertDone, Quit, Cancel, Back, Bulk, Shown
  <2>2. acked'["light"] = acked["light"] /\ acked'["dpi"] = acked["dpi"]
    <3>1. Store(cfg) \/ NoStore \/ UNCHANGED acked
      BY <1>7 DEF SaveWorks, SaveFails, RevertDone, Quit, Cancel
    <3> QED BY <3>1, StoreAnswers
  <2> QED BY <2>1, <2>2, Silent
<1>8. CASE UNCHANGED sessionVars
  <2>1. UNCHANGED <<ram, events, cfg, live, acked, todo, pc, task>>
    BY <1>8 DEF sessionVars
  <2>2. Bulk' <=> Bulk
    BY <2>1 DEF Bulk
  <2> QED BY <2>1, <2>2, Silent DEF Shown
<1> QED BY <1>1, <1>2, <1>3, <1>4, <1>5, <1>6, <1>7, <1>8 DEF SessionNext, Frame, Footer

LEMMA ShownAlways == SessionSpec => []Shown
<1>1. SessionInit => Shown
  <2> SUFFICES ASSUME SessionInit PROVE Shown
    OBVIOUS
  <2>1. todo = <<>> /\ events = <<>> /\ ~acked["light"] /\ ~acked["dpi"]
    BY DEF SessionInit, Step
  <2> QED BY <2>1 DEF Shown, LastTold, LightSettled, TableSettled, Settles
<1> QED BY <1>1, ShownStep, ShapeAlways, PTL DEF SessionSpec

\* With live preview on the device runs what the screen shows, as far as it
\* answered, whatever was edited, saved, reverted or pressed before.
THEOREM LiveIsShown == SessionSpec => []LiveShows
<1>1. Shown => LiveShows
  <2> SUFFICES ASSUME Shown, Settled, live PROVE LiveShows
    BY DEF LiveShows
  <2>1. ~Pending("light") /\ ~Pending("dpi")
    BY PendingOf DEF Shown, Settled
  <2>2. \A s \in Step : acked[s] => Settles(s)
    BY <2>1, Zenon DEF Settles, Step
  <2> QED BY <2>2 DEF Shown, LightSettled, TableSettled, LiveShows, Step
<1> QED BY <1>1, ShownAlways, PTL

-----------------------------------------------------------------------------
(* How a session leaves the copies behind.                                 *)

\* Nothing happens after the end of a session.
LEMMA OverIsOver ==
    ASSUME Honest, SessionNext
    PROVE  quit = "no"
<1>1. pc = "done" => Press
  BY DEF SessionNext, Push, Frame, Drain, Drained, Sync, SyncDone, Idle, Edit, EditLight,
         ActivateLevel, CreateLevel, EditAccel, EngineOn, EngineOff, EngineFails, MayEdit,
         Footer, ToggleLive, Save, SaveAndQuit, StartSave, SaveWorks, SaveFails, Saving,
         Revert, QuitWithoutSaving, StartRevert, RevertDone, Quit, Cancel
<1>2. Press => quit = "no"
  BY DEF Press
<1> QED BY <1>1, <1>2 DEF Honest

\* A store that worked wrote its argument.
LEMMA StoreWrites ==
    ASSUME Shape, NEW c, Store(c)
    PROVE  acked'["disk"] => disk' = c
<1>1. acked \in [Step \cup {"disk"} -> BOOLEAN]
  BY DEF Shape, SessionTypeOK
<1>2. PICK w \in Writes :
        /\ disk' = IF w = "written" THEN c ELSE disk
        /\ acked' = [acked EXCEPT !["disk"] = (w = "written")]
  BY Zenon DEF Store
<1>3. acked'["disk"] => w = "written"
  BY <1>1, <1>2
<1> QED BY <1>2, <1>3

\* "Save and quit": everything was pushed, what the device runs goes to flash
\* and what is on the screen to disk.
LEMMA SaveCommits ==
    ASSUME Shape, Shown, SaveWorks
    PROVE  SavedEverywhere'
<1>1. /\ Bulk /\ todo = <<>> /\ flash' = ram /\ Store(cfg)
      /\ UNCHANGED <<cfg, events>>
  BY DEF SaveWorks, Saving, Bulk
<1>2. acked'["light"] = acked["light"] /\ acked'["dpi"] = acked["dpi"]
  BY <1>1, StoreAnswers
<1>3. acked["light"] => Settles("light")
  BY <1>1, PendingOf, Zenon DEF Settles
<1>4. acked["dpi"] => Settles("dpi")
  BY <1>1, PendingOf, Zenon DEF Settles
<1>5. acked'["light"] => flash'.light = cfg'.light
  BY <1>1, <1>2, <1>3 DEF Shown, LightSettled
<1>6. acked'["dpi"] => flash'.count = cfg'.count
  BY <1>1, <1>2, <1>4 DEF Shown, TableSettled
<1>7. acked'["dpi"] =>
        flash'.level \in {cfg'.level} \cup {events'[i] : i \in 1 .. Len(events')}
  <2>1. CASE events = <<>>
    BY <1>1, <1>2, <1>4, <2>1 DEF Shown, TableSettled
  <2>2. CASE events # <<>>
    <3>1. Len(events) \in 1 .. Len(events)
      BY <2>2 DEF Shape, SessionTypeOK
    <3>2. ram.level = events[Len(events)]
      BY <2>2 DEF Shown, LastTold
    <3> QED BY <1>1, <3>1, <3>2
  <2> QED BY <2>1, <2>2
<1>8. acked'["disk"] => disk' = cfg'
  BY <1>1, StoreWrites
<1> QED BY <1>5, <1>6, <1>7, <1>8 DEF SavedEverywhere

\* "Quit without saving": the baseline was pushed, and is stored where a
\* running engine reads it.
LEMMA RevertRestores ==
    ASSUME Shape, Shown, Honest, RevertDone
    PROVE  DiscardRestores'
<1>1. /\ Bulk /\ Reverting /\ todo = <<>>
      /\ engine => Store(cfg)
      /\ Store(cfg) \/ NoStore
      /\ UNCHANGED <<cfg, ram, engine, kept>>
  BY DEF RevertDone, Bulk, Reverting, device
<1>2. Settings(cfg) = kept
  BY <1>1 DEF Honest
<1>3. kept.light = cfg.light /\ kept.count = cfg.count
  BY <1>2 DEF Settings, Shape, SessionTypeOK, Config
<1>4. acked'["light"] = acked["light"] /\ acked'["dpi"] = acked["dpi"]
  BY <1>1, StoreAnswers
<1>5. acked["light"] => Settles("light")
  BY <1>1, PendingOf, Zenon DEF Settles
<1>6. acked["dpi"] => Settles("dpi")
  BY <1>1, PendingOf, Zenon DEF Settles
<1>7. acked'["light"] => ram'.light = kept'.light
  BY <1>1, <1>3, <1>4, <1>5 DEF Shown, LightSettled
<1>8. acked'["dpi"] => ram'.count = kept'.count
  BY <1>1, <1>3, <1>4, <1>6 DEF Shown, TableSettled
<1>9. engine' /\ acked'["disk"] => Settings(disk') = kept'
  BY <1>1, <1>2, StoreWrites
<1> QED BY <1>7, <1>8, <1>9 DEF DiscardRestores, Settings

LEMMA EndStep ==
    ASSUME Shape, Honest, Shown, SavedEverywhere, DiscardRestores,
           [SessionNext]_sessionVars
    PROVE  SavedEverywhere' /\ DiscardRestores'
<1>1. CASE UNCHANGED sessionVars
  BY <1>1 DEF sessionVars, host, device, SavedEverywhere, DiscardRestores, Settings
<1>2. CASE SessionNext /\ ~SaveWorks /\ ~RevertDone
  <2>1. quit' = quit \/ quit' = "clean"
    BY <1>2 DEF SessionNext, Press, Push, Frame, Drain, Drained, Sync, SyncDone, Idle, Edit,
           EditLight, ActivateLevel, CreateLevel, Changed, EditAccel, EngineOn, EngineOff,
           EngineFails, Switched, Footer, ToggleLive, Save, SaveAndQuit, StartSave, SaveFails,
           Revert, QuitWithoutSaving, StartRevert, Quit, Cancel, host
  <2>2. quit' \notin {"saved", "discarded"}
    BY <1>2, <2>1, OverIsOver
  <2> QED BY <2>2 DEF SavedEverywhere, DiscardRestores
<1>3. CASE SaveWorks
  <2>1. quit' # "discarded"
    BY <1>3, OverIsOver DEF SaveWorks, SessionNext, Footer
  <2> QED BY <1>3, <2>1, SaveCommits DEF DiscardRestores
<1>4. CASE RevertDone
  <2>1. quit' # "saved"
    BY <1>4, OverIsOver DEF RevertDone, SessionNext, Footer
  <2> QED BY <1>4, <2>1, RevertRestores DEF SavedEverywhere
<1> QED BY <1>1, <1>2, <1>3, <1>4

LEMMA EndAlways == SessionSpec => [](SavedEverywhere /\ DiscardRestores)
<1>1. SessionInit => SavedEverywhere /\ DiscardRestores
  BY DEF SessionInit, SavedEverywhere, DiscardRestores
<1>2. /\ Shape /\ Honest /\ Shown /\ SavedEverywhere /\ DiscardRestores
      /\ [SessionNext]_sessionVars
      => (SavedEverywhere /\ DiscardRestores)'
  BY EndStep
<1> QED BY <1>1, <1>2, ShapeAlways, HonestAlways, ShownAlways, PTL DEF SessionSpec

\* Leaving through "Save and quit" leaves the same settings on the screen, in
\* the mouse's flash and on disk, as far as mouse and disk said they took them.
THEOREM SaveReachesAll == SessionSpec => []SavedEverywhere
  BY EndAlways, PTL

\* Leaving through "Quit without saving" leaves mouse and running engine with
\* the settings of the last save.
THEOREM DiscardIsComplete == SessionSpec => []DiscardRestores
  BY EndAlways, PTL
=============================================================================
