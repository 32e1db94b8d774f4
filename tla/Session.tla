------------------------------- MODULE Session -------------------------------
(***************************************************************************)
(* One interactive session on a mouse (src/tui.c, src/tui_input.c,         *)
(* src/tui_modal.c with the hooks of drivers/lib/mouse.c and the Rival 3   *)
(* Gen 2 driver): four copies of the settings that are meant to agree -    *)
(* the working configuration, the session baseline, the state file and the *)
(* device, itself live memory and flash.  The TUI is one thread; the CPI   *)
(* button of the mouse is not, so a handler that talks to the device is    *)
(* cut at every command and the button may be pressed between any two.     *)
(*                                                                         *)
(* The settings are kept as far as the copies can disagree on them: all    *)
(* that one "light" command batch carries is one value, the preset table   *)
(* is its number of levels, the pointer transform is one value.            *)
(***************************************************************************)
EXTENDS Naturals, Sequences

CONSTANTS
    Light,      \* values of what the unskipped steps send: colours, buttons, ...
    Accel,      \* values of the pointer transform
    MaxLevels,  \* how many CPI levels the mouse holds (dpi_limit)
    Faults,     \* which of Fault may happen
    MaxEdits,   \* bound: edits by the user in one session
    MaxPresses  \* bound: level reports waiting before the button is left alone

Fault == {"nak",      \* a command is not taken and not acknowledged
          "unheard",  \* it is taken, its acknowledgement is lost
          "disk",     \* the state file cannot be opened for writing
          "engine",   \* the acceleration daemon cannot be started
          "link"}     \* the wireless link is down when the session starts

ASSUME SessionAssumption ==
    /\ MaxLevels \in Nat \ {0}
    /\ MaxEdits \in Nat
    /\ MaxPresses \in Nat
    /\ Faults \subseteq Fault

Levels == 0 .. MaxLevels - 1

\* what one session edits: device settings and, last two, host settings
Config == [light : Light, count : 1 .. MaxLevels, level : Levels,
           accel : Accel, enabled : BOOLEAN]

Device == [light : Light, count : 1 .. MaxLevels, level : Levels]

Legal(c) == c.level < c.count

\* all but the level, which belongs to the mouse: its button moves it unsaved
Settings(c) == [c EXCEPT !.level = 0]

\* the apply steps that matter: the one kept out of the handshake and the rest
Step == {"dpi", "light"}

VARIABLES
    cfg,        \* ui->cfg, what the user sees
    baseline,   \* ui->baseline, what REVERT goes back to
    disk,       \* the state file
    ram, flash, \* the device
    events,     \* level reports the TUI has not read yet
    live,       \* ui->live_preview
    dirty,      \* ui->dirty
    synced,     \* ui->device_synced
    engine,     \* MOUSE_VAR_ENGINE
    pc,         \* where the frame loop is
    task,       \* the handler that is pushing to the device
    todo,       \* the steps it has left to push
    quit,       \* "no", or how the session ended
    edits,      \* how many edits the user made (bound)
    acked,      \* history: did the last push of a step, or the last store, work?
    kept        \* history: Settings of the last SAVE, or those loaded

host == <<cfg, baseline, disk, live, dirty, synced, engine, quit, kept>>
device == <<ram, flash, events>>
sessionVars == <<host, device, pc, task, todo, edits, acked>>

Task == {"none", "sync", "edit", "save", "savequit", "revert", "discard"}

SessionTypeOK ==
    /\ {cfg, baseline, disk, kept} \subseteq Config
    /\ {ram, flash} \subseteq Device
    /\ events \in Seq(Levels) /\ Len(events) <= MaxPresses + 2
    /\ {live, dirty, synced, engine} \subseteq BOOLEAN
    /\ pc \in {"drain", "sync", "key", "confirm", "apply", "done"}
    /\ task \in Task
    /\ todo \in Seq(Step) /\ Len(todo) <= 2
    /\ quit \in {"no", "clean", "saved", "discarded"}
    /\ edits \in 0 .. MaxEdits
    /\ acked \in [Step \cup {"disk"} -> BOOLEAN]

\* alloy_tui_run() up to its loop: the baseline is what the state file holds,
\* normalised; the level the mouse is on cannot be asked for
SessionInit ==
    /\ disk \in {c \in Config : Legal(c)}
    /\ cfg = disk /\ baseline = disk /\ kept = Settings(disk)
    /\ ram \in {d \in Device : Legal(d)}
    /\ flash = ram
    /\ events = <<>>
    /\ live = TRUE /\ dirty = FALSE /\ synced = FALSE
    /\ engine \in BOOLEAN
    /\ pc = "sync" /\ task = "none" /\ todo = <<>>
    /\ quit = "no"
    /\ edits = 0
    /\ acked = [x \in Step \cup {"disk"} |-> x = "disk"]

-----------------------------------------------------------------------------
(* Helpers.                                                                *)

\* alloy_driver_apply_all() without a filter
All == <<"dpi", "light">>

\* how a command may fail, how a write to the state file may end
Failure == Faults \cap {"nak", "unheard"}
Writes == {"written"} \cup (Faults \cap {"disk"})

\* the device after it took step s of configuration c
Taken(d, s, c) ==
    IF s = "dpi" THEN [d EXCEPT !.count = c.count, !.level = c.level]
                 ELSE [d EXCEPT !.light = c.light]

\* a level change is reported, whoever caused it
Report(l) == events' = IF l = ram.level THEN events ELSE Append(events, l)

\* alloy_state_store(drv, c), which does or does not work
Store(c) ==
    \E w \in Writes :
        /\ disk' = IF w = "written" THEN c ELSE disk
        /\ acked' = [acked EXCEPT !["disk"] = (w = "written")]

NoStore == UNCHANGED <<disk, acked>>

\* hand the device the steps of a task, then let the task finish
Begin(t, steps) ==
    /\ pc' = "apply"
    /\ task' = t
    /\ todo' = steps

\* the handler is over: back to the top of the loop
Back(to) ==
    /\ pc' = to
    /\ task' = "none"
    /\ todo' = <<>>

-----------------------------------------------------------------------------
(* The device.                                                             *)

\* the CPI button: next level of the table the mouse holds
Press ==
    /\ quit = "no"
    /\ Len(events) < MaxPresses
    /\ LET l == (ram.level + 1) % ram.count
       IN /\ ram' = [ram EXCEPT !.level = l]
          /\ Report(l)
    /\ UNCHANGED <<host, flash, pc, task, todo, edits, acked>>

\* one apply step: a command, its retries and its acknowledgement
Push ==
    /\ pc = "apply" /\ todo # <<>>
    /\ \E o \in {"ok"} \cup Failure :
        /\ ram' = IF o = "nak" THEN ram ELSE Taken(ram, Head(todo), cfg)
        /\ acked' = [acked EXCEPT ![Head(todo)] = (o = "ok")]
    /\ Report(ram'.level)
    /\ IF task = "edit" /\ Len(todo) = 1
         THEN Back("drain")
         ELSE todo' = Tail(todo) /\ UNCHANGED <<pc, task>>
    /\ UNCHANGED <<host, flash, edits>>

-----------------------------------------------------------------------------
(* The frame loop.                                                         *)

\* mutant: no tui_mark_dirty() after the event
Fold_Unmarked(l) ==
    IF l < cfg.count /\ l # cfg.level
      THEN /\ cfg' = [cfg EXCEPT !.level = l]
           /\ baseline' = [baseline EXCEPT !.level = l]
           /\ UNCHANGED dirty
      ELSE UNCHANGED <<cfg, baseline, dirty>>

\* mutant: the baseline is left alone
Fold_CfgOnly(l) ==
    IF l < cfg.count /\ l # cfg.level
      THEN /\ cfg' = [cfg EXCEPT !.level = l]
           /\ dirty' = (cfg' # baseline)
           /\ UNCHANGED baseline
      ELSE UNCHANGED <<cfg, baseline, dirty>>

\* parse_event() takes over a level it knows and does not show yet;
\* mouse_event() then folds it into the baseline
Fold(l) ==
    IF l < cfg.count /\ l # cfg.level
      THEN /\ cfg' = [cfg EXCEPT !.level = l]
           /\ baseline' = [baseline EXCEPT !.level = l]
           /\ dirty' = (cfg' # baseline')
      ELSE UNCHANGED <<cfg, baseline, dirty>>

\* tui_poll_device_events(), one report
Drain ==
    /\ pc = "drain" /\ events # <<>>
    /\ Fold(Head(events))
    /\ events' = Tail(events)
    /\ UNCHANGED <<disk, live, synced, engine, quit, kept, ram, flash,
                   pc, task, todo, edits, acked>>

\* no report is left
Drained ==
    /\ pc = "drain" /\ events = <<>>
    /\ pc' = IF synced THEN "key" ELSE "sync"
    /\ UNCHANGED <<host, device, task, todo, edits, acked>>

\* tui_sync_device(): once, when the device is reachable, everything but the
\* step marked ALLOY_APPLY_SKIP_SYNC.  What that leaves of a driver's table is
\* SyncSteps of Invocations; here it is all but the CPI table.
Sync ==
    /\ pc = "sync"
    /\ \/ Begin("sync", <<"light">>)
       \/ /\ "link" \in Faults
          /\ Back("key")
    /\ UNCHANGED <<host, device, edits, acked>>

SyncDone ==
    /\ pc = "apply" /\ todo = <<>> /\ task = "sync"
    /\ synced' = TRUE
    /\ Back("key")
    /\ UNCHANGED <<cfg, baseline, disk, live, dirty, engine, quit, kept, device,
                   edits, acked>>

\* getch() times out: TUI_FRAME_MS without a key
Idle ==
    /\ pc = "key"
    /\ pc' = "drain"
    /\ UNCHANGED <<host, device, task, todo, edits, acked>>

-----------------------------------------------------------------------------
(* Edits: the item changes cfg, then alloy_ui_changed() marks the session  *)
(* dirty and, under live preview, pushes the step the item belongs to.     *)

MayEdit == pc = "key" /\ edits < MaxEdits

\* alloy_ui_changed()
Changed(s) ==
    /\ dirty' = (cfg' # baseline)
    /\ IF live THEN Begin("edit", <<s>>) ELSE Back("drain")
    /\ edits' = edits + 1
    /\ UNCHANGED <<baseline, disk, live, synced, engine, quit, kept, device,
                   acked>>

EditLight ==
    /\ MayEdit
    /\ \E v \in Light : cfg' = [cfg EXCEPT !.light = v]
    /\ Changed("light")

\* dpi_activate()
ActivateLevel ==
    /\ MayEdit
    /\ \E l \in 0 .. cfg.count - 1 : cfg' = [cfg EXCEPT !.level = l]
    /\ Changed("dpi")

\* mutant: no look at dpi_limit()
CreateLevel_NoLimit ==
    /\ MayEdit
    /\ cfg' = [cfg EXCEPT !.count = cfg.count + 1]
    /\ Changed("dpi")

\* dpi_create()
CreateLevel ==
    /\ MayEdit
    /\ cfg.count < MaxLevels
    /\ cfg' = [cfg EXCEPT !.count = cfg.count + 1]
    /\ Changed("dpi")

\* accel_set() and accel_changed(): the daemon reads the state file, so a live
\* edit of the running transform stores the whole configuration
EditAccel ==
    /\ MayEdit
    /\ \E v \in Accel : cfg' = [cfg EXCEPT !.accel = v]
    /\ dirty' = (cfg' # baseline)
    /\ IF live /\ engine THEN Store(cfg') ELSE NoStore
    /\ Back("drain")
    /\ edits' = edits + 1
    /\ UNCHANGED <<baseline, live, synced, engine, quit, kept, device>>

\* engine_set(): the intent is stored at once, with everything else in cfg
Switched(on) ==
    /\ cfg' = [cfg EXCEPT !.enabled = on]
    /\ engine' = on
    /\ dirty' = (cfg' # baseline)
    /\ Back("drain")
    /\ edits' = edits + 1
    /\ UNCHANGED <<baseline, live, synced, quit, kept, device>>

EngineOn  == MayEdit /\ Switched(TRUE) /\ Store(cfg')
EngineOff == MayEdit /\ Switched(FALSE) /\ Store(cfg')

\* the daemon does not come up: the intent is stored and then taken back, and
\* either write may fail
EngineFails ==
    /\ "engine" \in Faults
    /\ MayEdit
    /\ Switched(FALSE)
    /\ \E first, last \in Writes :
        /\ disk' = IF last = "written" THEN cfg'
                   ELSE IF first = "written" THEN [cfg EXCEPT !.enabled = TRUE]
                   ELSE disk
        /\ acked' = [acked EXCEPT !["disk"] = (last = "written")]

-----------------------------------------------------------------------------
(* The footer, the save key and the way out.                               *)

\* mutant: switching the preview on pushes nothing
ToggleLive_Quiet ==
    /\ pc = "key"
    /\ live' = ~live
    /\ Back("drain")
    /\ UNCHANGED <<cfg, baseline, disk, dirty, synced, engine, quit, kept,
                   device, edits, acked>>

\* footer_activate(), LIVE PREVIEW: switching it on pushes what was held back
ToggleLive ==
    /\ pc = "key"
    /\ live' = ~live
    /\ IF live' THEN Begin("edit", All) ELSE Back("drain")
    /\ UNCHANGED <<cfg, baseline, disk, dirty, synced, engine, quit, kept,
                   device, edits, acked>>

\* mutant: SAVE commits without pushing first
StartSave_NoApply(at, t) ==
    /\ pc = at
    /\ Begin(t, <<>>)
    /\ UNCHANGED <<host, device, edits, acked>>

\* tui_save() up to ops->save()
StartSave(at, t) ==
    /\ pc = at
    /\ Begin(t, All)
    /\ UNCHANGED <<host, device, edits, acked>>

Save == StartSave("key", "save")
SaveAndQuit == StartSave("confirm", "savequit")

Saving == pc = "apply" /\ todo = <<>> /\ task \in {"save", "savequit"}

\* ops->save() is acknowledged: the rest of tui_save(), and the quit it guards
SaveWorks ==
    /\ Saving
    /\ flash' = ram
    /\ baseline' = cfg
    /\ kept' = Settings(cfg)
    /\ Store(cfg)
    /\ dirty' = FALSE
    /\ IF task = "savequit" THEN Back("done") /\ quit' = "saved"
                            ELSE Back("drain") /\ UNCHANGED quit
    /\ UNCHANGED <<cfg, live, synced, engine, ram, events, edits>>

\* mutant: "Save and quit" quits whatever tui_save() returned
SaveFails_Quits ==
    /\ Saving
    /\ \E o \in Failure : flash' = IF o = "nak" THEN flash ELSE ram
    /\ IF task = "savequit" THEN Back("done") /\ quit' = "saved"
                            ELSE Back("drain") /\ UNCHANGED quit
    /\ UNCHANGED <<cfg, baseline, disk, live, dirty, synced, engine, kept,
                   ram, events, edits, acked>>

\* it is not: nothing is committed on the host and the program stays
SaveFails ==
    /\ Saving
    /\ \E o \in Failure : flash' = IF o = "nak" THEN flash ELSE ram
    /\ Back("drain")
    /\ UNCHANGED <<host, ram, events, edits, acked>>

\* mutant: the baseline comes back on the screen only
StartRevert_NoPush(at, t) ==
    /\ pc = at
    /\ cfg' = baseline
    /\ Begin(t, <<>>)
    /\ UNCHANGED <<baseline, disk, live, dirty, synced, engine, quit, kept,
                   device, edits, acked>>

\* tui_revert(): the baseline comes back and is pushed
StartRevert(at, t) ==
    /\ pc = at
    /\ cfg' = baseline
    /\ Begin(t, All)
    /\ UNCHANGED <<baseline, disk, live, dirty, synced, engine, quit, kept,
                   device, edits, acked>>

Revert == StartRevert("key", "revert")
QuitWithoutSaving == StartRevert("confirm", "discard")

\* mouse_reverted(): a running daemon has to read the old settings again
RevertDone ==
    /\ pc = "apply" /\ todo = <<>> /\ task \in {"revert", "discard"}
    /\ IF engine THEN Store(cfg) ELSE NoStore
    /\ dirty' = FALSE
    /\ IF task = "discard" THEN Back("done") /\ quit' = "discarded"
                           ELSE Back("drain") /\ UNCHANGED quit
    /\ UNCHANGED <<cfg, baseline, live, synced, engine, kept, device, edits>>

\* 'q': at once when nothing is pending, else the quit guard
Quit ==
    /\ pc = "key"
    /\ IF dirty THEN Back("confirm") /\ UNCHANGED quit
                ELSE Back("done") /\ quit' = "clean"
    /\ UNCHANGED <<cfg, baseline, disk, live, dirty, synced, engine, kept,
                   device, edits, acked>>

Cancel ==
    /\ pc = "confirm"
    /\ Back("drain")
    /\ UNCHANGED <<host, device, edits, acked>>

-----------------------------------------------------------------------------

Frame == Drain \/ Drained \/ Sync \/ SyncDone \/ Idle

Edit == \/ EditLight \/ ActivateLevel \/ CreateLevel \/ EditAccel
        \/ EngineOn \/ EngineOff \/ EngineFails

Footer == \/ ToggleLive \/ Save \/ SaveAndQuit \/ SaveWorks \/ SaveFails
          \/ Revert \/ QuitWithoutSaving \/ RevertDone \/ Quit \/ Cancel

SessionNext == Press \/ Push \/ Frame \/ Edit \/ Footer

SessionSpec == SessionInit /\ [][SessionNext]_sessionVars

-----------------------------------------------------------------------------
(* What a session promises.                                                *)

\* between handlers, that is while no handler is pushing
Settled == pc # "apply"

\* The UNSAVED CHANGES guard relies on a cached comparison: whenever a handler
\* is over the flag says whether the working configuration differs from the
\* baseline, although edits, reverts, saves and the mouse's own level reports
\* change either side of it (tui_mark_dirty).
DirtyIsHonest == Settled => (dirty <=> cfg # baseline)

\* With live preview on, what the device runs is what the screen shows, for
\* every step whose last push was acknowledged - edits made while the preview
\* was off, reverts and button presses included; the level as soon as no
\* report is waiting to be read, unless the mouse is on a level its table lacks,
\* which a baseline may say (mouse_event) (tui_push, footer_activate, parse_event).
LiveShows ==
    Settled /\ live =>
        /\ acked["light"] => ram.light = cfg.light
        /\ acked["dpi"] => /\ ram.count = cfg.count
                           /\ events = <<>> /\ Legal(ram) => ram.level = cfg.level

\* A session left through "Save and quit" has put the settings everywhere: in
\* flash as far as the device acknowledged them, on disk if the file could be
\* written; only a level the button chose meanwhile may differ (tui_save).
SavedEverywhere ==
    quit = "saved" =>
        /\ acked["light"] => flash.light = cfg.light
        /\ acked["dpi"] =>
            /\ flash.count = cfg.count
            /\ flash.level \in {cfg.level} \cup {events[i] : i \in 1 .. Len(events)}
        /\ acked["disk"] => disk = cfg

\* A session left through "Quit without saving" leaves the device, and a running
\* engine's state file, as the last SAVE had them, as far as the device and
\* the disk cooperate (tui_revert, mouse_reverted).
DiscardRestores ==
    quit = "discarded" =>
        /\ acked["light"] => ram.light = kept.light
        /\ acked["dpi"] => ram.count = kept.count
        /\ engine /\ acked["disk"] => Settings(disk) = kept

\* However the session ends, no edit is dropped unasked: what it leaves on the
\* screen is what was last saved, the level aside (tui_handle_key,
\* tui_modal_confirm_quit: a failed SAVE does not quit).
GuardedQuit == quit # "no" => Settings(cfg) = kept /\ cfg = baseline

\* Reading the mouse's own level report never turns a clean session into one
\* with unsaved changes (mouse_event: "REVERT and the quit guard never fight
\* the physical button").
ButtonNeverDirties ==
    [][pc = "drain" /\ pc' = "drain" /\ ~dirty => ~dirty']_sessionVars

==============================================================================
