------------------------------ MODULE Invocations ------------------------------
(* One run of the program after another on one device: main() and cli.c, which *)
(* take a command line to the device without a session, and the session's      *)
(* loading, syncing, editing and saving (tui.c, with live preview on), which   *)
(* keep the file that one-shots neither read nor write.                        *)
EXTENDS Drivers

CONSTANTS
    Driver,      \* the drivers one of which is bound
    CommandLine, \* command lines: sequences of words
    Texts,       \* line of the file -> texts a hand edit may leave there
    NoLine,      \* instead of a text: the line is deleted
    Faults,      \* "link": a transfer fails; "disk": the file cannot be written; "crash";
                 \* "editor": someone edits the file between two runs
    MaxRuns, MaxEdits, MaxFaults

\* what a driver declares fits the configuration
Fits(d) ==
    /\ d.zones \in Seq(0..(Colour - 1)) /\ d.rates \in Seq(0..(Word - 1))
    /\ d.levels \in Seq(0..(Word - 1)) /\ Len(d.levels) <= MaxLevels /\ d.limit \in 0..MaxLevels
    /\ d.buttons \in Seq(ActionType \X (0..(Word - 1))) /\ d.fx \in 0..256
    /\ d.lo \in Nat /\ d.hi \in d.lo..(Word - 1) /\ d.grid \in Nat \ {0}
\* a mouse has levels, and only a mouse has what mouse.c keeps
KeepsKind(d) ==
    IF d.kind = "mouse" THEN d.levels # <<>>
    ELSE /\ d.levels = <<>> /\ d.buttons = <<>>
         /\ d.caps \cap ({"dpi", "reactive", "startup", "rainbow", "battery"} \cup Transform) = {}
\* what it offers an option or a control for it has a step for; a speed is an effect's,
\* and no driver has the high-efficiency mode
HasSteps(d) ==
    /\ d.steps \in Seq(Range(d.steps))
    /\ ("color" \in d.caps \/ d.fx > 1) => "colors" \in Range(d.steps)
    /\ ("brightness" \in d.caps \/ "battery" \in d.caps) => "brightness" \in Range(d.steps)
    /\ "battery" \in d.caps => "sleep" \in Range(d.steps)
    /\ d.rates # <<>> => "polling" \in Range(d.steps)
    /\ d.levels # <<>> => "dpi" \in Range(d.steps)
    /\ d.buttons # <<>> => "buttons" \in Range(d.steps)
    /\ "speed" \in d.caps => d.fx > 1
    /\ "higheff" \notin d.caps
ASSUME DriverAssumption == \A d \in Driver : Fits(d) /\ KeepsKind(d) /\ HasSteps(d)
\* what is proved of packets, and of the device, is proved of these drivers
ASSUME RegistryAssumption == Driver \subseteq Registry

ASSUME InputAssumption ==
    /\ CommandLine \subseteq Seq([w : STRING, z : Int, n : Int])
    /\ \A k \in DOMAIN Texts : \A t \in Texts[k] : t = NoLine \/ Legible(k, t)

VARIABLES
    drv, dev, flash, file,
    pc, line, args, saves,   \* what alloy_cli_parse() has made of the line so far
    bound, active,           \* how many of args alloy_cli_bind() has taken, and their steps
    cfg, base,               \* working configuration and baseline
    queue,                   \* steps to push: [step, left, nack]
    failed, code,            \* a step failed; the exit status
    want,     \* history: step -> configuration its last push of this run was acknowledged with
    stored,   \* history: <<what was stored in the file that nobody touched since>>, or <<>>
    settled,  \* history: everything was pushed, saved and stored, and nothing done since
    touched,  \* history: this run has sent something
    ran, runs, edits, faults

vars == <<drv, dev, flash, file, pc, line, args, saves, bound, active, cfg, base, queue, failed, code,
          want, stored, settled, touched, ran, runs, edits, faults>>
device == <<dev, flash>>
command == <<line, args, saves, bound, active>>
history == <<want, stored, settled, touched>>
counts == <<runs, edits, faults>>

-----------------------------------------------------------------------------
(* Words. A word is a flag w, a number n with w = "", or zone:colour with z.   *)

Flag(w) == [w |-> w, z |-> -1, n |-> 0]
Val(n) == [w |-> "", z |-> -1, n |-> n]
ZoneVal(z, n) == [w |-> "", z |-> z, n |-> n]
NoVal == Flag("none")

Listing == {"--help", "-h", "--list", "-l", "--version", "-v", "--dump-udev"}
Commands == {"--accel-daemon", "--accel-stop"}

Option(w) ==
    CASE w \in {"--brightness", "-b"} -> "brightness" [] w \in {"--polling", "--rate"} -> "polling"
      [] w = "--color" -> "color" [] w \in {"--fx", "--effect"} -> "fx"
      [] w \in {"--dpi", "--cpi"} -> "dpi" [] w = "--accel" -> "accel" [] w = "--decel" -> "decel"
      [] w = "--snap" -> "snap" [] w = "--high-efficiency" -> "higheff" [] OTHER -> "unknown"

\* has_arg of the option that any driver has under this name
option_arity(opt) == CASE opt = "unknown" -> -1 [] opt = "higheff" -> 2 [] OTHER -> 1

option_available(opt) ==
    CASE opt \in {"brightness", "color", "dpi"} -> opt \in drv.caps
      [] opt = "polling" -> drv.rates # <<>>
      [] opt = "fx" -> drv.fx > 1
      [] opt = "higheff" -> "higheff" \in drv.caps
      [] OTHER -> drv.caps \cap Transform # {}

apply_step(opt) ==
    CASE opt \in {"color", "fx"} -> <<"colors">>
      [] opt \in {"brightness", "polling", "dpi"} -> <<opt>>
      [] OTHER -> <<>>

\* parse_brightness() .. opt_parse_snap(): the words each takes
Parses(opt, v) ==
    /\ v.w = ""
    /\ CASE opt = "color" -> v.z < Len(drv.zones)
         [] opt = "polling" -> v.n % Word \in Range(drv.rates)
         [] opt = "fx" -> v.n \in 0..(drv.fx - 1)
         [] opt = "dpi" -> v.n \in 1..(Word - 1)
         [] opt = "snap" -> v.n \in 0..45
         [] OTHER -> v.n \in 0..100

\* and what they make of the configuration
With(c, opt, v) ==
    CASE opt = "brightness" -> [c EXCEPT !.bright = v.n]
      [] opt = "polling" -> [c EXCEPT !.polling = v.n % Word]
      [] opt = "color" -> [c EXCEPT !.color = [z \in DOMAIN @ |->
                              IF v.z \in {-1, z - 1} THEN Rgb(v.n) ELSE @[z]]]
      [] opt = "fx" -> [c EXCEPT !.fx = [z \in DOMAIN @ |-> v.n]]
      [] opt = "dpi" -> [c EXCEPT !.dpi = [i \in DOMAIN @ |-> <<v.n, v.n>>]]
      [] opt = "accel" -> [c EXCEPT !.acceleration = v.n, !.accel = TRUE]
      [] opt = "decel" -> [c EXCEPT !.deceleration = v.n, !.accel = TRUE]
      [] opt = "snap" -> [c EXCEPT !.snapping = v.n, !.accel = TRUE]

-----------------------------------------------------------------------------
(* main(): one invocation.                                                     *)

Start ==
    /\ pc = "shell" /\ runs < MaxRuns
    /\ \E l \in CommandLine : line' = l
    /\ pc' = "parse" /\ runs' = runs + 1
    /\ args' = <<>> /\ saves' = FALSE /\ bound' = 0 /\ active' = <<>> /\ queue' = <<>> /\ ran' = "nothing"
    /\ want' = <<>> /\ failed' = FALSE /\ touched' = FALSE
    /\ cfg' = config_defaults(drv) /\ base' = config_defaults(drv)
    /\ UNCHANGED <<drv, device, file, code, stored, settled, edits, faults>>

Exit(status) ==
    /\ pc' = "shell" /\ code' = status
    /\ UNCHANGED <<drv, device, file, cfg, base, queue, failed, history, counts>>

\* alloy_cli_parse(): lists, commands and errors end the program at once
ParseEnds ==
    /\ pc = "parse" /\ line # <<>>
    /\ LET w == Head(line).w
           arity == option_arity(Option(w))
       IN \/ w \in Listing /\ ran' = "list" /\ Exit(0)
          \/ w \in Commands /\ ran' = "command" /\ Exit(IF Len(line) = 1 THEN 1 ELSE 0)
          \/ /\ w \notin Listing \cup Commands \cup {"--save"}
             /\ arity = -1 \/ (arity = 1 /\ Len(line) = 1)
             /\ ran' = "rejected" /\ Exit(1)
    /\ UNCHANGED command

\* the next word, with the word after it where the option takes one
ParseOption ==
    /\ pc = "parse" /\ line # <<>>
    /\ LET opt == Option(Head(line).w)
           arity == option_arity(opt)
           takes == arity = 1 \/ (arity = 2 /\ Len(line) > 1 /\ line[2].w = "")
       IN /\ arity > 0
          /\ arity = 1 => Len(line) > 1
          /\ args' = Append(args, [opt |-> opt, val |-> IF takes THEN line[2] ELSE NoVal])
          /\ line' = IF takes THEN Tail(Tail(line)) ELSE Tail(line)
    /\ UNCHANGED <<drv, device, file, pc, saves, bound, active, cfg, base, queue, failed, code, history, ran, counts>>

ParseSave ==
    /\ pc = "parse" /\ line # <<>> /\ Head(line).w = "--save"
    /\ saves' = TRUE /\ line' = Tail(line)
    /\ UNCHANGED <<drv, device, file, pc, args, bound, active, cfg, base, queue, failed, code, history, ran, counts>>

Push(steps, c) == [i \in DOMAIN steps |->
                      [step |-> steps[i], left |-> Packets(drv, steps[i], c), nack |-> FALSE]]
\* the table without the CPI step
SyncSteps ==
    LET dpi == {i \in DOMAIN drv.steps : drv.steps[i] = "dpi"}
    IN IF dpi = {} THEN drv.steps ELSE RemoveAt(drv.steps, CHOOSE i \in dpi : TRUE)

\* nothing was asked for: alloy_tui_run() loads the baseline and syncs the device
OpenSession ==
    /\ pc = "parse" /\ line = <<>> /\ args = <<>> /\ ~saves
    /\ cfg' = alloy_state_load(drv, file) /\ base' = cfg'
    /\ queue' = Push(SyncSteps, cfg')
    /\ pc' = "session" /\ ran' = "session"
    /\ UNCHANGED <<drv, device, file, command, failed, code, history, counts>>

OpenDevice ==
    /\ pc = "parse" /\ line = <<>> /\ (args # <<>> \/ saves)
    /\ pc' = "bind" /\ ran' = "one-shot"
    /\ UNCHANGED <<drv, device, file, command, cfg, base, queue, failed, code, history, counts>>

\* alloy_cli_bind(), first loop
BindNext ==
    /\ pc = "bind" /\ bound < Len(args)
    /\ LET a == args[bound + 1] IN
       \/ /\ option_available(a.opt) /\ Parses(a.opt, a.val)
          /\ cfg' = With(cfg, a.opt, a.val) /\ bound' = bound + 1
          /\ active' = active \o apply_step(a.opt)
          /\ UNCHANGED <<drv, device, file, pc, base, queue, failed, code, history, ran, counts>>
       \/ /\ ~(option_available(a.opt) /\ Parses(a.opt, a.val))
          /\ ran' = "rejected" /\ Exit(1) /\ UNCHANGED <<bound, active>>
    /\ UNCHANGED <<line, args, saves>>

Valid == \A i \in DOMAIN args : args[i].opt = "dpi" => cfg.dpi[1][1] \in drv.lo..drv.hi

\* alloy_cli_bind(), second loop; the steps are pushed in the order of the flags
BindDone ==
    /\ pc = "bind" /\ bound = Len(args)
    /\ \/ /\ Valid
          /\ pc' = "apply"
          /\ queue' = Push(active, cfg)
          /\ settled' = FALSE
          /\ UNCHANGED <<drv, device, file, cfg, base, failed, code, want, stored, touched, ran, counts>>
       \/ ~Valid /\ ran' = "rejected" /\ Exit(1)
    /\ UNCHANGED command

-----------------------------------------------------------------------------
(* alloy_driver_apply(): packets one after the other. What fails has arrived   *)
(* or not; only the Apex 100 stops at a failure.                               *)

GivesUp == drv.name = "apex100"
pushing == <<drv, flash, file, pc, command, cfg, base, code, stored, ran, runs, edits>>

Send ==
    /\ queue # <<>> /\ queue[1].left # <<>>
    /\ dev' = Take(drv, dev, Head(queue[1].left))
    /\ queue' = [queue EXCEPT ![1].left = Tail(@)]
    /\ touched' = TRUE
    /\ UNCHANGED <<pushing, failed, want, settled, faults>>

SendFails ==
    /\ queue # <<>> /\ queue[1].left # <<>>
    /\ "link" \in Faults /\ faults < MaxFaults /\ faults' = faults + 1
    /\ dev' \in {dev, Take(drv, dev, Head(queue[1].left))}
    /\ queue' = [queue EXCEPT ![1].left = IF GivesUp THEN <<>> ELSE Tail(@), ![1].nack = TRUE]
    /\ touched' = TRUE /\ settled' = FALSE
    /\ UNCHANGED <<pushing, failed, want>>

Lighting == {"colors", "brightness"}
StepDone ==
    /\ queue # <<>> /\ queue[1].left = <<>>
    /\ LET s == queue[1].step
           lost == IF s \in Lighting THEN Lighting ELSE {s}
       IN want' = IF queue[1].nack THEN [x \in DOMAIN want \ lost |-> want[x]]
                                   ELSE [x \in DOMAIN want \cup {s} |-> IF x = s THEN cfg ELSE want[x]]
    /\ queue' = Tail(queue) /\ failed' = (failed \/ queue[1].nack)
    /\ UNCHANGED <<pushing, dev, settled, touched, faults>>

\* ops->save(): the device keeps what it shows; over Bluetooth it always has
SaveFlash(ok) ==
    IF ok THEN flash' = dev /\ UNCHANGED faults
          ELSE /\ "link" \in Faults /\ faults < MaxFaults /\ faults' = faults + 1
               /\ drv.name # "aerox3_bt" /\ UNCHANGED flash

\* mutant: only the save decides the exit status
FinishOneShot_SaveCounts ==
    /\ pc = "apply" /\ queue = <<>>
    /\ pc' = "shell"
    /\ IF saves THEN \E ok \in BOOLEAN : SaveFlash(ok) /\ code' = IF ok THEN 0 ELSE 1
                ELSE code' = 0 /\ UNCHANGED <<flash, faults>>
    /\ UNCHANGED <<drv, dev, file, command, cfg, base, queue, failed, history, ran, runs, edits>>

\* the end of alloy_cli_apply()
FinishOneShot ==
    /\ pc = "apply" /\ queue = <<>>
    /\ pc' = "shell"
    /\ IF saves THEN \E ok \in BOOLEAN : SaveFlash(ok) /\ code' = IF failed \/ ~ok THEN 1 ELSE 0
                ELSE code' = (IF failed THEN 1 ELSE 0) /\ UNCHANGED <<flash, faults>>
    /\ UNCHANGED <<drv, dev, file, command, cfg, base, queue, failed, history, ran, runs, edits>>

-----------------------------------------------------------------------------
(* The session.                                                                *)

Idle == pc = "session" /\ queue = <<>>

Edit(c, steps) ==
    /\ Idle /\ edits < MaxEdits /\ c # cfg
    /\ cfg' = c /\ queue' = Push(steps, c) /\ edits' = edits + 1
    /\ settled' = FALSE
    /\ UNCHANGED <<drv, device, file, pc, command, base, failed, code, want, stored, touched, ran,
                   runs, faults>>

\* edits are tried at the first and the last zone and button
Ends(s) == DOMAIN s \cap {1, Len(s)}

EditZone == \E z \in Ends(drv.zones) :
    \/ "color" \in drv.caps /\ Edit(sync_global_fx(drv, [cfg EXCEPT !.color[z] = 5], z), <<"colors">>)
    \/ \E e \in {1, drv.fx - 1} : /\ drv.fx > 1
          /\ Edit(sync_global_fx(drv, [cfg EXCEPT !.fx[z] = e], z), <<"colors">>)
    \/ "speed" \in drv.caps /\ Edit(sync_global_fx(drv, [cfg EXCEPT !.param[z] = 2], z), <<"colors">>)

EditBrightness == "brightness" \in drv.caps /\ Edit([cfg EXCEPT !.bright = 37], <<"brightness">>)
EditRate == \E hz \in Range(drv.rates) \ {500, 1000} : Edit([cfg EXCEPT !.polling = hz], <<"polling">>)

Snapped(cpi) == (Clamp(cpi, drv.lo, drv.hi) \div drv.grid) * drv.grid
\* what a level is set to in a session: an end, off the grid, beyond the end
Tried == {drv.lo, 1733, drv.hi + 100}
dpi_set == \E cpi \in Tried : \E i \in 1..cfg.count :
    Edit([cfg EXCEPT !.dpi[i] = <<Snapped(cpi), Snapped(cpi)>>], <<"dpi">>)
dpi_create ==
    /\ "dpi" \in drv.caps /\ cfg.count < drv.limit
    /\ LET v == Snapped(cfg.dpi[cfg.count][1] * 2)
       IN Edit([cfg EXCEPT !.dpi[cfg.count + 1] = <<v, v>>, !.count = @ + 1], <<"dpi">>)
dpi_activate == \E i \in 1..cfg.count : Edit([cfg EXCEPT !.active = i - 1], <<"dpi">>)
button_activate == \E b \in Ends(drv.buttons) : \E a \in {<<"key", 40>>, <<"disabled", 0>>} :
    Edit([cfg EXCEPT !.buttons[b] = a], <<"buttons">>)
EditPower ==
    /\ "battery" \in drv.caps
    /\ \/ \E m \in {0, 20} : Edit([cfg EXCEPT !.sleep = m], <<"sleep">>)
       \/ Edit([cfg EXCEPT !.dim = 1200], <<"brightness">>)
       \/ Edit([cfg EXCEPT !.smart = ~@], <<"brightness">>)
accel_set == drv.caps \cap Transform # {} /\ Edit([cfg EXCEPT !.acceleration = 100], <<>>)

EditAny == \/ EditZone \/ EditBrightness \/ EditRate \/ dpi_set \/ dpi_create \/ dpi_activate
           \/ button_activate \/ EditPower \/ accel_set

\* mutant: the CPI levels are left out, as in the start-up sync
Save_NoLevels ==
    /\ Idle
    /\ pc' = "saving" /\ queue' = Push(SyncSteps, cfg) /\ failed' = FALSE
    /\ UNCHANGED <<drv, device, file, command, cfg, base, code, history, ran, counts>>

\* tui_save(): push everything, then flash, then the file
Save ==
    /\ Idle
    /\ pc' = "saving" /\ queue' = Push(drv.steps, cfg) /\ failed' = FALSE
    /\ UNCHANGED <<drv, device, file, command, cfg, base, code, history, ran, counts>>

FlashSave ==
    /\ pc = "saving" /\ queue = <<>>
    /\ \E ok \in BOOLEAN :
          /\ SaveFlash(ok)
          /\ pc' = IF ok THEN "storing" ELSE "session"
          /\ base' = IF ok THEN cfg ELSE base
    /\ settled' = FALSE
    /\ UNCHANGED <<drv, dev, file, command, cfg, queue, failed, code, want, stored, touched, ran, runs, edits>>

\* alloy_state_store(): the lines stay in a buffer until the file is closed
Emptied == << <<>> >>
Store ==
    /\ pc = "storing"
    /\ \/ file' = <<state_save(drv, cfg)>> /\ stored' = <<cfg>> /\ settled' = ~failed /\ pc' = "session"
          /\ UNCHANGED faults
       \/ /\ "disk" \in Faults /\ faults < MaxFaults /\ faults' = faults + 1
          /\ pc' = "session" /\ UNCHANGED <<file, stored, settled>>
       \/ /\ "crash" \in Faults /\ faults < MaxFaults /\ faults' = faults + 1
          /\ file' = Emptied /\ stored' = <<>> /\ settled' = FALSE /\ pc' = "shell"
    /\ UNCHANGED <<drv, device, command, cfg, base, queue, failed, code, want, touched, ran, runs, edits>>

\* quitting undoes what was not saved
Quit ==
    /\ Idle
    /\ pc' = IF cfg = base THEN "shell" ELSE "leaving"
    /\ cfg' = base
    /\ queue' = IF cfg = base THEN <<>> ELSE Push(drv.steps, base)
    /\ code' = 0
    /\ UNCHANGED <<drv, device, file, command, base, failed, history, ran, counts>>

Leave ==
    /\ pc = "leaving" /\ queue = <<>> /\ pc' = "shell"
    /\ UNCHANGED <<drv, device, file, command, cfg, base, queue, failed, code, history, ran, counts>>

-----------------------------------------------------------------------------
(* Between runs.                                                               *)

HandEdit ==
    /\ pc = "shell" /\ file # NoFile /\ "editor" \in Faults /\ faults < MaxFaults /\ faults' = faults + 1
    /\ \E k \in DOMAIN file[1] \cap DOMAIN Texts :
       \E t \in Texts[k] : file' = <<IF t = NoLine THEN [x \in DOMAIN file[1] \ {k} |-> file[1][x]]
                                                  ELSE [file[1] EXCEPT ![k] = t]>>
    /\ stored' = <<>> /\ settled' = FALSE /\ ran' = "editor"
    /\ UNCHANGED <<drv, device, pc, command, cfg, base, queue, failed, code, want, touched, runs, edits>>

Replug ==
    /\ pc = "shell" /\ drv.name # "aerox3_bt" /\ dev # Kept(flash)
    /\ dev' = Kept(flash) /\ want' = <<>> /\ ran' = "power cycle"
    /\ UNCHANGED <<drv, flash, file, pc, command, cfg, base, queue, failed, code, stored, settled,
                   touched, counts>>

Init ==
    /\ drv \in Driver
    /\ dev = <<>> /\ flash = <<>> /\ file = NoFile
    /\ pc = "shell" /\ line = <<>> /\ args = <<>> /\ saves = FALSE /\ bound = 0 /\ active = <<>>
    /\ cfg = config_defaults(drv) /\ base = cfg /\ queue = <<>>
    /\ failed = FALSE /\ code = 0
    /\ want = <<>> /\ stored = <<>> /\ settled = FALSE /\ touched = FALSE
    /\ ran = "nothing" /\ runs = 0 /\ edits = 0 /\ faults = 0

Next ==
    \/ Start \/ ParseEnds \/ ParseOption \/ ParseSave \/ OpenSession \/ OpenDevice
    \/ BindNext \/ BindDone \/ Send \/ SendFails \/ StepDone \/ FinishOneShot
    \/ EditAny \/ Save \/ FlashSave \/ Store \/ Quit \/ Leave \/ HandEdit \/ Replug

Spec == Init /\ [][Next]_vars

-----------------------------------------------------------------------------
(* Properties. *)

\* Whatever was parsed, edited or read from a file, settings a run works with are
\* ones the driver can have - counts, levels, speeds and effects within its tables
\* (state_done, alloy_light_normalize, the option parsers) - and what a one-shot
\* invocation still wants are steps its driver has (bind_options).
InvTypeOK ==
    /\ pc \in {"shell", "parse", "bind", "apply", "session", "saving", "storing", "leaving"}
    /\ code \in {0, 1} /\ bound \in 0..Len(args)
    /\ DOMAIN want \subseteq Range(drv.steps)
    /\ pc \in {"bind", "apply"} <=> (ran = "one-shot" /\ pc # "shell")
    /\ Legal(drv, cfg) /\ Legal(drv, base)

Stored(c) == [c EXCEPT !.dpi = [i \in 1..c.count |-> @[i]], !.flash = IF c.reacts THEN @ ELSE 0]

\* What a session stores is what the next one loads, for every driver and every
\* setting it can hold, if nobody edits the file (state_save against state_load
\* and state_done).
SavedIsLoaded == stored # <<>> => Stored(alloy_state_load(drv, file)) = Stored(stored[1])

\* An acknowledged step of this run is shown as long as the run lasts: no step
\* undoes another's part, whatever a lost packet left behind (the applies of all
\* drivers, the order of their packets).
PushedIsShown == queue = <<>> => \A s \in DOMAIN want : Shows(drv, s, want[s], dev)

\* A one-shot that exits with 0 did what each of its flags says, and one that is
\* rejected has sent nothing (alloy_cli_bind before alloy_cli_apply). The pointer
\* flags have no step and are not shown anywhere.
Later(i) == {j \in (i + 1)..Len(args) : args[j].opt = args[i].opt}
ExitIsHonest == pc = "shell" =>
    /\ ran \in {"rejected", "list", "command"} => ~touched
    /\ ran = "one-shot" /\ code = 0 =>
         /\ \A i \in DOMAIN args : \A s \in Range(apply_step(args[i].opt)) :
              /\ s \in DOMAIN want /\ want[s] = cfg /\ Shows(drv, s, cfg, dev)
              /\ Later(i) = {} => With(cfg, args[i].opt, args[i].val) = cfg
         /\ saves => flash = dev

\* After a save that worked in all its parts, a device that was unplugged and
\* plugged in again shows, once a new session has synced it, everything that the
\* session shows, the CPI levels too, which the sync leaves alone.
SavedSurvives == settled /\ Idle => \A s \in Range(drv.steps) : Shows(drv, s, cfg, dev)

\* The manual: a one-shot "applies them to the target hardware, updates the local
\* baseline state, and exits immediately".
BaselineUpdated == pc = "shell" /\ ran = "one-shot" /\ code = 0 =>
    \A i \in DOMAIN args : Later(i) = {} =>
        LET c == alloy_state_load(drv, file) IN With(c, args[i].opt, args[i].val) = c
=============================================================================
