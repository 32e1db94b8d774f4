# A TLA+ model of alloyctl

alloyctl configures gaming mice and keyboards: a ncurses TUI and a command line
over per-device drivers that speak vendor protocols on hidraw nodes, and a small
daemon that transforms a mouse's motion between evdev and uinput.  This
directory models the parts of it where the order of steps matters, checks them
with TLC and proves what matters most with TLAPS.  Paths below are relative to
the repository; `PROJECT.json` maps every definition to the lines it stands for
and lists runs, mutants, theorems, hazards and findings.

## 1. Inventory

| Component | State | Operations | Talks to |
|---|---|---|---|
| Acceleration daemon (`drivers/lib/accel.c`) | pidfile, `g_quit`/`g_reload`, grabbed descriptor, parameters, retry count | set up, load, publish, poll loop, reload, pump, retry, tear down; `spawn`, `stop`, `reload`, `--accel-stop` for its clients | state file, evdev/uinput, signals |
| Pointer transform (`drivers/lib/accel_transform.c`) | carried remainder | gain curve, angle snapping, scaling with carry | the daemon's pump |
| Mouse library (`drivers/lib/mouse.c`) | CPI table and active level, transform settings, engine switch, battery gauge, pairing wizard | item getters/setters, session hooks (`mouse_enter/saved/reverted/event/poll`), state keys, CLI options | TUI through `alloy_ui_changed`, daemon, driver |
| TUI session (`src/tui.c`, `tui_input.c`, `tui_modal.c`, `tui_canvas.c`) | working configuration, baseline, `dirty`, `live_preview`, `device_synced`, focus and screens | frame loop: drain events, handshake, key; edits, SAVE, REVERT, quit guard | driver steps, state file, hooks |
| Persistent state (`src/state.c`) | one INI file per device | load, store | session, daemon, CLI |
| Registry and apply steps (`src/driver.c`) | driver table, open device | register, enumerate, open, `alloy_driver_apply`, `alloy_driver_apply_all` | drivers, transport |
| SteelSeries command layer (`drivers/steelseries/steelseries_common.c`) | attempt count | write, match the echo, retry | transport |
| Rival 3 Gen 2 (`.../rival3_gen2`) | none | payload builders, step table, level reports | command layer |
| Lighting and device configuration libraries (`drivers/lib/light.c`, `devcfg.c`) | zones, effects, parameters, rate | edits, mirroring, normalisation, state keys, option parsing | session, state file, command line |
| Keyboard library (`drivers/lib/keyboard.c`) | snap groups, profile, the group count | controls, `group_add/del`, shortcuts into the baseline | session, ALU87A |
| ALU87A (`drivers/dark_project/...`) | none; the keyboard keeps a record per profile | read a record, change it, write it back; parse reports | transport |
| Other SteelSeries drivers (Aerox 3 Wireless and its Bluetooth side, Rival 3, Rival 600, Prime, Apex 100) | none; battery and pairing through the receiver | payload builders, step tables, save, battery, pair | command layer |
| Command line (`src/cli.c`, `main.c`) | a configuration built from options | parse, bind, apply once, exit code | registry, drivers |
| HID transport (`src/hid.c`, `hid_transport.c`) | two descriptors: configuration and events | write, read with timeout, poll, presence | kernel |
| Screens (`src/tui_render.c`, `tui_input.c`, `tui_modal.c`, `drivers/lib/widgets.c`) | screen, focus, a cursor per pane, the open dialog | slots, layout, clipping, keys, dialogs | session, item lists of the libraries |
| Udev generator (`src/udev.c`) | none | prints rules | driver table |

What is hard here, and what would make each part correct:

* **Daemon.**  Several processes share a pidfile without a lock; signals arrive
  at any instruction; the device vanishes and returns; the configuration is
  rewritten in place while it is read.  Correct means: the mouse is held exactly
  while a daemon is on duty, no reload
  lost, nobody signalled before it can take it, every stop honoured, whoever
  serves can be found.
* **Transform.**  Fixed-point arithmetic with a signed remainder.  Correct means:
  the gain is bounded and grows with speed, nothing is lost to rounding, no
  report moves the pointer against the hand, buttons keep their place.
* **Session.**  Five copies of the settings (screen, baseline, file, device memory,
  flash), pushed in batches that can fail half way, while the mouse's own button
  moves one of them.  Correct means: the dirty flag is honest, live preview is
  truthful, SAVE reaches everything, discarding restores everything, the button
  is not an edit.
* **Command layer.**  Retries against a queue that outlives the command.  Correct
  means: an acknowledged command was taken, and every command returns.
* **Settings.**  One configuration in three encodings - memory, text file, wire -
  with defaults per driver, keys in any order and files edited by hand.  Correct
  means: what is stored is loaded, and whatever is loaded is something the driver
  can have.
* **One-shots and sessions.**  Both push steps whose packets overlap in the device;
  the device keeps some registers over power loss and forgets the rest.  Correct
  means: no step undoes another, an exit code of 0 is the truth, a saved setting is
  there after the next plug-in.
* **Keyboard.**  Records are read, changed and written back while shortcuts act
  on the same keyboard.  Correct means: a transfer changes one aspect of one
  profile, screen and keyboard name the same profile, the next session finds what
  this one left.
* **Wireless link.**  The only sign of life is a battery query that a napping mouse
  leaves unanswered.  Correct means: the gauge follows the last three queries, a
  mouse that stays is greeted once, one that is gone is shown as gone.
* **Screens.**  Cursors outlive the lists they point into.  Correct means: a key acts
  on what is lit, and what can be chosen can be seen.
* **Lighting batch.**  Four commands whose order the firmware's rainbow engine
  dictates, each lost or repeated by itself.  Correct means: an acknowledged
  step shows what was asked for.

`PROJECT.json` "hazards" lists each of these at its line, with the property that
would catch it or the reason why none does yet.

## 2. Modules

```
AccelTransform <- AccelPump                (arithmetic, reports)
AccelDaemon    <- EngineControl            (processes; TUI and CLI as their clients)
SteelCommand   <- RivalLights              (one command; the batches made of them)
Session                                    (the frame loop and all copies of the settings)
Settings <- Drivers <- Invocations         (file and defaults; packets; runs of the program)
ProfileStore <= KeyboardProfiles           (what a keyboard promises; the ALU87A)
WirelessLink                               (gauge, handshake, pairing)
Menu                                       (focus, keys, dialogs, layout)
```

`X <- Y`: Y extends X.  `X <= Y`: Y implements X under a refinement mapping.  `MCX` instantiates X for TLC, `XProofs` holds its theorems.

**AccelDaemon** - any number of `alloyctl --accel-daemon` processes of one mouse.
`pc[d]` has one label per point at which a signal, another process or the kernel
can intervene in `alloy_accel_daemon_run()`, and one action per stretch between
two of them (`Setup`, `Arm`, `FirstLoad`, `WritePidfile`, `LoopTest`, `Block`,
`PollReturn`, `ReloadCheck`, `Reread`, `Dispatch`, `PumpBatch`, `PumpVanished`,
`RetryTest`, `RetrySetup`, `Release`, `Unlink`).  The stored configuration is a
version number with a flag for the moment between `fopen("w")` and the write.
Version 0 is no file at all (`Missing`), where the hazard `"bare"` lets a run begin.
`asked` and `seen` are histories.  The environment may launch, signal, kill,
unplug, refuse access and rewrite the file at any time.

**EngineControl** - the daemons with their real clients: the TUI's engine switch
(`engine_set`), live edits, SAVE and REVERT as far as a daemon notices them, and
`--accel-stop`.  A handler is cut where it touches a file or a process.  Its
specification *implements* AccelDaemon's (property `DaemonSpec`, theorem
`EngineImplementsDaemon`): the environment assumed there is the real one here.

**AccelTransform**, **AccelPump** - the arithmetic as operators over unbounded
integers, and `accel_pump()` event by event.  `hand`, `due` and `moved` are
histories: what the hand did, what the curve makes of it, what came out.

**Session** - one session on a mouse.  Configuration is kept as far as the copies
can disagree: `light` stands for everything the unskipped apply steps carry,
`count`/`level` for the CPI table, `accel`/`enabled` for the pointer transform.
A handler that talks to the device is cut at every command (`Push`), and the CPI
button (`Press`) falls anywhere.  A push is acknowledged, not taken, or taken
with its acknowledgement lost.

**SteelCommand** - `steelseries_cmd()`: attempts, timeout, idle marker, stale
reports; `air` and `replies` are the two queues between host and mouse and
outlive the command.  **RivalLights** puts `r3g2_apply_colors()` and the
brightness step on top of it, and the firmware's rainbow engine, as the driver's
comments and the protocol page describe it, behind it.  What Session assumes of
an acknowledged push is what is checked and proved here.

**Settings** - what a configuration is, `alloy_mouse_defaults()` and its kin, the keys
written (`state_save`, one line per member of `mouse_state_lines`) and read back line
by line (`devcfg_state_load`, `mouse_state_load`, then `state_done` and
`alloy_light_normalize`), and `sync_global_fx`.  A file is a function from keys to
texts; `Atoi` and `Scan` do to a text what `atoi` and `sscanf` do.  **Drivers** - six
SteelSeries mice and a keyboard as records of what their tables declare, and every
payload builder as a function from the device's registers to wire values; an apply
step is a sequence of packets.  `Take`, `Running`, `Kept` and `Volatile` are the
device, from the drivers' comments and `Documentation/protocol`.  **Invocations** -
one run of the program after another on one device, with at most one `file`.  A
command line goes through `ParseOption`, `BindNext`, `Send`, `FinishOneShot` packet by
packet; a session loads, syncs, edits, saves (`Save`, `FlashSave`, `Store`) and leaves.
Between runs a user may edit the file or unplug the device.  `want` is a history: the
configuration with which each step was last acknowledged.

**ProfileStore** - the abstract keyboard: a store of profiles of which each command
changes one aspect in one profile.  **KeyboardProfiles** - the ALU87A behind
`keyboard.c`: records as functions from the offsets the driver knows, `ReadBase` and
`WriteRecord` as the two transfers a step makes, `WriteChunk` for the halves of a
key matrix, shortcuts anywhere in between.  Its property `ImplementsStore` is
ProfileStore's specification under the mapping of records to aspects.  A snap tap set-up
is sent with every place filled up to the count and an empty pair behind, and read up
to the first empty pair (`Filled`); only the offsets of the two reports are left out.  What the
driver's lists and sliders can be set to (`Setting`, `Light`) and what its
constants have to be - factory lightings, edits within the lists, a pair of keys to
choose - are named assumptions, which the run evaluates and the proofs use.

**WirelessLink** - `mouse_tick` with its query and misses, `mouse_ready`,
`tui_sync_device` and the wizard (`mouse_key`, `PairNext`, `PairEscape`), against a
mouse that naps, sleeps, is switched off or to Bluetooth, and a receiver whose node
is opened once.  `answered` is a history of the last queries.

**Menu** - the item lists of `mouse.c`, `keyboard.c`, `light.c` and `widgets.c` as
sequences of records, their slots (`tui_pane_slots`, `Slot`) and the two ways a cursor
is resolved to one (drawing: `Lit`; keys: `focused_item`), one action per key and dialog, and
`tui_layout` with `draw_pane` as arithmetic over the terminal's size.  Settings are a
function from name and index to numbers; pushing is Session's.

Definitions named `X_<what>` are mutants: X with a plausible bug.  For every
property of every passing run one of them makes it fail, so no property holds
whatever the code does.

## 3. Runs

| Run | Question | Instance | Distinct states |
|---|---|---|---|
| `accel_daemon` | Does a process hold the mouse exactly while on duty, and does the pidfile name only who can take a signal? | 2 daemons, 1 retry, 2 versions, all hazards | 2.86 M |
| `accel_daemon_unplug` | Is an unplugged idle mouse noticed?  **No** | 1 daemon, fair | violation |
| `engine_control` | Does the TUI keep daemons named, up to date and stoppable; are stop, reload and vanishing always dealt with? | 3 launches, 5 versions, `--accel-stop`, fair | 126 k |
| `accel_pump` | Do the books balance? | 5 reports, 6 settings, 4 reports sent, reads of 5 events from a queue of 8 (reports get split) | 188 k |
| `session` | Is a session honest? | 2 lights, 2 transforms, 2 levels, 2 edits, 1 press; commands not taken or unacknowledged, a late link, an engine that fails | 3.99 M |
| `steel_command` | Does every command return, whatever fails? | 3 commands, two of one opcode, 5 attempts, 2 strays, all faults, fair | 0.21 M |
| `rival_lights` | Is an acknowledgement reliable, and does an acknowledged lighting step show? | 2 zones, 2 colours, 2 attempts, any state of the mouse | 0.94 M |
| `keyboard_profiles` | Do records stay in their places, and do screen, keyboard and next session agree? | 2 profiles, 2 groups, 3 acts, 1 shortcut, 1 failed transfer; no group on the keyboard yet | 1.27 M |
| `wireless_link` | Is the gauge right, and is a mouse that stays greeted? | 2 battery levels, 3 misses, 4 changes of the world, fair | 12 k |
| `invocations` | Is what is stored loaded, what is pushed shown, and an exit code true? | 7 drivers, 2 runs of 21 command lines or a session with 1 edit, 1 fault | 0.90 M |
| `invocations_baseline` | Does a one-shot update the baseline?  **No** | 1 run, no faults | violation |
| `menu` | Does a key act on what is lit, and can it be seen? | 6 drivers, 3 terminals, 1 edit, 1 cursor away from its first place, 10 groups | 211 k |

Why the bounds are enough.  Two daemons give every race of a pair - the pidfile and the
grab are pairwise - and EngineControl's three launches add "off, on, off" and a crash
between, and have no `"bare"` because the TUI stores before it spawns; more versions
than the handlers of one round store add nothing, as only "older or newer than" is
compared.  One retry shows the loop ending both ways; the theorems hold for 30.  Two
lights are "the saved one and another", two levels make a table that grows once and a
button that cycles; two edits are one held back and one pushed; with a state file that
cannot be written (`"disk"` added to `Faults`, 10.2 M states) the same properties hold,
too long for a kept run.  Reads of 5 events are the code's 64 scaled to reports of at
most four: a read takes a report and the start of the next, or whole ones.  In
`invocations` two runs are one that leaves something and one that finds it; one edit is
enough because every setting is tried and no two edits meet but in the same
configuration; one fault is one packet lost, one file not written or one line changed.
In `keyboard_profiles` three acts are a switch, an edit and a save; two groups are the
one that may not be deleted and one more; effects 6 and 14 are one with a direction and
the one with zones, whose offsets overlap other effects'.  In `wireless_link` four
changes switch a mouse off and on, or move it to Bluetooth and back, on either side of a
replugged receiver.  In `menu` one edit since the last frame is what one key makes,
terminals are the smallest the program draws on, an odd one that exercises rounding and
one with all the lines it needs; a driver for each shape of its lists, the ALU87A one
group short of the limit, the Aerox 3 over Bluetooth with neither buttons nor lights nor
rates.  Which entry of a menu dialog or colour of the palette is picked is left open.
Two zones are one cycling and one static, two attempts are one repeated; one unrelated
report is enough there because `Reliable` has any number, as five of the code's eight
attempts are in `steel_command`.

`CHECK_DEADLOCK FALSE` everywhere: all processes may have ended, a session is
over, and the bounds on edits, versions and reports stop the environment.

Fairness.  `Step(d)`: the scheduler runs a process that can run - code between two
system calls always goes on, and `poll()` with something to report returns. `Motion(d)`:
a connected mouse is moved again some day; the daemon's `poll()` has no timeout and a
signal that falls before it waits for the next event, so without this neither stop nor
reload completes.  `Handler`: the TUI's thread goes on with a handler it began.  `Host`:
the same for a command.  `Take \/ Drop`: a write arrives or is lost.  `mouse_tick` and
`tui_sync_device`: the frame loop goes round while no modal is open, and calls both each
time.  Nothing is assumed of the user, of plugging, of faults, of the CPI button, or
that a command ever arrives.

## 4. Theorems

All for every value of the constants, under the named assumptions of the modules.

* **EngineControlProofs** - of the daemons alone `Typing`, `StaysOnDuty`,
  `ReloadsNotLost`, `NamedTakesSignals`.  `OnDuty` is inductive together with the
  types: it ties `pc`, `src` and the reason for leaving the loop.  That two processes
  never hold the mouse at once is the kernel's promise, a guard of `GrabOK`, and not a
  property.  Reloads need `ReloadInv`: whoever has been
  asked has read since, or has the flag set, or is at the label between clearing the
  flag and reading - also for a process whose handler came before its first load.
  With their clients `EngineImplementsDaemon`: each step of the TUI is a step
  of AccelDaemon's environment or changes nothing it sees.  `ServingNamed`: the
  pidfile of a serving daemon is its own.  Its invariant `NameInv` says which
  processes can still be alive when `spawn` forks; it needs `Punctual` (no daemon
  needs more than the 500 ms `spawn` waits).  Without it - or with launchers
  besides the TUI - a leaving daemon can remove its successor's pidfile.
  `ServesStored`, under the same assumption: a named daemon with no signal under way
  works with what was stored when it was last told.  `FreshInv` has one clause per
  place of the handler (a version stored and not signalled yet, a signal sent and
  not read yet, a daemon that has not loaded), and `OnlyNamedLives` takes the
  processes nobody names out of the account.
* **AccelPumpProofs** - of the transform `GainRange` (0.25 to 1.75), `GainGrows`,
  `AxisStep` (a step neither loses nor invents motion, leaves less than a count and
  never goes against the hand).  Carried through the pump: `PumpTyping`,
  `PumpNothingLost`, `PumpNeverBackwards` by the invariant that sums equal `hand` and
  `due` = `moved` + remainder (`Books`), for any buffer size; these two speak of the
  time until a read ends inside a report (`cuts`).  `PumpKeepsFrames` does not: buttons,
  wheel and boundaries come out as they went in, also after lost and split
  reports.  It rests on `PumpAssumption`: the event that closes a report has value 0,
  as the kernel's `input_sync()` sends it.
* **SessionProofs** - `SessionTyping`, `FlagIsHonest`, `QuitIsGuarded`,
  `ButtonIsQuiet`.  The strengthening, `Shape` and `Honest`, says
  which handler may be running with which steps left, and that while one runs the
  flag is either honest already or about to be assigned.  `LiveIsShown`,
  `SaveReachesAll`, `DiscardIsComplete` relate screen, device, flash and disk: their
  invariant `Shown` says of every step that it is still to be pushed, or failed, or
  on the device as the configuration has it, and of a handler that ends the session
  what it has put where so far.
* **RivalLightsProofs** - of the command layer `CommandTyping` and `Reliable`: an
  acknowledged command was taken.  The invariant `Clean`: outside a wait nothing is
  under way and the queue holds unrelated reports only; inside there is one write
  under way *or* at most one answer, and an echo among them means taken.  It needs
  `Timely`: answers come within the timeout and no read is interrupted.  Without it
  TLC finds the stale echo of section 5.  Of the lights `LightsTyping`;
  `LightsImplementsCommand`, so that `Clean` holds of every batch; `Arrives`: an
  acknowledged lighting step shows what the configuration says.  Its invariant
  `Shown` speaks of commands *owed* (still to be issued, or going and not taken):
  what is not owed is on the mouse unless a command failed (`Paid`), the switch is
  owed before the masks that need it (`Order`), and what a step left stays until its
  next run (`Kept`).

* **WirelessLinkProofs** - `LinkTyping`; `GaugeStaysRecent`: the gauge shows a reading
  exactly as long as one of the last `MaxMisses` queries was answered, whatever the
  number, the answers and the faults.  The property speaks of a window, the code
  counts: `Recency` ties them together - with a reading, the last answer lies
  `misses + 1` queries back; without one there is none in the window.

* **KeyboardProfilesProofs** - `KbdTyping`; `ScreenFollows`; `NextSession`;
  `KeyboardImplementsStore`, the refinement of ProfileStore.  The lemmas on records
  come first: what `build_lighting` leaves in each byte although effects overlap
  (`LightingBytes`), that building twice changes nothing (`BuiltIsLit`), and that what
  is read of a lit record is the lighting as the keyboard can hold it (`RoundTrip`).
  `KbdInv` adds to the typing that a step under way holds the record of its own
  profile or zeros, which is why no record ends up in another's place.  `SwitchInv`:
  the profile on screen is the keyboard's, or the last report waiting names it.
  `SentInv` follows an apply_all that has failed nowhere: `InOrder` says which steps
  are left, and there is one clause for what each step that is done has brought
  about; an edit, a shortcut or a failure ends it (`fresh`).  For the refinement each
  write is shown to leave every profile and aspect but its own alone (`Apart`), a
  failed read included, where a lighting costs the polling rate and vice versa.

* **InvocationsProofs** - `InvTyping`, `SavedLoads`, `PushedShown`, `SavedSurvive`,
  `HonestExit`, for any command lines, hand edits and faults.  The invariants, and what
  they are said in, are a module of their own, **InvocationsInvariants**, which has
  definitions only.  The first two hold for any
  drivers, under `DriverAssumption` (what a driver declares fits its configuration, its
  kind stands, its steps are ones there are), `InputAssumption` (an edited line is one the
  loader can read or is gone) and `JunkAssumption`; the other three are about packets and
  need `RegistryAssumption`: the drivers are among the seven of `Registry`.  `Own` is what
  the configuration of a run is: one of the driver's (`Config`), `Legal`, and at its default
  wherever the file has no line (`Unprinted`).  That the defaults are such, an option and an
  edit keep it, and *any* legible file loads to it, are `Defaults`, `WithOwn`, `EditOwn`,
  `Loaded`; `Ready` carries it through a run with the types of command line, queue and
  exit status.  `RoundTrip`: loading what was stored gives what was stored, line by line.
  `Honest` follows the flags of a one-shot: what a flag asks for holds until a later
  one of its kind (`Holds`, `WithKeeps`), its step is among those to push (`Taking`), each of
  these is acknowledged or still queued unless one failed (`Pushing`), so at exit 0 all
  are (`Finished`); that what was acknowledged is *shown* is `PushedShown`.

  `PushedShown` begins with the packets.  What a device has after the first packets of a
  step is what the last of them to write a register put there, and a rainbow where the
  mask enrolled a lamp while the engine runs (`Reached`, carried on packet by packet by
  `ReachedNext`, without induction over the step, because the run goes packet by packet
  anyway).  This needs `Orderly`: engine first, mask next, no lamp painted that the mask
  enrolled.  Every step of every driver is followed from its builders to what the device's
  registers mean (`PollingFull`, `DpiFull`, `R600Colors`, ..., together `StepShown`): levels
  through each wire table, rates, lamps, the Rival 3's effect before its colours, the Rival
  600's gradients, whose wire distances add up to positions again (`SumsAre`), brightness
  within the rounding of its scale, sleep in milliseconds.  `StepKeeps`: no
  packet of one step changes what another shows, but for the lights of a Rival 3 and an
  Apex 100, which two steps write (`Undone`).  Hence `ShownInv`: of the step under way the
  packets sent have arrived unless one failed (`Underway`), an acknowledged step is shown
  unless it is about to be sent again (`Resting`), and what was acknowledged of the lights
  is what the configuration still says, so that sending the other step repeats it
  (`Alike`) - on a Rival 3 colours are pushed before brightness and brightness pushes them
  once more.

  `SavedSurvive` strengthens `SavedSurvives` to `Surviving`: a save has every step
  acknowledged or queued (`Saving`), and the flash is then what the device is (`Storing`);
  from then on the levels of the stored configuration are shown by device and flash
  through power cycles, and a session that has just begun pushes every other step
  (`Lasting`, `Synced`).  `LevelsFirst` and `SyncTable`: what the sync leaves out is the levels
  and nothing else.  `KeptLevels`: a power cycle keeps them.  `StoredLevels`: what is
  stored, and so loaded, has the same levels.

* **MenuProofs** - `MenuTyping`, `FocusRests`, `EditsTheLit`, for any drivers that
  satisfy `DriverAssumption` (a mouse with lights has buttons, a light effects, and no control of
  an effect has the name of another setting).  Lemmas on the lists first: every list is
  `WellFormed`, that is, a selectable item is of one of the kinds `Shape` names and the
  five stops of a colour stand side by side; and whether it offers anything is decided by
  device and screen alone (`Offers`), although the settings make it longer and shorter:
  hence `FocusRests`.  A slot is the rank of a selectable place (`RankOnto`, `SlotIs`),
  so lit item and focused item are the same one wherever the cursor stands
  (`Focused`), and the hex key lands on the field of the same colour (`HexStop`).
  `MenuInv` adds that a dialog about a setting still belongs to the lit control
  (`Dialogs`), without which a dialog could write elsewhere.  TLC checked `MenuInv` on
  the instance of `menu` before it was proved.

Only model-checked: everything temporal under fairness (liveness is out of the
prover's reach), and of Menu the layout (`ShownInFull`: its widths and heights are sums
over sets of panes, which the library defines by recursion over the set).  Not proved
either: that EngineControl is `Punctual` - that is a matter of time, not of logic.

## 5. What disagrees with the code's own words

Shown by a run of its own:

* A mouse unplugged with an empty event queue is never noticed: `POLLHUP` without
  `POLLIN` sends the loop back to `poll()` for ever (`accel_daemon_unplug`).
* A one-shot that succeeds leaves the state file as it was, so the next session pushes
  the old settings back; the manual says it "updates the local baseline state"
  (`invocations_baseline`).

Reached by the models, and why some properties carry the conditions they carry:

* The engine switch writes the whole working configuration (`mouse.c:646`), so a colour
  nobody saved outlives a session that ended clean; `tui.c:109` says that only SAVE
  writes the baseline.
* A button press to a level that was created but not saved puts an active level into
  the baseline that its table lacks (`mouse.c:1051`); REVERT then sends a command
  whose active index is not below its count.
* After an interrupted `poll()` (`hid.c:276`) a stale echo acknowledges a later command
  of the same opcode, although the protocol page calls the echo reliable.
* A daemon told to reload while there is no state file - nothing was stored, or the store
  failed - ends instead: `errno` is looked at after `load_params()` (`accel.c:551-558`),
  whose failed `fopen()` leaves ENOENT where `poll()` left EINTR.  `accel.c:18` says that
  SIGHUP re-reads the configuration.  `OnDuty` names the case.
* A daemon started while another is leaving loses its pidfile to it; off and on again at
  once leaves the switch on and no daemon, because `spawn` finds the dying process
  alive; a report split over two reads loses the motion read first (`NothingLost` stops
  at the first such read, `Framing` does not).
* `tui_save()` stores the baseline although an apply step failed, as long as the flash
  command was acknowledged.
* A stored CPI count above the stored levels loads levels of 0 CPI; a stored polling rate
  the device does not have is shown while the device runs at 1000 Hz.  Neither makes a
  configuration illegal as `Legal` (Invocations) has it.
* `mouse_ready()` is true when a Bluetooth mouse is present although the open device is
  the receiver: the handshake goes to nobody and is not repeated.  `LinkedIsGreeted`
  speaks of `synced`; `reached` records the difference.
* A receiver that drops off the bus and returns is never reopened
  (`alloy_hid_reopen` has no caller), although `adding-a-driver.rst:206` asks
  drivers to survive that.  Stage 2 of the wizard does not look at the receiver.
* The ALU87A's polling rate is read from and written to profile 1 only.  A failed base
  read is not noticed: zeros are written back (`Overwrite` in ProfileStore).  After a
  profile switch the configuration keeps the old profile's lighting, and the next edit
  puts it over the new one's.  A shortcut that falls into a push leaves screen and
  keyboard on different profiles (`told`).  Custom lighting (effect 14) keeps its
  brightness, speed and multicolour at offsets that are Wave's speed, multicolour and
  direction.
* The value of a button's action has 16 bits in the file and 8 on the wire
  (`steelseries_rival3.c:185` and its kin cast it): a usage code above 255, which only a
  hand edit can set, sends another key.  `ShowsButtons` speaks of the codes up to 255.
* A stale cursor, after a list shrank, makes UP and DOWN jump.  At the 100 x 28 characters
  the program asks for, lists are cut off; it takes 46 lines to show every control
  (`EnoughLines`).  Below that size nothing is drawn and keys still act.

Seen while modelling, without a model that shows it: `startup_fx` is stored and loaded but
neither `r3g2_build_startup()` nor `a3wl_build_startup()` reads it; the manual's
clamping of `--dpi` is a rejection, and `--fx` takes no zone or number and `--color` no
`#` and no three digits; `--accel` and its kin have no apply step, so alone they
change nothing and exit with 0; `--fx` on the Apex 100 resets its brightness, whose slider
goes to 10 speeds where the wire knows three; a one-shot `--snap-tap` or `--color
zone:...` overwrites neighbours with defaults; `read_config()` of the ALU87A cannot
fail, so its stored state is never read; `normalize` does not mirror colours where
`sync_global_fx` does; a direction kept from WAVE is out of range for SPIRAL.

## 6. What is not modelled, and the plan

Not modelled: finding the event node and mirroring its capabilities; failed writes to
uinput and the pidfile; a `poll()` of the daemon that fails for another reason than a
signal, or an `errno` of ERANGE left by a number in a hand-edited file; a crash of the
TUI but in the middle of storing; reuse of pids; a user who runs two TUIs; `--device`
and the choice among several devices; the limit on the number of options;
`steelseries_cmd_read()`'s unmatched reads; opening and matching of hidraw nodes;
portraits, animations, the custom zones' key matrix (its 512 bytes are one colour), the
tab bar and all other drawing; the unused colour picker; udev rules.  32-bit overflow in
the transform is not modelled: the theorems bound the gain and the carry, and the sums
of a report come from 16-bit motion.

Next, in this order:

1. Menu: `ShownInFull`, with the widths as sums written out pane by pane.
2. Menu with Session's pushes, so that a dialog open over a running device is covered.
