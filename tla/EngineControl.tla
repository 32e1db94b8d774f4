---------------------------- MODULE EngineControl ----------------------------
(***************************************************************************)
(* The acceleration engine as its users control it: the TUI's engine       *)
(* switch, its live edits, SAVE and REVERT (drivers/lib/mouse.c), the      *)
(* spawn/stop/reload calls they make (drivers/lib/accel.c) and the command *)
(* line's --accel-stop, composed with the daemons of AccelDaemon.  The TUI *)
(* is one thread; every daemon runs concurrently with it, so each of its   *)
(* handlers is cut where it touches what a daemon also touches.  A daemon  *)
(* launched by anybody else is AccelDaemon's business.                     *)
(***************************************************************************)
EXTENDS AccelDaemon

CONSTANT Outside  \* which of Circumstance may arise

Circumstance == {"cli",   \* `alloyctl --accel-stop` from a shell
                 "slow"}  \* a daemon may need more than the 500 ms spawn waits

ASSUME OutsideAssumption == Outside \subseteq Circumstance

VARIABLES
    ui,         \* where the TUI is: "closed", "idle" or inside a handler
    engine,     \* MOUSE_VAR_ENGINE, what the engine switch shows
    child,      \* the daemon alloy_accel_spawn() waits for, or NoPid
    autostart,  \* is the XDG autostart entry installed?
    told        \* history: version stored when a daemon was last told, or
                \* started, to use it; 0 when a later store told nobody

uiVars == <<ui, engine, child, autostart, told>>
engineVars == <<vars, uiVars>>

UiLabel == {"closed", "idle",
            "on_store", "spawn", "await", "failed",   \* engine_set(1)
            "off_store", "last_close",                \* engine_set(0), or 1 failed
            "store", "sighup"}                        \* edit, SAVE, REVERT

EngineInit ==
    /\ Init
    /\ ui = "closed"
    /\ engine = FALSE
    /\ child = NoPid
    /\ autostart = FALSE
    /\ told = 0

\* bounds: versions left for the stores a handler may do, a pid for its fork
Room(n) == disk + n <= MaxVersion
PidLeft == \E d \in Daemon : pc[d] = "absent"

\* the daemons, the files and the device do not move
World == vars

-----------------------------------------------------------------------------
(* The TUI.                                                                *)

\* mouse_enter(): the switch shows whether a daemon is running
Enter ==
    /\ ui = "closed"
    /\ ui' = "idle"
    /\ engine' = IsRunning
    /\ UNCHANGED <<World, child, autostart, told>>

Leave ==
    /\ ui = "idle"
    /\ ui' = "closed"
    /\ UNCHANGED <<World, engine, child, autostart, told>>

\* fopen() and fclose() of alloy_state_store()
OpenAt(from, to) ==
    /\ ui = from
    /\ StoreOpen
    /\ ui' = to

CloseAt(from, to) ==
    /\ ui = from
    /\ StoreClose
    /\ ui' = to
    /\ UNCHANGED <<engine, child, autostart, told>>

\* engine_set(1), also with the switch on already (an arrow key on the toggle):
\* the intent is stored first ...
TurnOn ==
    /\ Room(2) /\ PidLeft
    /\ OpenAt("idle", "on_store")
    /\ UNCHANGED <<engine, child, autostart, told>>

Up == ui' = "idle" /\ engine' = TRUE /\ autostart' = TRUE

\* ... then alloy_accel_spawn(): nothing to do when a daemon is running, ...
AlreadyRunning ==
    /\ ui = "spawn"
    /\ IsRunning
    /\ Up
    /\ told' = 0
    /\ UNCHANGED <<World, child>>

\* mutant: a daemon is started without a look at the pidfile
Spawn_Unchecked ==
    /\ ui = "spawn"
    /\ \E d \in Daemon : Launch(d) /\ child' = d
    /\ ui' = "await"
    /\ UNCHANGED <<engine, autostart, told>>

\* mutant: the parent writes the pidfile on the child's behalf
Spawn_Publishes ==
    /\ ui = "spawn"
    /\ ~IsRunning
    /\ \E d \in Daemon :
        /\ pc[d] = "absent" /\ Goto(d, "setup")
        /\ pidfile' = d /\ child' = d
    /\ ui' = "await"
    /\ UNCHANGED <<revents, retries, kernelVars, disk, torn, flagVars, configVars,
                   engine, autostart, told>>

\* ... else fork and exec, ...
Spawn ==
    /\ ui = "spawn"
    /\ ~IsRunning
    /\ \E d \in Daemon : Launch(d) /\ child' = d
    /\ ui' = "await"
    /\ UNCHANGED <<engine, autostart, told>>

\* ... and up to 50 looks at the pidfile, 10 ms apart: whose pid it is does
\* not matter
SpawnConfirmed ==
    /\ ui = "await"
    /\ IsRunning
    /\ Up
    /\ child' = NoPid
    /\ told' = disk
    /\ UNCHANGED World

SpawnTimeout ==
    /\ ui = "await"
    /\ ~IsRunning
    /\ "slow" \in Outside \/ ~Alive(child)
    /\ ui' = "failed"
    /\ child' = NoPid
    /\ UNCHANGED <<World, engine, autostart, told>>

\* the failed branch of engine_set(1): the intent is taken back
TakeBack ==
    /\ OpenAt("failed", "last_close")
    /\ engine' = FALSE
    /\ UNCHANGED <<child, autostart, told>>

\* mutant: engine_set(0) forgets to signal the daemon
TurnOff_NoSignal ==
    /\ ui = "idle" /\ Room(1)
    /\ UNCHANGED World
    /\ ui' = "off_store"
    /\ engine' = FALSE
    /\ autostart' = FALSE
    /\ UNCHANGED <<child, told>>

\* engine_set(0), also with the switch off already: SIGTERM, which nothing
\* waits for, then the rest
TurnOff ==
    /\ ui = "idle" /\ Room(1)
    /\ StopNamed \/ (~IsRunning /\ UNCHANGED World)
    /\ ui' = "off_store"
    /\ engine' = FALSE
    /\ autostart' = FALSE
    /\ UNCHANGED <<child, told>>

StoreOff == OpenAt("off_store", "last_close") /\ UNCHANGED <<engine, child, autostart, told>>

\* A live edit (accel_changed) or a REVERT (mouse_reverted) with the engine
\* on; a SAVE, on or off.
Rewrite ==
    /\ Room(1)
    /\ OpenAt("idle", "store")
    /\ UNCHANGED <<engine, child, autostart, told>>

\* mutant: one of the three callers forgets the reload
Sighup_Forgotten ==
    /\ ui = "sighup"
    /\ (engine /\ ReloadNamed) \/ UNCHANGED World
    /\ ui' = "idle"
    /\ told' = disk
    /\ UNCHANGED <<engine, child, autostart>>

\* alloy_accel_reload(), if the switch is on: nobody checks whether it found
\* a daemon
Sighup ==
    /\ ui = "sighup"
    /\ IF engine /\ IsRunning THEN ReloadNamed ELSE UNCHANGED World
    /\ ui' = "idle"
    /\ told' = disk
    /\ UNCHANGED <<engine, child, autostart>>

Tui ==
    \/ Enter \/ Leave
    \/ TurnOn \/ CloseAt("on_store", "spawn")
    \/ AlreadyRunning \/ Spawn \/ SpawnConfirmed \/ SpawnTimeout \/ TakeBack
    \/ TurnOff \/ StoreOff \/ CloseAt("last_close", "idle")
    \/ Rewrite \/ CloseAt("store", "sighup") \/ Sighup

\* a handler that has begun runs to its end
Handler ==
    \/ CloseAt("on_store", "spawn")
    \/ AlreadyRunning \/ Spawn \/ SpawnConfirmed \/ SpawnTimeout \/ TakeBack
    \/ StoreOff \/ CloseAt("last_close", "idle")
    \/ CloseAt("store", "sighup") \/ Sighup

-----------------------------------------------------------------------------
(* Everybody else.                                                         *)

CliStop ==
    /\ "cli" \in Outside
    /\ StopNamed
    /\ UNCHANGED uiVars

Surroundings ==
    /\ \/ Device
       \/ \E d \in Daemon : Step(d) \/ Crash(d) \/ Terminate(d)
    /\ UNCHANGED uiVars

EngineNext == Tui \/ CliStop \/ Surroundings

EngineSpec == EngineInit /\ [][EngineNext]_engineVars

(* The scheduler runs every process; the mouse moves.  The user is not     *)
(* obliged to touch the TUI.                                               *)
EngineFairness ==
    /\ \A d \in Daemon : WF_engineVars(Step(d) /\ UNCHANGED uiVars)
    /\ \A d \in Daemon : WF_engineVars(Motion(d) /\ UNCHANGED uiVars)
    /\ WF_engineVars(Handler)

EngineFairSpec == EngineSpec /\ EngineFairness

-----------------------------------------------------------------------------

\* With the engine shown on and no handler running, the named daemon
\* transforms with what was stored when it was last told (or, still young,
\* started), or is about to read it: edits, SAVE, REVERT and a fresh start all
\* arrive, also when the file was read while it was truncated.  The store of an
\* engine_set(1) that finds a daemon running does not: nobody tells the daemon,
\* and one that is rereading just then is left with the truncated file.
ServesWhatIsStored ==
    \A d \in Daemon :
        /\ ui = "idle" /\ engine
        /\ pidfile = d /\ pc[d] \in Serving
        /\ ~g_quit[d] /\ ~g_reload[d] /\ pc[d] # "reread"
        => params[d] >= told

\* Whatever the TUI and the command line do to the daemons, they do within the
\* environment AccelDaemon was checked and proved for.
DaemonSpec == Spec

\* "disabling it drops the grab so motion returns to raw"
OffReleases == (ui = "idle" /\ ~engine) ~> (Grabbers = {} \/ engine \/ ui = "closed")
=============================================================================
