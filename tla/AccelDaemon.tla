----------------------------- MODULE AccelDaemon -----------------------------
(***************************************************************************)
(* The pointer-transform daemon of drivers/lib/accel.c: any number of      *)
(* `alloyctl --accel-daemon` processes for ONE mouse, the pidfile they     *)
(* share, the exclusive evdev grab, the stored configuration they read and *)
(* the signals that steer them.                                            *)
(*                                                                         *)
(* One label of pc per point at which another process, a signal handler or *)
(* the kernel can intervene; one action per stretch of code between two of *)
(* them.  What clients do (the TUI, the command line) is reduced here to   *)
(* what a daemon can notice: signals, rewrites of the configuration, new   *)
(* processes.  EngineControl replaces that environment by the real TUI.    *)
(***************************************************************************)
EXTENDS Naturals, FiniteSets

CONSTANTS
    Daemon,     \* process ids, one per launch; a pid is never reused
    NoPid,      \* no (readable) pidfile
    MaxRetries, \* bound of the retry loop of the code, 30 there
    MaxVersion, \* bound: versions of the stored configuration
    Env         \* which of Hazard the environment may do

Hazard == {"unplug",  \* the device disappears and comes back
           "crash",   \* a daemon is killed with no handler run
           "term",    \* SIGTERM/SIGINT from outside (terminal, session end)
           "deny",    \* no permission on /dev/input or /dev/uinput
           "bare"}    \* nothing has been stored for this mouse yet

ASSUME NoPidAssumption == NoPid \notin Daemon
ASSUME BoundAssumption == MaxRetries \in Nat /\ MaxVersion \in Nat
ASSUME EnvAssumption == Env \subseteq Hazard

VARIABLES
    pc,       \* where each process is in alloy_accel_daemon_run
    src,      \* its evdev descriptor: "none", "live" (grabbed), "stale"
    unread,   \* does the kernel queue of that descriptor hold events?
    revents,  \* what poll() reported in this iteration
    g_quit,   \* the flag on_quit sets
    g_reload, \* the flag on_reload sets
    params,   \* version of the configuration it transforms with, 0 = defaults
    retries,  \* iterations of the retry loop so far
    pidfile,  \* the pid in the pidfile, or NoPid
    plugged,  \* is the mouse connected?
    disk,     \* version of the stored configuration, 0 while there is no file
    torn,     \* is it truncated, its rewrite not yet flushed?
    \* history variables: nothing in the code corresponds to them and no
    \* guard reads them; the reload properties are stated with them
    asked,    \* disk when the last SIGHUP was handled
    seen      \* disk when the configuration was last read

kernelVars == <<src, unread, plugged>>
fileVars == <<pidfile, disk, torn>>
flagVars == <<g_quit, g_reload, asked>>
configVars == <<params, seen>>
vars == <<pc, revents, retries, kernelVars, fileVars, flagVars, configVars>>

Starting == {"setup", "arm"}               \* no handler installed yet
Waiting == {"poll", "blocked"}             \* before or inside poll()
Retrying == {"retry", "sleep"}
Serving == {"loop", "woken", "reread", "pump"} \cup Waiting
Leaving == {"release", "unlink"}
Running == Starting \cup {"load", "publish"} \cup Serving \cup Retrying \cup Leaving
Label == {"absent", "gone"} \cup Running

TypeOK ==
    /\ pc \in [Daemon -> Label]
    /\ src \in [Daemon -> {"none", "live", "stale"}]
    /\ unread \in [Daemon -> BOOLEAN]
    /\ revents \in [Daemon -> {"none", "in", "hup", "eintr"}]
    /\ g_quit \in [Daemon -> BOOLEAN]
    /\ g_reload \in [Daemon -> BOOLEAN]
    /\ params \in [Daemon -> Nat]
    /\ retries \in [Daemon -> 0..MaxRetries]
    /\ pidfile \in Daemon \cup {NoPid}
    /\ plugged \in BOOLEAN
    /\ disk \in Nat
    /\ torn \in BOOLEAN
    /\ asked \in [Daemon -> Nat]
    /\ seen \in [Daemon -> Nat]

(* Version 1 is what is on disk before anything here happens, if anything   *)
(* is.                                                                     *)
Init ==
    /\ pc = [d \in Daemon |-> "absent"]
    /\ src = [d \in Daemon |-> "none"]
    /\ unread = [d \in Daemon |-> FALSE]
    /\ revents = [d \in Daemon |-> "none"]
    /\ g_quit = [d \in Daemon |-> FALSE]
    /\ g_reload = [d \in Daemon |-> FALSE]
    /\ params = [d \in Daemon |-> 0]
    /\ retries = [d \in Daemon |-> 0]
    /\ pidfile = NoPid
    /\ plugged = TRUE
    /\ disk = 1 \/ ("bare" \in Env /\ disk = 0)
    /\ torn = FALSE
    /\ asked = [d \in Daemon |-> 0]
    /\ seen = [d \in Daemon |-> 0]

-----------------------------------------------------------------------------
(* What the code reads of the shared state.                                *)

\* kill(pid, 0) == 0
Alive(d) == pc[d] \in Running

\* alloy_accel_pid(): the pid in the pidfile when that process is alive
RunningPid == IF pidfile \in Daemon /\ Alive(pidfile) THEN pidfile ELSE NoPid

IsRunning == RunningPid # NoPid

\* the daemon whose descriptor holds EVIOCGRAB on the connected device
Grabbers == {d \in Daemon : src[d] = "live"}

\* alloy_state_load(): defaults when the file is truncated
Contents == IF torn THEN 0 ELSE disk

\* alloy_state_load() finds no file: fopen() fails and leaves ENOENT in errno
Missing == disk = 0 /\ ~torn

Goto(d, label) == pc' = [pc EXCEPT ![d] = label]

\* the memory of a process ends with it
Exit(d) ==
    /\ Goto(d, "gone")
    /\ g_quit' = [g_quit EXCEPT ![d] = FALSE]
    /\ g_reload' = [g_reload EXCEPT ![d] = FALSE]
    /\ asked' = [asked EXCEPT ![d] = 0]
    /\ params' = [params EXCEPT ![d] = 0]
    /\ seen' = [seen EXCEPT ![d] = 0]
    /\ revents' = [revents EXCEPT ![d] = "none"]
    /\ retries' = [retries EXCEPT ![d] = 0]

-----------------------------------------------------------------------------
(* The process, statement by statement.                                    *)

\* fork/exec of `alloyctl --accel-daemon`
Launch(d) ==
    /\ pc[d] = "absent"
    /\ Goto(d, "setup")
    /\ UNCHANGED <<revents, retries, kernelVars, fileVars, flagVars, configVars>>

\* accel_setup() succeeds: the node is found and EVIOCGRAB granted
GrabOK(d) ==
    /\ plugged
    /\ Grabbers = {}
    /\ src' = [src EXCEPT ![d] = "live"]
    /\ unread' = [unread EXCEPT ![d] = FALSE]

\* accel_setup() fails: no such node, node busy, or no permission
GrabFails ==
    /\ ~plugged \/ Grabbers # {} \/ "deny" \in Env
    /\ UNCHANGED <<src, unread>>

\* mutant: the pidfile is written as soon as the device is grabbed
Setup_Publishes(d) ==
    /\ pc[d] = "setup"
    /\ \/ GrabOK(d) /\ Goto(d, "arm") /\ pidfile' = d
       \/ GrabFails /\ Goto(d, "gone") /\ UNCHANGED pidfile
    /\ UNCHANGED <<revents, retries, plugged, disk, torn, flagVars, configVars>>

Setup(d) ==
    /\ pc[d] = "setup"
    /\ \/ GrabOK(d) /\ Goto(d, "arm")
       \/ GrabFails /\ Goto(d, "gone")
    /\ UNCHANGED <<revents, retries, plugged, fileVars, flagVars, configVars>>

\* the three sigaction() calls
Arm(d) ==
    /\ pc[d] = "arm"
    /\ Goto(d, "load")
    /\ UNCHANGED <<revents, retries, kernelVars, fileVars, flagVars, configVars>>

LoadParams(d) ==
    /\ params' = [params EXCEPT ![d] = Contents]
    /\ seen' = [seen EXCEPT ![d] = disk]

FirstLoad(d) ==
    /\ pc[d] = "load"
    /\ LoadParams(d)
    /\ Goto(d, "publish")
    /\ UNCHANGED <<revents, retries, kernelVars, fileVars, flagVars>>

WritePidfile(d) ==
    /\ pc[d] = "publish"
    /\ pidfile' = d
    /\ Goto(d, "loop")
    /\ UNCHANGED <<revents, retries, kernelVars, disk, torn, flagVars, configVars>>

\* mutant: the main loop ends only through the retry loop
LoopTest_Forever(d) ==
    /\ pc[d] = "loop"
    /\ Goto(d, "poll")
    /\ UNCHANGED <<revents, retries, kernelVars, fileVars, flagVars, configVars>>

\* while (!g_quit)
LoopTest(d) ==
    /\ pc[d] = "loop"
    /\ Goto(d, IF g_quit[d] THEN "release" ELSE "poll")
    /\ UNCHANGED <<revents, retries, kernelVars, fileVars, flagVars, configVars>>

\* What poll() returns now: POLLIN for queued events, else the unasked
\* POLLHUP|POLLERR of a device that is gone, else only a signal ends it.
PollResult(d) ==
    IF unread[d] THEN "in" ELSE IF src[d] = "stale" THEN "hup" ELSE "eintr"

\* poll(&pfd, 1, -1) has nothing to report yet.  A flag set before this
\* step is not looked at again until something else ends the wait.
Block(d) ==
    /\ pc[d] = "poll"
    /\ PollResult(d) = "eintr"
    /\ Goto(d, "blocked")
    /\ UNCHANGED <<revents, retries, kernelVars, fileVars, flagVars, configVars>>

\* poll() returns 1.
PollReturn(d) ==
    /\ pc[d] \in Waiting
    /\ PollResult(d) # "eintr"
    /\ revents' = [revents EXCEPT ![d] = PollResult(d)]
    /\ Goto(d, "woken")
    /\ UNCHANGED <<retries, kernelVars, fileVars, flagVars, configVars>>

\* EINTR and a report without POLLIN both go back to the loop test; pfd is
\* a fresh local of the next iteration.  A poll() that fails by itself (no
\* memory) is left out.
Dispatch(d) ==
    /\ Goto(d, IF revents[d] = "in" THEN "pump" ELSE "loop")
    /\ revents' = [revents EXCEPT ![d] = "none"]

\* mutant: the flag is always consumed, but the file read only after EINTR
ReloadCheck_OnlyEintr(d) ==
    /\ pc[d] = "woken"
    /\ IF g_reload[d] /\ revents[d] = "eintr"
       THEN Goto(d, "reread") /\ UNCHANGED revents
       ELSE Dispatch(d)
    /\ g_reload' = [g_reload EXCEPT ![d] = FALSE]
    /\ UNCHANGED <<retries, kernelVars, fileVars, g_quit, asked, configVars>>

\* mutant: the flag is looked at only when poll() was interrupted
ReloadCheck_SkipReady(d) ==
    /\ pc[d] = "woken"
    /\ IF g_reload[d] /\ revents[d] = "eintr"
       THEN /\ Goto(d, "reread") /\ UNCHANGED revents
            /\ g_reload' = [g_reload EXCEPT ![d] = FALSE]
       ELSE Dispatch(d) /\ UNCHANGED g_reload
    /\ UNCHANGED <<retries, kernelVars, fileVars, g_quit, asked, configVars>>

\* if (g_reload) { g_reload = 0; ...
ReloadCheck(d) ==
    /\ pc[d] = "woken"
    /\ IF g_reload[d] THEN Goto(d, "reread") /\ UNCHANGED revents ELSE Dispatch(d)
    /\ g_reload' = [g_reload EXCEPT ![d] = FALSE]
    /\ UNCHANGED <<retries, kernelVars, fileVars, g_quit, asked, configVars>>

\* ... load_params(); }.  Only then is errno looked at: after a load that found
\* no file it no longer says EINTR, and the main loop is left.
Reread(d) ==
    /\ pc[d] = "reread"
    /\ LoadParams(d)
    /\ IF revents[d] = "eintr" /\ Missing
       THEN Goto(d, "release") /\ revents' = [revents EXCEPT ![d] = "none"]
       ELSE Dispatch(d)
    /\ UNCHANGED <<retries, kernelVars, fileVars, flagVars>>

\* accel_pump() reads the batch, transforms and emits it
PumpBatch(d) ==
    /\ pc[d] = "pump"
    /\ src[d] = "live"
    /\ unread' = [unread EXCEPT ![d] = FALSE]
    /\ Goto(d, "loop")
    /\ UNCHANGED <<src, plugged, revents, retries, fileVars, flagVars, configVars>>

\* mutant: ENODEV is shrugged off like EAGAIN
PumpVanished_Ignored(d) ==
    /\ pc[d] = "pump"
    /\ src[d] = "stale"
    /\ Goto(d, "loop")
    /\ UNCHANGED <<revents, retries, kernelVars, fileVars, flagVars, configVars>>

\* accel_pump() gets ENODEV: tear down and enter the retry loop
PumpVanished(d) ==
    /\ pc[d] = "pump"
    /\ src[d] = "stale"
    /\ src' = [src EXCEPT ![d] = "none"]
    /\ unread' = [unread EXCEPT ![d] = FALSE]
    /\ retries' = [retries EXCEPT ![d] = 0]
    /\ Goto(d, "retry")
    /\ UNCHANGED <<plugged, revents, fileVars, flagVars, configVars>>

\* mutant: one attempt too many
RetryTest_OffByOne(d) ==
    /\ pc[d] = "retry"
    /\ Goto(d, IF retries[d] <= MaxRetries /\ ~g_quit[d] THEN "sleep" ELSE "release")
    /\ UNCHANGED <<revents, retries, kernelVars, fileVars, flagVars, configVars>>

\* mutant: the test of src after the retry loop is missing
RetryTest_PollsNothing(d) ==
    /\ pc[d] = "retry"
    /\ Goto(d, IF retries[d] < MaxRetries /\ ~g_quit[d] THEN "sleep" ELSE "loop")
    /\ UNCHANGED <<revents, retries, kernelVars, fileVars, flagVars, configVars>>

\* for (...; retries < 30 && !g_quit; ...); with src < 0 the loop is left
RetryTest(d) ==
    /\ pc[d] = "retry"
    /\ Goto(d, IF retries[d] < MaxRetries /\ ~g_quit[d] THEN "sleep" ELSE "release")
    /\ UNCHANGED <<revents, retries, kernelVars, fileVars, flagVars, configVars>>

\* sleep(1), cut short by a signal, and another accel_setup()
RetrySetup(d) ==
    /\ pc[d] = "sleep"
    /\ \/ GrabOK(d) /\ Goto(d, "loop") /\ UNCHANGED retries
       \/ /\ GrabFails
          /\ retries' = [retries EXCEPT ![d] = @ + 1]
          /\ Goto(d, "retry")
    /\ UNCHANGED <<revents, plugged, fileVars, flagVars, configVars>>

\* the final accel_teardown(), which drops the grab
Release(d) ==
    /\ pc[d] = "release"
    /\ src' = [src EXCEPT ![d] = "none"]
    /\ unread' = [unread EXCEPT ![d] = FALSE]
    /\ Goto(d, "unlink")
    /\ UNCHANGED <<plugged, revents, retries, fileVars, flagVars, configVars>>

\* accel_remove_pidfile(): whoever wrote it
Unlink(d) ==
    /\ pc[d] = "unlink"
    /\ pidfile' = NoPid
    /\ Exit(d)
    /\ UNCHANGED <<kernelVars, disk, torn>>

Step(d) ==
    \/ Setup(d) \/ Arm(d) \/ FirstLoad(d) \/ WritePidfile(d)
    \/ LoopTest(d) \/ Block(d) \/ PollReturn(d) \/ ReloadCheck(d) \/ Reread(d)
    \/ PumpBatch(d) \/ PumpVanished(d)
    \/ RetryTest(d) \/ RetrySetup(d) \/ Release(d) \/ Unlink(d)

-----------------------------------------------------------------------------
(* Signals.  They reach a process between any two of its steps.            *)

\* the process ends with no line of its own run: the kernel closes its
\* descriptor, the pidfile stays
Die(d) ==
    /\ Exit(d)
    /\ src' = [src EXCEPT ![d] = "none"]
    /\ unread' = [unread EXCEPT ![d] = FALSE]
    /\ UNCHANGED plugged

\* A handler has run: it ends poll() if, and only if, the process is inside
\* it, with EINTR unless there is something to report.
Interrupt(d) ==
    IF pc[d] = "blocked"
    THEN /\ revents' = [revents EXCEPT ![d] = PollResult(d)]
         /\ Goto(d, "woken")
    ELSE UNCHANGED <<revents, pc>>

\* SIGTERM or SIGINT
Quit(d) ==
    IF pc[d] \in Starting THEN Die(d)
    ELSE /\ g_quit' = [g_quit EXCEPT ![d] = TRUE]
         /\ UNCHANGED <<g_reload, asked>>
         /\ Interrupt(d)
         /\ UNCHANGED <<retries, kernelVars, configVars>>

\* SIGHUP
Reload(d) ==
    IF pc[d] \in Starting THEN Die(d)
    ELSE /\ g_reload' = [g_reload EXCEPT ![d] = TRUE]
         /\ asked' = [asked EXCEPT ![d] = disk]
         /\ UNCHANGED g_quit
         /\ Interrupt(d)
         /\ UNCHANGED <<retries, kernelVars, configVars>>

\* alloy_accel_stop() and alloy_accel_reload() when a daemon is named
StopNamed == IsRunning /\ Quit(RunningPid) /\ UNCHANGED fileVars
ReloadNamed == IsRunning /\ Reload(RunningPid) /\ UNCHANGED fileVars

Crash(d) ==
    /\ "crash" \in Env
    /\ Alive(d)
    /\ Die(d)
    /\ UNCHANGED fileVars

Terminate(d) ==
    /\ "term" \in Env
    /\ Alive(d)
    /\ Quit(d)
    /\ UNCHANGED fileVars

-----------------------------------------------------------------------------
(* The device and the stored configuration.                                *)

Unplug ==
    /\ "unplug" \in Env
    /\ plugged
    /\ plugged' = FALSE
    /\ src' = [d \in Daemon |-> IF src[d] = "live" THEN "stale" ELSE src[d]]
    /\ UNCHANGED <<pc, unread, revents, retries, fileVars, flagVars, configVars>>

Plug ==
    /\ ~plugged
    /\ plugged' = TRUE
    /\ UNCHANGED <<pc, src, unread, revents, retries, fileVars, flagVars, configVars>>

\* the hand moves the mouse: events go to the descriptor that grabbed it
Motion(d) ==
    /\ src[d] = "live"
    /\ unread' = [unread EXCEPT ![d] = TRUE]
    /\ UNCHANGED <<pc, src, plugged, revents, retries, fileVars, flagVars, configVars>>

\* alloy_state_store(): fopen("w") truncates, ...
StoreOpen ==
    /\ torn' = TRUE
    /\ UNCHANGED <<pc, revents, retries, kernelVars, pidfile, disk, flagVars, configVars>>

\* ... fclose() makes the new contents visible
StoreClose ==
    /\ torn
    /\ torn' = FALSE
    /\ disk' = disk + 1
    /\ UNCHANGED <<pc, revents, retries, kernelVars, pidfile, flagVars, configVars>>

Device == Unplug \/ Plug \/ \E d \in Daemon : Motion(d)
Clients ==
    \/ StopNamed \/ ReloadNamed
    \/ disk < MaxVersion /\ StoreOpen
    \/ StoreClose
    \/ \E d \in Daemon : Launch(d) \/ Crash(d) \/ Terminate(d)

Next == Device \/ Clients \/ \E d \in Daemon : Step(d)

Spec == Init /\ [][Next]_vars

(* A process that can run does run, and a connected mouse is moved again   *)
(* some day.  Nothing obliges the environment to plug the mouse back in.   *)
Fairness ==
    /\ \A d \in Daemon : WF_vars(Step(d))
    /\ \A d \in Daemon : WF_vars(Motion(d))

FairSpec == Spec /\ Fairness

-----------------------------------------------------------------------------
(* What the daemon promises.                                               *)

\* A process holds its descriptor from the moment accel_setup() grants it until
\* it lets go, never polls without one, and gives no grab up behind its back
\* or on a whim: it leaves the main loop because it was told to, because its
\* last attempt to find the mouse again failed, or because it was told to read
\* a file that is not there.  One that has failed, waits for the mouse, has
\* left or was killed holds nothing ("so crash never leaves the physical mouse
\* unusable").
OnDuty ==
    \A d \in Daemon :
        /\ pc[d] \in {"absent", "setup", "unlink", "gone"} \cup Retrying => src[d] = "none"
        /\ pc[d] \in {"arm", "load", "publish"} \cup Serving => src[d] # "none"
        /\ pc[d] = "release" =>
              \/ g_quit[d]
              \/ src[d] = "none" /\ retries[d] = MaxRetries
              \/ src[d] # "none" /\ seen[d] = 0

\* A SIGHUP is never lost: after it was handled, the configuration stored at
\* that moment has been read, or the request is still pending.  Holds
\* because g_reload is cleared before the file is read, not after, and
\* because the handlers are there before the first load_params().
NoLostReload ==
    \A d \in Daemon :
        asked[d] <= seen[d] \/ g_reload[d] \/ pc[d] = "reread"

\* A process is named only when it can take signals: alloy_accel_reload() and
\* alloy_accel_stop() never reach one that SIGHUP or SIGTERM would kill with
\* the grab-and-clean-up code not run, or that has loaded no configuration.
NamedCanBeSignalled ==
    pidfile \in Daemon =>
        pc[pidfile] \notin Starting \cup {"absent", "load", "publish"}

\* "One daemon per device, guarded by a pidfile": whoever transforms the
\* mouse's motion can be found, stopped and reloaded through the pidfile.
\* It takes a launcher that waits its turn, as EngineControl's TUI does.
ServingIsNamed == \A d \in Daemon : pc[d] \in Serving => pidfile = d

\* A process asked to stop ends, from wherever it was when the signal came:
\* in the main loop, in the retry loop, before its first poll().
StopCompletes == \A d \in Daemon : g_quit[d] ~> pc[d] = "gone"

\* A pending reload is taken up (or the process ends), also when the signal
\* fell between the check of the flag and poll().
ReloadCompletes == \A d \in Daemon : g_reload[d] ~> ~g_reload[d]

\* A vanished device with unread events is let go of.
VanishedIsReleased ==
    \A d \in Daemon : (src[d] = "stale" /\ unread[d]) ~> src[d] # "stale"

\* What the comment in the main loop says: "source vanished (unplug): retry
\* with backoff, then give up", whether or not events were queued.
UnplugIsNoticed == \A d \in Daemon : src[d] = "stale" ~> src[d] # "stale"
=============================================================================
