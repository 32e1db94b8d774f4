------------------------- MODULE EngineControlProofs -------------------------
(***************************************************************************)
(* The daemons alone, for any number of processes, any retry bound and     *)
(* every environment: typing, who holds the device and why it lets go, no  *)
(* lost reload, and that only a process able to take signals is named.     *)
(* EngineControl implements AccelDaemon, so this holds under the TUI too;  *)
(* and the TUI alone, with the command line's stop, never loses sight of a *)
(* daemon and leaves it with what was stored.                              *)
(***************************************************************************)
EXTENDS EngineControl, TLAPS

\* a reload can only ask for a version that has been stored
AskedWasStored == \A d \in Daemon : asked[d] <= disk

\* Every action of Next, once for all proofs: the case split on a step.
ProcessStep(d) == Launch(d) \/ Crash(d) \/ Terminate(d) \/ Motion(d) \/ Step(d)
SharedStep == Unplug \/ Plug \/ StopNamed \/ ReloadNamed \/ StoreOpen \/ StoreClose

LEMMA NextCases ==
    ASSUME Next
    PROVE  SharedStep \/ \E d \in Daemon : ProcessStep(d)
  BY DEF Next, Device, Clients, SharedStep, ProcessStep

-----------------------------------------------------------------------------

\* Every variable keeps its type.  The range of retries needs the test that
\* precedes each attempt, so the induction carries it along.
AttemptLeft == \A d \in Daemon : pc[d] = "sleep" => retries[d] < MaxRetries
TypeInv == TypeOK /\ AttemptLeft

\* the Boolean part of TypeOK, which leaves of its own deal with
Flags ==
    /\ unread \in [Daemon -> BOOLEAN]
    /\ g_quit \in [Daemon -> BOOLEAN]
    /\ g_reload \in [Daemon -> BOOLEAN]
    /\ plugged \in BOOLEAN
    /\ torn \in BOOLEAN

\* A signal handler, or the default action of a signal, keeps the types.
LEMMA SignalTyping ==
    ASSUME TypeInv, NEW d \in Daemon, Quit(d) \/ Reload(d) \/ Die(d), UNCHANGED fileVars
    PROVE  TypeInv'
<1> USE DEF TypeInv, TypeOK, AttemptLeft, Goto, kernelVars, fileVars, flagVars, configVars,
            Label, Running, Starting, Serving, Waiting, Retrying, Leaving
<1>1. CASE Die(d) \/ pc[d] \in Starting
  <2>1. Flags' BY <1>1 DEF Flags, Quit, Reload, Die, Exit
  <2> QED BY <1>1, <2>1, BoundAssumption DEF Flags, Quit, Reload, Die, Exit
<1>2. CASE Quit(d) /\ pc[d] \notin Starting
  <2>1. Flags' BY <1>2 DEF Flags, Quit, Interrupt
  <2> QED BY <1>2, <2>1 DEF Flags, Quit, Interrupt, PollResult
<1>3. CASE Reload(d) /\ pc[d] \notin Starting
  <2>1. Flags' BY <1>3 DEF Flags, Reload, Interrupt
  <2> QED BY <1>3, <2>1 DEF Flags, Reload, Interrupt, PollResult
<1> QED BY <1>1, <1>2, <1>3

THEOREM Typing == Spec => []TypeOK
<1>1. Init => TypeInv
  <2> SUFFICES ASSUME Init PROVE TypeInv
    OBVIOUS
  <2> USE DEF Init, TypeInv, TypeOK, AttemptLeft
  <2>1. Flags BY DEF Flags
  <2> QED BY <2>1, BoundAssumption DEF Flags, Label
<1>2. TypeInv /\ [Next]_vars => TypeInv'
  <2> SUFFICES ASSUME TypeInv, [Next]_vars PROVE TypeInv'
    OBVIOUS
  <2> USE DEF TypeInv, TypeOK, AttemptLeft, Goto, kernelVars, fileVars, flagVars, configVars,
              Label, Running, Starting, Serving, Waiting, Retrying, Leaving
  <2>1. CASE SharedStep
    <3>1. CASE Unplug BY <3>1 DEF Unplug
    <3>2. CASE Plug BY <3>2 DEF Plug
    <3>3. CASE StopNamed
      BY <3>3, SignalTyping DEF StopNamed, IsRunning, RunningPid
    <3>4. CASE ReloadNamed
      BY <3>4, SignalTyping DEF ReloadNamed, IsRunning, RunningPid
    <3>5. CASE StoreOpen BY <3>5 DEF StoreOpen
    <3>6. CASE StoreClose
      <4>1. Flags' BY <3>6 DEF Flags, StoreClose
      <4> QED BY <3>6, <4>1 DEF Flags, StoreClose
    <3> HIDE DEF TypeInv
    <3> QED BY <2>1, <3>1, <3>2, <3>3, <3>4, <3>5, <3>6 DEF SharedStep
  <2>2. ASSUME NEW d \in Daemon, ProcessStep(d) PROVE TypeInv'
    <3>1. CASE Launch(d) BY <3>1 DEF Launch
    <3>2. CASE Crash(d) BY <3>2, SignalTyping DEF Crash
    <3>3. CASE Terminate(d) BY <3>3, SignalTyping DEF Terminate
    <3>4. CASE Motion(d) BY <3>4 DEF Motion
    <3>5. CASE Setup(d) BY <3>5 DEF Setup, GrabOK, GrabFails
    <3>6. CASE Arm(d) BY <3>6 DEF Arm
    <3>7. CASE FirstLoad(d) BY <3>7 DEF FirstLoad, LoadParams, Contents
    <3>8. CASE WritePidfile(d) BY <3>8 DEF WritePidfile
    <3>9. CASE LoopTest(d) BY <3>9 DEF LoopTest
    <3>10. CASE Block(d) BY <3>10 DEF Block
    <3>11. CASE PollReturn(d) BY <3>11 DEF PollReturn, PollResult
    <3>12. CASE ReloadCheck(d) BY <3>12 DEF ReloadCheck, Dispatch
    <3>13. CASE Reread(d) BY <3>13 DEF Reread, Dispatch, LoadParams, Contents
    <3>14. CASE PumpBatch(d) BY <3>14 DEF PumpBatch
    <3>15. CASE PumpVanished(d) BY <3>15, BoundAssumption DEF PumpVanished
    <3>16. CASE RetryTest(d) BY <3>16 DEF RetryTest
    <3>17. CASE RetrySetup(d)
      <4>1. Flags' BY <3>17 DEF Flags, RetrySetup, GrabOK, GrabFails
      <4>2. retries' \in [Daemon -> 0..MaxRetries]
        BY <3>17, BoundAssumption DEF RetrySetup
      <4> QED BY <3>17, <4>1, <4>2 DEF Flags, RetrySetup, GrabOK, GrabFails
    <3>18. CASE Release(d) BY <3>18 DEF Release
    <3>19. CASE Unlink(d)
      <4>1. Flags' BY <3>19 DEF Flags, Unlink, Exit
      <4> QED BY <3>19, <4>1, BoundAssumption DEF Flags, Unlink, Exit
    <3> HIDE DEF TypeInv
    <3> QED
      BY <2>2, <3>1, <3>2, <3>3, <3>4, <3>5, <3>6, <3>7, <3>8, <3>9, <3>10, <3>11,
         <3>12, <3>13, <3>14, <3>15, <3>16, <3>17, <3>18, <3>19
         DEF ProcessStep, Step
  <2>3. CASE UNCHANGED vars BY <2>3 DEF vars
  <2> HIDE DEF TypeInv
  <2> QED BY <2>1, <2>2, <2>3, NextCases
<1>3. TypeInv => TypeOK
  BY DEF TypeInv
<1> QED BY <1>1, <1>2, <1>3, PTL DEF Spec

-----------------------------------------------------------------------------
(* Who holds the device.                                                   *)

\* A signal moves a process on inside poll(), tells it to quit or ends it.
LEMMA SignalDuty ==
    ASSUME TypeOK, OnDuty, NEW d \in Daemon,
           Quit(d) \/ Reload(d) \/ Die(d), UNCHANGED fileVars
    PROVE  OnDuty'
<1> USE DEF TypeOK, OnDuty, Goto, kernelVars, configVars, Starting, Serving, Waiting, Retrying
<1>1. CASE Die(d) \/ pc[d] \in Starting
  BY <1>1 DEF Quit, Reload, Die, Exit
<1>2. CASE Quit(d) /\ pc[d] \notin Starting
  BY <1>2 DEF Quit, Interrupt
<1>3. CASE Reload(d) /\ pc[d] \notin Starting
  BY <1>3 DEF Reload, Interrupt
<1> QED
  BY <1>1, <1>2, <1>3

\* A daemon on duty holds the device, one that is not does not, and none
\* leaves the main loop for any reason but those of the code: through every
\* order of reloads, interrupted polls, unplugs, attempts and signals.
THEOREM StaysOnDuty == Spec => []OnDuty
<1>1. Init => OnDuty
  BY DEF Init, OnDuty, Serving, Waiting, Retrying
<1>2. TypeOK /\ OnDuty /\ [Next]_vars => OnDuty'
  <2> SUFFICES ASSUME TypeOK, OnDuty, [Next]_vars PROVE OnDuty'
    OBVIOUS
  <2> USE DEF TypeOK, OnDuty, Goto, kernelVars, flagVars, configVars, Serving, Waiting, Retrying
  <2>1. CASE SharedStep
    <3>1. CASE StopNamed \/ ReloadNamed
      BY <3>1, SignalDuty DEF StopNamed, ReloadNamed, IsRunning, RunningPid
    <3>2. CASE Unplug BY <3>2 DEF Unplug
    <3>3. CASE Plug \/ StoreOpen \/ StoreClose
      BY <3>3 DEF Plug, StoreOpen, StoreClose
    <3> HIDE DEF OnDuty
    <3> QED BY <2>1, <3>1, <3>2, <3>3 DEF SharedStep
  <2>2. ASSUME NEW d \in Daemon, ProcessStep(d) PROVE OnDuty'
    <3>1. CASE Crash(d) \/ Terminate(d)
      BY <3>1, SignalDuty DEF Crash, Terminate
    <3>2. CASE Setup(d) BY <3>2 DEF Setup, GrabOK, GrabFails
    <3>3. CASE Launch(d) \/ Motion(d) \/ Arm(d) \/ FirstLoad(d) \/ WritePidfile(d)
      BY <3>3 DEF Launch, Motion, Arm, FirstLoad, LoadParams, WritePidfile
    <3>4. CASE LoopTest(d) \/ Block(d) \/ PollReturn(d) \/ ReloadCheck(d)
      BY <3>4 DEF LoopTest, Block, PollReturn, ReloadCheck, Dispatch
    <3>5. CASE Reread(d)
      BY <3>5 DEF Reread, LoadParams, Missing, Dispatch
    <3>6. CASE PumpBatch(d) \/ PumpVanished(d)
      BY <3>6 DEF PumpBatch, PumpVanished
    <3>7. CASE RetryTest(d)
      BY <3>7, BoundAssumption DEF RetryTest
    <3>8. CASE RetrySetup(d) BY <3>8 DEF RetrySetup, GrabOK, GrabFails
    <3>9. CASE Release(d) \/ Unlink(d)
      BY <3>9 DEF Release, Unlink, Exit
    <3> HIDE DEF OnDuty
    <3> QED
      BY <2>2, <3>1, <3>2, <3>3, <3>4, <3>5, <3>6, <3>7, <3>8, <3>9 DEF ProcessStep, Step
  <2>3. CASE UNCHANGED vars BY <2>3 DEF vars
  <2> HIDE DEF OnDuty
  <2> QED BY <2>1, <2>2, <2>3, NextCases
<1> QED BY <1>1, <1>2, Typing, PTL DEF Spec

-----------------------------------------------------------------------------
(* Reloads.                                                                *)

\* What NoLostReload says, with the bound that makes it inductive: reading
\* the file now answers every request made so far.
ReloadInv == NoLostReload /\ AskedWasStored

\* A signal makes a request or ends the process; it never drops a request.
LEMMA SignalReload ==
    ASSUME TypeOK, ReloadInv, NEW d \in Daemon,
           Quit(d) \/ Reload(d) \/ Die(d), UNCHANGED fileVars
    PROVE  ReloadInv'
<1> USE DEF TypeOK, ReloadInv, NoLostReload, AskedWasStored, Goto, kernelVars, fileVars,
            flagVars, configVars, Starting
<1>1. CASE Die(d) \/ pc[d] \in Starting
  BY <1>1 DEF Quit, Reload, Die, Exit
<1>2. CASE Quit(d) /\ pc[d] \notin Starting
  BY <1>2 DEF Quit, Interrupt
<1>3. CASE Reload(d) /\ pc[d] \notin Starting
  BY <1>3 DEF Reload, Interrupt
<1> QED BY <1>1, <1>2, <1>3

\* After any SIGHUP the configuration stored by then has been read or will
\* be: no interleaving of handler, flag test, file read and rewrite loses it.
THEOREM ReloadsNotLost == Spec => []NoLostReload
<1>1. Init => ReloadInv
  BY DEF Init, ReloadInv, NoLostReload, AskedWasStored
<1>2. TypeOK /\ ReloadInv /\ [Next]_vars => ReloadInv'
  <2> SUFFICES ASSUME TypeOK, ReloadInv, [Next]_vars PROVE ReloadInv'
    OBVIOUS
  <2> USE DEF TypeOK, ReloadInv, NoLostReload, AskedWasStored, Goto, flagVars, configVars,
              fileVars
  <2>1. CASE SharedStep
    <3>1. CASE StopNamed \/ ReloadNamed
      BY <3>1, SignalReload DEF StopNamed, ReloadNamed, IsRunning, RunningPid
    <3>2. CASE Unplug \/ Plug \/ StoreOpen BY <3>2 DEF Unplug, Plug, StoreOpen
    <3>3. CASE StoreClose BY <3>3 DEF StoreClose
    <3> HIDE DEF ReloadInv
    <3> QED BY <2>1, <3>1, <3>2, <3>3 DEF SharedStep
  <2>2. ASSUME NEW d \in Daemon, ProcessStep(d) PROVE ReloadInv'
    <3>1. CASE Crash(d) \/ Terminate(d)
      BY <3>1, SignalReload DEF Crash, Terminate
    <3>2. CASE FirstLoad(d) BY <3>2 DEF FirstLoad, LoadParams
    <3>3. CASE ReloadCheck(d) BY <3>3 DEF ReloadCheck, Dispatch
    <3>4. CASE Reread(d) BY <3>4 DEF Reread, LoadParams, Dispatch
    <3>5. CASE Unlink(d) BY <3>5 DEF Unlink, Exit
    <3>6. CASE Launch(d) \/ Motion(d) \/ Setup(d) \/ Arm(d) \/ WritePidfile(d)
      BY <3>6 DEF Launch, Motion, Setup, Arm, WritePidfile
    <3>7. CASE LoopTest(d) \/ Block(d) \/ PollReturn(d) \/ PumpBatch(d) \/ PumpVanished(d)
      BY <3>7 DEF LoopTest, Block, PollReturn, Waiting, PumpBatch, PumpVanished
    <3>8. CASE RetryTest(d) \/ RetrySetup(d) \/ Release(d)
      BY <3>8 DEF RetryTest, RetrySetup, Release
    <3> HIDE DEF ReloadInv
    <3> QED
      BY <2>2, <3>1, <3>2, <3>3, <3>4, <3>5, <3>6, <3>7, <3>8 DEF ProcessStep, Step
  <2>3. CASE UNCHANGED vars BY <2>3 DEF vars
  <2> HIDE DEF ReloadInv
  <2> QED BY <2>1, <2>2, <2>3, NextCases
<1>3. ReloadInv => NoLostReload
  BY DEF ReloadInv
<1> QED BY <1>1, <1>2, <1>3, Typing, PTL DEF Spec

-----------------------------------------------------------------------------
(* Naming.                                                                 *)

\* A client's SIGHUP or SIGTERM never meets a process whose handlers are not
\* installed or that has no parameters yet: sigaction(), load_params() and
\* the pidfile come in this order.
THEOREM NamedTakesSignals == Spec => []NamedCanBeSignalled
<1> USE NoPidAssumption
<1>1. Init => NamedCanBeSignalled
  BY DEF Init, NamedCanBeSignalled
<1>2. TypeOK /\ NamedCanBeSignalled /\ [Next]_vars => NamedCanBeSignalled'
  <2> SUFFICES ASSUME TypeOK, NamedCanBeSignalled, [Next]_vars
               PROVE  NamedCanBeSignalled'
    OBVIOUS
  <2> USE DEF TypeOK, NamedCanBeSignalled, Goto, Starting, fileVars
  <2>1. CASE SharedStep
    <3>1. CASE StopNamed \/ ReloadNamed
      BY <3>1 DEF StopNamed, ReloadNamed, IsRunning, RunningPid, Quit, Reload, Die, Exit,
                  Interrupt
    <3>2. CASE Unplug \/ Plug \/ StoreOpen \/ StoreClose
      BY <3>2 DEF Unplug, Plug, StoreOpen, StoreClose
    <3> QED BY <2>1, <3>1, <3>2 DEF SharedStep
  <2>2. ASSUME NEW d \in Daemon, ProcessStep(d) PROVE NamedCanBeSignalled'
    <3>1. CASE Crash(d) \/ Terminate(d)
      BY <3>1 DEF Crash, Terminate, Quit, Die, Exit, Interrupt
    <3>2. CASE WritePidfile(d) BY <3>2 DEF WritePidfile
    <3>3. CASE Unlink(d) BY <3>3 DEF Unlink
    <3>4. CASE Launch(d) \/ Motion(d) \/ Setup(d) \/ Arm(d) \/ FirstLoad(d)
      BY <3>4 DEF Launch, Motion, Setup, Arm, FirstLoad
    <3>5. CASE \/ LoopTest(d) \/ Block(d) \/ PollReturn(d) \/ ReloadCheck(d) \/ Reread(d)
               \/ PumpBatch(d) \/ PumpVanished(d) \/ RetryTest(d) \/ RetrySetup(d)
               \/ Release(d)
      BY <3>5 DEF LoopTest, Block, PollReturn, ReloadCheck, Reread, Dispatch, PumpBatch,
                  PumpVanished, RetryTest, RetrySetup, Release, Waiting
    <3> HIDE DEF NamedCanBeSignalled
    <3> QED BY <2>2, <3>1, <3>2, <3>3, <3>4, <3>5 DEF ProcessStep, Step
  <2>3. CASE UNCHANGED vars BY <2>3 DEF vars
  <2> QED BY <2>1, <2>2, <2>3, NextCases
<1> QED BY <1>1, <1>2, Typing, PTL DEF Spec

-----------------------------------------------------------------------------
\* A handler that will store again has its versions reserved.
Reserved ==
    /\ disk \in Nat
    /\ ui = "on_store" => disk + 2 <= MaxVersion
    /\ ui \in {"spawn", "await", "failed", "off_store"} => disk + 1 <= MaxVersion

\* The actions of EngineNext by what they do to the daemons' world.
Opening == TurnOn \/ TakeBack \/ StoreOff \/ Rewrite
Closing == \/ CloseAt("on_store", "spawn") \/ CloseAt("last_close", "idle")
           \/ CloseAt("store", "sighup")
Looking == Enter \/ Leave \/ AlreadyRunning \/ SpawnConfirmed \/ SpawnTimeout
Signalling == TurnOff \/ Sighup \/ CliStop

\* The case split for every proof below.
LEMMA EngineCases ==
    ASSUME EngineNext
    PROVE  Opening \/ Closing \/ Looking \/ Signalling \/ Spawn \/ Surroundings
BY DEF EngineNext, Tui, Opening, Closing, Looking, Signalling

\* Every step of the composition is a step AccelDaemon allows.
LEMMA EngineStep ==
    ASSUME Reserved, [EngineNext]_engineVars
    PROVE  [Next]_vars
<1>1. CASE Opening
  <2>1. StoreOpen
    BY <1>1 DEF Opening, TurnOn, TakeBack, StoreOff, Rewrite, OpenAt
  <2>2. disk < MaxVersion
    BY <1>1, BoundAssumption
       DEF Opening, TurnOn, TakeBack, StoreOff, Rewrite, OpenAt, Room, Reserved
  <2> QED
    BY <2>1, <2>2 DEF Next, Clients
<1>2. CASE Closing
  BY <1>2 DEF Closing, CloseAt, Next, Clients
<1>3. CASE Looking
  BY <1>3 DEF Looking, Enter, Leave, AlreadyRunning, SpawnConfirmed, SpawnTimeout, World
<1>4. CASE Signalling
  BY <1>4 DEF Signalling, TurnOff, Sighup, CliStop, World, Next, Clients
<1>5. CASE Spawn
  BY <1>5 DEF Spawn, Next, Clients
<1>6. CASE Surroundings
  BY <1>6 DEF Surroundings, Next, Clients
<1>7. CASE UNCHANGED engineVars
  BY <1>7 DEF engineVars
<1> QED
  BY <1>1, <1>2, <1>3, <1>4, <1>5, <1>6, <1>7, EngineCases

\* Only stores and launches touch what Reserved speaks of.
LEMMA DiskStands ==
    ASSUME \/ Looking \/ Signalling \/ Spawn \/ Surroundings
           \/ UNCHANGED engineVars
    PROVE  UNCHANGED disk
<1>1. CASE Looking \/ UNCHANGED engineVars
  BY <1>1 DEF Looking, Enter, Leave, AlreadyRunning, SpawnConfirmed, SpawnTimeout, World,
              engineVars, vars, fileVars
<1>2. CASE Signalling
  BY <1>2 DEF Signalling, TurnOff, Sighup, CliStop, World, vars, fileVars, StopNamed,
              ReloadNamed
<1>3. CASE Spawn
  BY <1>3 DEF Spawn, Launch, fileVars
<1>4. CASE Surroundings
  <2>1. CASE Device
    BY <2>1 DEF Device, Unplug, Plug, Motion, fileVars
  <2>2. ASSUME NEW d \in Daemon, Crash(d) \/ Terminate(d) PROVE UNCHANGED disk
    BY <2>2 DEF Crash, Terminate, fileVars
  <2>3. ASSUME NEW d \in Daemon, Step(d) PROVE UNCHANGED disk
    BY <2>3 DEF Step, Setup, Arm, FirstLoad, WritePidfile, LoopTest, Block, PollReturn,
                ReloadCheck, Reread, PumpBatch, PumpVanished, RetryTest, RetrySetup,
                Release, Unlink, fileVars
  <2> QED
    BY <1>4, <2>1, <2>2, <2>3 DEF Surroundings
<1> QED
  BY <1>1, <1>2, <1>3, <1>4

\* The bounds of TurnOn, TurnOff and Rewrite cover their whole handlers.
LEMMA ReservedStep ==
    ASSUME Reserved, [EngineNext]_engineVars
    PROVE  Reserved'
<1>1. CASE Opening
  BY <1>1, BoundAssumption
     DEF Opening, TurnOn, TakeBack, StoreOff, Rewrite, OpenAt, StoreOpen, Room, Reserved
<1>2. CASE Closing
  BY <1>2, BoundAssumption DEF Closing, CloseAt, StoreClose, Reserved
<1>3. CASE Looking \/ UNCHANGED engineVars
  BY <1>3, DiskStands, BoundAssumption
     DEF Looking, Enter, Leave, AlreadyRunning, Up, SpawnConfirmed, SpawnTimeout, Reserved,
         engineVars, uiVars
<1>4. CASE Signalling
  BY <1>4, DiskStands, BoundAssumption
     DEF Signalling, TurnOff, Sighup, CliStop, Room, Reserved, uiVars
<1>5. CASE Spawn
  BY <1>5, DiskStands, BoundAssumption
     DEF Spawn, Reserved, uiVars
<1>6. CASE Surroundings
  BY <1>6, DiskStands, BoundAssumption DEF Surroundings, Reserved, uiVars
<1> QED
  BY <1>1, <1>2, <1>3, <1>4, <1>5, <1>6, EngineCases

\* The TUI and the command line drive the daemons within the environment
\* AccelDaemon assumes.
THEOREM EngineImplementsDaemon == EngineSpec => DaemonSpec
<1>1. EngineInit => Init /\ Reserved
  BY DEF EngineInit, Init, Reserved
<1>2. Reserved /\ [EngineNext]_engineVars => Reserved' /\ [Next]_vars
  BY EngineStep, ReservedStep
<1> QED
  BY <1>1, <1>2, PTL DEF EngineSpec, DaemonSpec, Spec

-----------------------------------------------------------------------------
(* Who is named.                                                           *)

Early == Starting \cup {"load", "publish"}
Late == Serving \cup Retrying \cup Leaving

Lone == \A d, e \in Daemon : Alive(d) /\ Alive(e) => d = e
EarlyIsAwaited == \A d \in Daemon : pc[d] \in Early => ui = "await" /\ child = d
LateIsNamed == \A d \in Daemon : pc[d] \in Late => pidfile = d

NameInv == Lone /\ EarlyIsAwaited /\ LateIsNamed

\* How one process moves: it dies, goes on unpublished, publishes itself, or
\* goes on published.
MovesTo(d, l) ==
    /\ Alive(d) /\ pc' = [pc EXCEPT ![d] = l]
    /\ \/ l = "gone"
       \/ pc[d] \in Early /\ l \in Early /\ pidfile' = pidfile
       \/ pc[d] \in Early /\ l \in Late /\ pidfile' = d
       \/ pc[d] \in Late /\ l \in Late /\ pidfile' = pidfile

\* A signal moves a process in one of these ways, ...
LEMMA SignalMoves ==
    ASSUME TypeOK, NEW d \in Daemon, Alive(d),
           Quit(d) \/ Reload(d) \/ Die(d), UNCHANGED fileVars
    PROVE  \E l \in Label : MovesTo(d, l)
<1> USE DEF TypeOK, MovesTo, Early, Late, Alive, Label, Running, Starting, Serving, Waiting,
            Retrying, Leaving, fileVars, Goto
<1>1. CASE Die(d) \/ pc[d] \in Starting
  <2>1. MovesTo(d, "gone")
    BY <1>1 DEF Die, Exit, Quit, Reload
  <2> QED
    BY <2>1
<1>2. CASE (Quit(d) \/ Reload(d)) /\ pc[d] \notin Starting
  <2>1. CASE pc[d] = "blocked"
    <3>1. MovesTo(d, "woken")
      BY <1>2, <2>1 DEF Quit, Reload, Interrupt
    <3> QED
      BY <3>1
  <2>2. CASE pc[d] # "blocked"
    <3>1. MovesTo(d, pc[d])
      BY <1>2, <2>2 DEF Quit, Reload, Interrupt
    <3> QED
      BY <3>1
  <2> QED
    BY <2>1, <2>2
<1> QED
  BY <1>1, <1>2

\* ... and so does every step of its own.
LEMMA StepMoves ==
    ASSUME TypeOK, NEW d \in Daemon, Step(d)
    PROVE  \E l \in Label : MovesTo(d, l)
<1> USE DEF TypeOK, MovesTo, Early, Late, Alive, Label, Running, Starting, Serving, Waiting,
            Retrying, Leaving, fileVars, Goto
<1>1. CASE Setup(d)
  BY <1>1 DEF Setup
<1>2. CASE Arm(d) \/ FirstLoad(d) \/ WritePidfile(d)
  BY <1>2 DEF Arm, FirstLoad, WritePidfile
<1>3. CASE LoopTest(d) \/ Block(d) \/ PollReturn(d)
  BY <1>3 DEF LoopTest, Block, PollReturn
<1>4. CASE ReloadCheck(d) \/ Reread(d)
  BY <1>4 DEF ReloadCheck, Reread, Dispatch
<1>5. CASE PumpBatch(d) \/ PumpVanished(d)
  BY <1>5 DEF PumpBatch, PumpVanished
<1>6. CASE RetryTest(d) \/ RetrySetup(d)
  BY <1>6 DEF RetryTest, RetrySetup
<1>7. CASE Release(d) \/ Unlink(d)
  BY <1>7 DEF Release, Unlink, Exit
<1> QED
  BY <1>1, <1>2, <1>3, <1>4, <1>5, <1>6, <1>7 DEF Step

\* A process that moves keeps the invariant, because it is alone.
LEMMA MoveNames ==
    ASSUME TypeOK, NameInv, NEW d \in Daemon, NEW l \in Label, MovesTo(d, l),
           UNCHANGED uiVars
    PROVE  NameInv'
BY DEF TypeOK, NameInv, Lone, EarlyIsAwaited, LateIsNamed, MovesTo, Early, Late, Alive,
       Running, Starting, Serving, Waiting, Retrying, Leaving, uiVars

\* No daemon takes longer to come up than alloy_accel_spawn() waits.
Punctual == "slow" \notin Outside

\* The TUI starts a daemon only when none is alive, and stops waiting only
\* when its daemon is published or dead.
LEMMA NameStep ==
    ASSUME Punctual, TypeOK, NamedCanBeSignalled, NameInv,
           [EngineNext]_engineVars
    PROVE  NameInv'
<1> USE DEF TypeOK, Early, Late, Alive, Label, Running, Starting, Serving, Waiting,
            Retrying, Leaving
<1>1. CASE Opening
  <2>1. UNCHANGED <<pc, pidfile, child>>
    BY <1>1 DEF Opening, TurnOn, TakeBack, StoreOff, Rewrite, OpenAt, StoreOpen
  <2>2. ui # "await"
    BY <1>1 DEF Opening, TurnOn, TakeBack, StoreOff, Rewrite, OpenAt
  <2> QED
    BY <2>1, <2>2 DEF NameInv, Lone, EarlyIsAwaited, LateIsNamed
<1>2. CASE Closing
  <2>1. UNCHANGED <<pc, pidfile, child>>
    BY <1>2 DEF Closing, CloseAt, StoreClose
  <2>2. ui # "await"
    BY <1>2 DEF Closing, CloseAt
  <2> QED
    BY <2>1, <2>2 DEF NameInv, Lone, EarlyIsAwaited, LateIsNamed
<1>3. CASE Enter \/ Leave \/ AlreadyRunning \/ UNCHANGED engineVars
  <2>1. UNCHANGED <<pc, pidfile, child>>
    BY <1>3 DEF Enter, Leave, AlreadyRunning, World, engineVars, uiVars, vars, fileVars
  <2>2. ui # "await" \/ ui' = ui
    BY <1>3 DEF Enter, Leave, AlreadyRunning, engineVars, uiVars
  <2> QED
    BY <2>1, <2>2 DEF NameInv, Lone, EarlyIsAwaited, LateIsNamed
<1>4. CASE SpawnConfirmed
  <2>1. UNCHANGED <<pc, pidfile>>
    BY <1>4 DEF SpawnConfirmed, World, vars, fileVars
  <2>2. pidfile \in Daemon /\ Alive(pidfile) /\ pc[pidfile] \notin Early
    BY <1>4, NoPidAssumption
       DEF SpawnConfirmed, IsRunning, RunningPid, NamedCanBeSignalled
  <2>3. \A d \in Daemon : pc[d] \notin Early
    BY <2>2 DEF NameInv, Lone
  <2> QED
    BY <2>1, <2>3 DEF NameInv, Lone, EarlyIsAwaited, LateIsNamed
<1>5. CASE SpawnTimeout
  <2>1. UNCHANGED <<pc, pidfile>>
    BY <1>5 DEF SpawnTimeout, World, vars, fileVars
  <2>2. ~Alive(child)
    BY <1>5 DEF SpawnTimeout, Punctual
  <2>3. \A d \in Daemon : pc[d] \notin Early
    BY <2>2 DEF NameInv, EarlyIsAwaited
  <2> QED
    BY <2>1, <2>3 DEF NameInv, Lone, EarlyIsAwaited, LateIsNamed
<1>6. CASE Spawn
  <2>1. ~IsRunning /\ ui = "spawn" /\ ui' = "await"
    BY <1>6 DEF Spawn
  <2>2. \A d \in Daemon : ~Alive(d)
    <3>1. ASSUME NEW d \in Daemon, pc[d] \in Early PROVE FALSE
      BY <2>1, <3>1 DEF NameInv, EarlyIsAwaited
    <3>2. ASSUME NEW d \in Daemon, pc[d] \in Late PROVE FALSE
      BY <2>1, <3>2, NoPidAssumption DEF NameInv, LateIsNamed, IsRunning, RunningPid
    <3> QED
      BY <3>1, <3>2
  <2>3. PICK d \in Daemon : Launch(d) /\ child' = d
    BY <1>6 DEF Spawn
  <2>4. pc' = [pc EXCEPT ![d] = "setup"]
    BY <2>3 DEF Launch, Goto
  <2> QED
    BY <2>1, <2>2, <2>3, <2>4 DEF NameInv, Lone, EarlyIsAwaited, LateIsNamed
<1>7. CASE Signalling
  <2>1. CASE UNCHANGED World
    <3>1. UNCHANGED <<pc, pidfile, child>>
      BY <1>7, <2>1 DEF Signalling, TurnOff, Sighup, CliStop, World, vars, fileVars, uiVars
    <3>2. ui # "await" \/ ui' = ui
      BY <1>7 DEF Signalling, TurnOff, Sighup, CliStop, uiVars
    <3> QED
      BY <3>1, <3>2 DEF NameInv, Lone, EarlyIsAwaited, LateIsNamed
  <2>2. CASE StopNamed \/ ReloadNamed
    <3>1. /\ pidfile \in Daemon /\ Alive(pidfile)
          /\ Quit(pidfile) \/ Reload(pidfile)
          /\ UNCHANGED fileVars
      BY <2>2, NoPidAssumption DEF StopNamed, ReloadNamed, IsRunning, RunningPid
    <3>2. PICK l \in Label : MovesTo(pidfile, l)
      BY <3>1, SignalMoves
    <3>3. \A d \in Daemon : pc[d] \notin Early
      BY <3>1 DEF NameInv, Lone, NamedCanBeSignalled
    <3>4. UNCHANGED pidfile
      BY <3>1 DEF fileVars
    <3> QED
      BY <3>1, <3>2, <3>3, <3>4 DEF NameInv, Lone, EarlyIsAwaited, LateIsNamed, MovesTo
  <2> QED
    BY <1>7, <2>1, <2>2 DEF Signalling, TurnOff, Sighup, CliStop
<1>8. CASE Surroundings
  <2>1. CASE Device
    <3>1. UNCHANGED <<pc, pidfile, uiVars>>
      BY <1>8, <2>1 DEF Surroundings, Device, Unplug, Plug, Motion, fileVars
    <3> QED
      BY <3>1 DEF NameInv, Lone, EarlyIsAwaited, LateIsNamed, uiVars
  <2>2. ASSUME NEW d \in Daemon, Step(d) \/ Crash(d) \/ Terminate(d) PROVE NameInv'
    <3>1. \E l \in Label : MovesTo(d, l)
      BY <2>2, StepMoves, SignalMoves DEF Crash, Terminate
    <3>2. UNCHANGED uiVars
      BY <1>8 DEF Surroundings
    <3> QED
      BY <3>1, <3>2, MoveNames
  <2> QED
    BY <1>8, <2>1, <2>2 DEF Surroundings
<1> QED
  BY <1>1, <1>2, <1>3, <1>4, <1>5, <1>6, <1>7, <1>8, EngineCases DEF Looking

\* Whoever transforms the motion is the one the pidfile names, so that it can
\* be stopped and reloaded, whatever crashes, unplugs or is stopped from a
\* shell, as long as only the TUI launches daemons and they come up in time.
THEOREM ServingNamed ==
    ASSUME Punctual
    PROVE  EngineSpec => []ServingIsNamed
<1>1. EngineInit => NameInv
  BY DEF EngineInit, Init, NameInv, Lone, EarlyIsAwaited, LateIsNamed, Alive, Early, Late,
         Running, Starting, Serving, Waiting, Retrying, Leaving
<1>2. TypeOK /\ NamedCanBeSignalled /\ NameInv /\ [EngineNext]_engineVars => NameInv'
  BY NameStep
<1>3. NameInv => ServingIsNamed
  BY DEF NameInv, LateIsNamed, ServingIsNamed, Late
<1>4. EngineSpec => []TypeOK /\ []NamedCanBeSignalled
  BY EngineImplementsDaemon, Typing, NamedTakesSignals, PTL DEF DaemonSpec
<1> QED
  BY <1>1, <1>2, <1>3, <1>4, PTL DEF EngineSpec

-----------------------------------------------------------------------------
(* What the named daemon works with.                                       *)

Unread == Starting \cup {"load"}                  \* nothing loaded yet
Leading == {"off_store", "last_close", "failed"}  \* on the way to "off"

\* a daemon that has, or is about to read, what was stored when one was told
UpToDate(d) == g_reload[d] \/ pc[d] = "reread" \/ params[d] >= told

ToldIsStored == told \in 0 .. disk

\* the file is truncated only while the TUI is inside a handler
TornIsOurs == torn => ui \in {"on_store", "last_close", "store"}

\* what a new daemon reads is what was stored before it was started
ChildReadsIt ==
    \A d \in Daemon : ui = "await" /\ Alive(d) => pc[d] \in Unread \/ params[d] = disk

\* with the engine off, or on its way there, whoever still lives is leaving
OffIsLeaving ==
    \A d \in Daemon :
        /\ Alive(d)
        /\ ui \in Leading \/ (~engine /\ ui \notin {"closed", "await"})
        => g_quit[d]

RestIsUpToDate ==
    \A d \in Daemon : ui \in {"idle", "closed"} /\ Alive(d) /\ ~g_quit[d] => UpToDate(d)

FreshInv == ToldIsStored /\ TornIsOurs /\ ChildReadsIt /\ OffIsLeaving /\ RestIsUpToDate

\* What no step of a process, and no signal to one, does to a process e that
\* outlives it: revive it, forget that it is to quit, change what it works with
\* other than by reading the file, or drop a request to read it.
Lasts(e) ==
    Alive(e)' =>
        /\ Alive(e)
        /\ g_quit[e] => g_quit'[e]
        /\ \/ params'[e] = Contents
           \/ /\ params'[e] = params[e]
              /\ g_reload[e] \/ pc[e] = "reread" => g_reload'[e] \/ pc'[e] = "reread"
              /\ pc[e] \in Unread => pc'[e] \in Unread

LEMMA SignalLasts ==
    ASSUME TypeOK, NEW d \in Daemon, Alive(d), Quit(d) \/ Reload(d) \/ Die(d),
           NEW e \in Daemon
    PROVE  Lasts(e)
<1> USE DEF TypeOK, Lasts, Alive, Running, Label, Starting, Serving, Waiting, Retrying, Leaving,
            Unread, configVars, Goto
<1>1. CASE Die(d) \/ pc[d] \in Starting
  BY <1>1 DEF Die, Exit, Quit, Reload
<1>2. CASE Quit(d) /\ pc[d] \notin Starting
  BY <1>2 DEF Quit, Interrupt
<1>3. CASE Reload(d) /\ pc[d] \notin Starting
  BY <1>3 DEF Reload, Interrupt
<1> QED
  BY <1>1, <1>2, <1>3

LEMMA StepLasts ==
    ASSUME TypeOK, NEW d \in Daemon, Step(d), NEW e \in Daemon
    PROVE  Lasts(e)
<1> USE DEF TypeOK, Lasts, Alive, Running, Label, Starting, Serving, Waiting, Retrying, Leaving,
            Unread, configVars, flagVars, Goto
<1>1. CASE Setup(d) \/ Arm(d)
  BY <1>1 DEF Setup, Arm
<1>2. CASE FirstLoad(d) \/ Reread(d)
  BY <1>2 DEF FirstLoad, Reread, LoadParams, Dispatch
<1>3. CASE WritePidfile(d) \/ LoopTest(d) \/ Block(d) \/ PollReturn(d)
  BY <1>3 DEF WritePidfile, LoopTest, Block, PollReturn
<1>4. CASE ReloadCheck(d)
  BY <1>4 DEF ReloadCheck, Dispatch
<1>5. CASE PumpBatch(d) \/ PumpVanished(d)
  BY <1>5 DEF PumpBatch, PumpVanished
<1>6. CASE RetryTest(d) \/ RetrySetup(d)
  BY <1>6 DEF RetryTest, RetrySetup
<1>7. CASE Release(d) \/ Unlink(d)
  BY <1>7 DEF Release, Unlink, Exit
<1> QED
  BY <1>1, <1>2, <1>3, <1>4, <1>5, <1>6, <1>7 DEF Step

\* As long as the TUI and the file stand still, such steps keep the invariant:
\* at rest, and while a daemon is awaited, whoever reads the file gets it whole.
LEMMA LastingKeeps ==
    ASSUME TypeOK, FreshInv, \A e \in Daemon : Lasts(e), UNCHANGED <<disk, torn, uiVars>>
    PROVE  FreshInv'
<1> USE DEF FreshInv, uiVars
<1>1. ToldIsStored' /\ TornIsOurs'
  BY DEF ToldIsStored, TornIsOurs
<1>2. ui \in {"await", "idle", "closed"} => Contents = disk
  BY DEF TornIsOurs, Contents
<1>3. ChildReadsIt'
  BY <1>2 DEF ChildReadsIt, Lasts
<1>4. OffIsLeaving'
  BY DEF OffIsLeaving, Lasts
<1>5. RestIsUpToDate'
  BY <1>2 DEF RestIsUpToDate, Lasts, UpToDate, ToldIsStored, TypeOK
<1> QED
  BY <1>1, <1>3, <1>4, <1>5

\* Nobody lives unseen while no daemon is awaited, and a named daemon is the
\* only one.
LEMMA OnlyNamedLives ==
    ASSUME TypeOK, NameInv, ui # "await" \/ ~Alive(child) \/ IsRunning, NamedCanBeSignalled,
           NEW d \in Daemon, Alive(d)
    PROVE  d = pidfile /\ IsRunning
<1> USE DEF TypeOK, Early, Late, Alive, Running, Label, Starting, Serving, Waiting, Retrying, Leaving
<1>1. CASE IsRunning
  BY <1>1, NoPidAssumption DEF NameInv, Lone, IsRunning, RunningPid
<1>2. CASE ~IsRunning
  <2>1. pc[d] \notin Early
    BY <1>2 DEF NameInv, EarlyIsAwaited
  <2>2. pidfile = d
    BY <2>1 DEF NameInv, LateIsNamed
  <2> QED
    BY <2>2, NoPidAssumption DEF IsRunning, RunningPid
<1> QED
  BY <1>1, <1>2

LEMMA FreshStep ==
    ASSUME Punctual, TypeOK, NamedCanBeSignalled, NameInv, Reserved, FreshInv,
           [EngineNext]_engineVars
    PROVE  FreshInv'
<1> USE DEF FreshInv
<1>1. CASE Opening
  <2>1. UNCHANGED <<pc, g_quit, g_reload, params, disk, told>>
    BY <1>1 DEF Opening, TurnOn, TakeBack, StoreOff, Rewrite, OpenAt, StoreOpen, flagVars,
                configVars
  <2>2. ui \in {"idle", "failed", "off_store"} /\ ui' \in {"on_store", "last_close", "store"}
    BY <1>1 DEF Opening, TurnOn, TakeBack, StoreOff, Rewrite, OpenAt
  <2>3. ui \in Leading \/ (ui = "idle" /\ ui' \notin Leading /\ engine' = engine)
    BY <1>1 DEF Opening, TurnOn, TakeBack, StoreOff, Rewrite, OpenAt, Leading
  <2> QED
    BY <2>1, <2>2, <2>3 DEF ToldIsStored, TornIsOurs, ChildReadsIt, OffIsLeaving, RestIsUpToDate,
                            Alive
<1>2. CASE Closing
  <2>1. UNCHANGED <<pc, g_quit, g_reload, params, told, engine>> /\ torn' = FALSE
        /\ disk' = disk + 1
    BY <1>2 DEF Closing, CloseAt, StoreClose, flagVars, configVars
  <2>2. \/ ui \in {"on_store", "store"} /\ ui' \in {"spawn", "sighup"}
        \/ ui = "last_close" /\ ui' = "idle"
    BY <1>2 DEF Closing, CloseAt
  <2>3. ToldIsStored' /\ TornIsOurs'
    BY <2>1 DEF ToldIsStored, TornIsOurs, TypeOK
  <2> QED
    BY <2>1, <2>2, <2>3 DEF ChildReadsIt, OffIsLeaving, RestIsUpToDate, Alive, Leading
<1>3. CASE Looking
  <2>1. UNCHANGED <<pc, g_quit, g_reload, params, disk, torn, pidfile>>
    BY <1>3 DEF Looking, Enter, Leave, AlreadyRunning, SpawnConfirmed, SpawnTimeout, World, vars,
                fileVars, flagVars, configVars
  <2>2. CASE Enter
    <3>1. ~IsRunning => \A d \in Daemon : ~Alive(d)
      BY <2>2, OnlyNamedLives DEF Enter
    <3> QED
      BY <2>1, <2>2, <3>1
         DEF Enter, ToldIsStored, TornIsOurs, ChildReadsIt, OffIsLeaving, RestIsUpToDate, UpToDate,
             Alive, Leading
  <2>3. CASE Leave
    BY <2>1, <2>3
       DEF Leave, ToldIsStored, TornIsOurs, ChildReadsIt, OffIsLeaving, RestIsUpToDate, UpToDate,
           Alive, Leading
  <2>4. CASE AlreadyRunning
    BY <2>1, <2>4
       DEF AlreadyRunning, Up, ToldIsStored, TornIsOurs, ChildReadsIt, OffIsLeaving,
           RestIsUpToDate, UpToDate, Alive, Leading, TypeOK
  <2>5. CASE SpawnConfirmed
    <3>1. ASSUME NEW d \in Daemon, Alive(d) PROVE params[d] = disk
      <4>1. d = pidfile
        BY <2>5, <3>1, OnlyNamedLives DEF SpawnConfirmed
      <4>2. pc[d] \notin Unread
        BY <4>1 DEF NamedCanBeSignalled, Unread
      <4> QED
        BY <2>5, <3>1, <4>2 DEF SpawnConfirmed, ChildReadsIt
    <3> QED
      BY <2>1, <2>5, <3>1
         DEF SpawnConfirmed, Up, ToldIsStored, TornIsOurs, ChildReadsIt, OffIsLeaving,
             RestIsUpToDate, UpToDate, Alive, Leading, TypeOK
  <2>6. CASE SpawnTimeout
    <3>1. \A d \in Daemon : ~Alive(d)
      BY <2>6, OnlyNamedLives DEF SpawnTimeout, Punctual
    <3> QED
      BY <2>1, <2>6, <3>1
         DEF SpawnTimeout, ToldIsStored, TornIsOurs, ChildReadsIt, OffIsLeaving, RestIsUpToDate,
             Alive
  <2> QED
    BY <1>3, <2>2, <2>3, <2>4, <2>5, <2>6 DEF Looking
<1>4. CASE TurnOff
  <2>1. ui = "idle" /\ ui' = "off_store" /\ told' = told /\ disk' = disk /\ torn' = torn
    BY <1>4 DEF TurnOff, StopNamed, World, vars, fileVars
  <2>2. ASSUME NEW d \in Daemon, Alive(d)' PROVE g_quit'[d]
    <3>1. CASE IsRunning
      <4>1. Quit(pidfile) /\ Alive(pidfile) /\ pidfile \in Daemon
        BY <1>4, <3>1, NoPidAssumption DEF TurnOff, StopNamed, IsRunning, RunningPid
      <4>2. Lasts(d)
        BY <4>1, SignalLasts
      <4>3. d = pidfile
        BY <2>1, <2>2, <4>2, OnlyNamedLives DEF Lasts
      <4>4. pc[pidfile] \notin Starting
        BY <4>1 DEF NamedCanBeSignalled
      <4> QED
        BY <4>1, <4>3, <4>4 DEF Quit, TypeOK
    <3>2. CASE ~IsRunning
      BY <1>4, <2>1, <2>2, <3>2, OnlyNamedLives DEF TurnOff, StopNamed, World, vars, Alive
    <3> QED
      BY <3>1, <3>2
  <2> QED
    BY <2>1, <2>2 DEF ToldIsStored, TornIsOurs, ChildReadsIt, OffIsLeaving, RestIsUpToDate
<1>5. CASE Sighup
  <2>1. /\ ui = "sighup" /\ ui' = "idle" /\ told' = disk /\ engine' = engine
        /\ disk' = disk /\ torn' = torn
    BY <1>5 DEF Sighup, ReloadNamed, World, vars, fileVars
  <2>2. CASE engine /\ IsRunning
    <3>1. Reload(pidfile) /\ Alive(pidfile) /\ pidfile \in Daemon
      BY <1>5, <2>2, NoPidAssumption DEF Sighup, ReloadNamed, IsRunning, RunningPid
    <3>2. ASSUME NEW d \in Daemon, Alive(d)' PROVE g_reload'[d]
      <4>1. Lasts(d)
        BY <3>1, SignalLasts
      <4>2. d = pidfile
        BY <2>1, <3>2, <4>1, OnlyNamedLives DEF Lasts
      <4>3. pc[pidfile] \notin Starting
        BY <3>1 DEF NamedCanBeSignalled
      <4> QED
        BY <3>1, <4>2, <4>3 DEF Reload, TypeOK
    <3> QED
      BY <2>1, <2>2, <3>2
         DEF ToldIsStored, TornIsOurs, ChildReadsIt, OffIsLeaving, RestIsUpToDate, UpToDate, TypeOK,
             Leading
  <2>3. CASE ~(engine /\ IsRunning)
    <3>1. UNCHANGED <<pc, g_quit>>
      BY <1>5, <2>3 DEF Sighup, World, vars, flagVars
    <3>2. ASSUME NEW d \in Daemon, Alive(d) PROVE g_quit[d] /\ ~engine
      BY <2>1, <2>3, <3>2, OnlyNamedLives DEF OffIsLeaving
    <3> QED
      BY <2>1, <3>1, <3>2
         DEF ToldIsStored, TornIsOurs, ChildReadsIt, OffIsLeaving, RestIsUpToDate, TypeOK, Alive
  <2> QED
    BY <2>2, <2>3
<1>6. CASE CliStop
  <2>1. Quit(pidfile) /\ Alive(pidfile) /\ pidfile \in Daemon
    BY <1>6, NoPidAssumption DEF CliStop, StopNamed, IsRunning, RunningPid
  <2>2. UNCHANGED <<disk, torn, uiVars>>
    BY <1>6 DEF CliStop, StopNamed, fileVars
  <2> QED
    BY <2>1, <2>2, SignalLasts, LastingKeeps
<1>7. CASE Spawn
  <2>1. ui = "spawn" /\ ui' = "await" /\ ~IsRunning /\ UNCHANGED <<told, disk, torn>>
    BY <1>7 DEF Spawn, Launch, fileVars
  <2>2. PICK d \in Daemon : Launch(d)
    BY <1>7 DEF Spawn
  <2>3. pc' = [pc EXCEPT ![d] = "setup"]
    BY <2>2 DEF Launch, Goto
  <2>4. \A e \in Daemon : ~Alive(e)
    BY <2>1, OnlyNamedLives
  <2>5. \A e \in Daemon : Alive(e)' => pc'[e] \in Unread
    BY <2>3, <2>4 DEF Alive, Unread, Starting, TypeOK
  <2> QED
    BY <2>1, <2>5
       DEF ToldIsStored, TornIsOurs, ChildReadsIt, OffIsLeaving, RestIsUpToDate, Leading
<1>8. CASE Surroundings
  <2>1. CASE Device
    <3>1. UNCHANGED <<pc, g_quit, g_reload, params, disk, torn, uiVars>>
      BY <1>8, <2>1 DEF Surroundings, Device, Unplug, Plug, Motion, fileVars, flagVars, configVars
    <3>2. \A e \in Daemon : Lasts(e)
      BY <3>1 DEF Lasts, Alive
    <3> QED
      BY <3>1, <3>2, LastingKeeps
  <2>2. ASSUME NEW d \in Daemon, Step(d) \/ Crash(d) \/ Terminate(d) PROVE FreshInv'
    <3>1. \A e \in Daemon : Lasts(e)
      BY <2>2, StepLasts, SignalLasts DEF Crash, Terminate
    <3>2. UNCHANGED <<disk, uiVars>>
      BY <1>8, DiskStands DEF Surroundings
    <3>3. UNCHANGED torn
      BY <2>2 DEF Crash, Terminate, fileVars, Step, Setup, Arm, FirstLoad, WritePidfile, LoopTest,
                  Block, PollReturn, ReloadCheck, Reread, PumpBatch, PumpVanished, RetryTest,
                  RetrySetup, Release, Unlink
    <3> QED
      BY <3>1, <3>2, <3>3, LastingKeeps
  <2> QED
    BY <1>8, <2>1, <2>2 DEF Surroundings
<1>9. CASE UNCHANGED engineVars
  <2>1. UNCHANGED <<pc, g_quit, g_reload, params, disk, torn, uiVars>>
    BY <1>9 DEF engineVars, vars, fileVars, flagVars, configVars
  <2>2. \A e \in Daemon : Lasts(e)
    BY <2>1 DEF Lasts, Alive
  <2> QED
    BY <2>1, <2>2, LastingKeeps
<1> QED
  BY <1>1, <1>2, <1>3, <1>4, <1>5, <1>6, <1>7, <1>8, <1>9, EngineCases DEF Signalling

\* Edits, SAVE, REVERT and a fresh start reach the daemon that moves the
\* pointer, whatever crashes, unplugs or is stopped from a shell meanwhile, as
\* long as only the TUI launches daemons and they come up in time.
THEOREM ServesStored ==
    ASSUME Punctual
    PROVE  EngineSpec => []ServesWhatIsStored
<1>1. EngineInit => NameInv /\ Reserved /\ FreshInv
  BY DEF EngineInit, Init, NameInv, Lone, EarlyIsAwaited, LateIsNamed, Alive, Early, Late,
         Running, Starting, Serving, Waiting, Retrying, Leaving, Reserved, FreshInv,
         ToldIsStored, TornIsOurs, ChildReadsIt, OffIsLeaving, RestIsUpToDate
<1>2. /\ TypeOK /\ NamedCanBeSignalled /\ NameInv /\ Reserved /\ FreshInv
      /\ [EngineNext]_engineVars
      => NameInv' /\ Reserved' /\ FreshInv'
  BY NameStep, ReservedStep, FreshStep
<1>3. FreshInv => ServesWhatIsStored
  BY DEF FreshInv, RestIsUpToDate, UpToDate, ServesWhatIsStored, Alive, Running
<1>4. EngineSpec => []TypeOK /\ []NamedCanBeSignalled
  BY EngineImplementsDaemon, Typing, NamedTakesSignals, PTL DEF DaemonSpec
<1> QED
  BY <1>1, <1>2, <1>3, <1>4, PTL DEF EngineSpec
=============================================================================
