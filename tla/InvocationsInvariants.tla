-------------------------- MODULE InvocationsInvariants --------------------------
(***************************************************************************)
(* The invariants that InvocationsProofs proves of Invocations, and what    *)
(* they are said in: what a configuration of a driver holds, what its file  *)
(* says and how it reads back, what each flag left behind, and what a       *)
(* device holds while the packets of a step arrive.                         *)
(***************************************************************************)
EXTENDS Invocations

\* What a configuration of driver d holds, field by field.
Fields == {"polling", "bright", "color", "fx", "param", "count", "active", "dpi", "reacts", "flash",
    "startup", "smart", "dim", "sleep", "buttons", "acceleration", "deceleration", "snapping", "accel"}
Bytes == 0..255
SignedBytes == -128..127
Words == 0..(Word - 1)
Colours == 0..(Colour - 1)
Seconds == 0..1200
Pair == Words \X Words
Action == ActionType \X Words

DevOK(d, c) ==
    /\ c.polling \in Words /\ c.bright \in 0..100
    /\ c.color \in [Zones(d) -> Colours]
    /\ c.fx \in [Zones(d) -> Bytes] /\ c.param \in [Zones(d) -> Bytes]
LevelsOK(c) ==
    /\ c.count \in 0..MaxLevels /\ c.active \in 0..(MaxLevels - 1)
    /\ c.dpi \in [1..MaxLevels -> Pair]
MouseOK(d, c) ==
    /\ c.reacts \in BOOLEAN /\ c.flash \in Colours /\ c.startup \in 0..3
    /\ c.smart \in BOOLEAN /\ c.dim \in Seconds /\ c.sleep \in 0..20
    /\ c.buttons \in [DOMAIN d.buttons -> Action]
    /\ c.acceleration \in SignedBytes /\ c.deceleration \in SignedBytes /\ c.snapping \in Bytes
    /\ c.accel \in BOOLEAN
Config(d, c) == DOMAIN c = Fields /\ DevOK(d, c) /\ LevelsOK(c) /\ MouseOK(d, c)

\* the fields that devcfg.c keeps, and those of mouse.c
SameDev(c, r) ==
    /\ r.polling = c.polling /\ r.bright = c.bright /\ r.color = c.color
    /\ r.fx = c.fx /\ r.param = c.param
SameMouse(c, r) ==
    /\ r.count = c.count /\ r.active = c.active /\ r.dpi = c.dpi
    /\ r.reacts = c.reacts /\ r.flash = c.flash /\ r.startup = c.startup
    /\ r.smart = c.smart /\ r.dim = c.dim /\ r.sleep = c.sleep /\ r.buttons = c.buttons
    /\ r.acceleration = c.acceleration /\ r.deceleration = c.deceleration
    /\ r.snapping = c.snapping /\ r.accel = c.accel

\* Settings that have no line in the file of driver d keep their default.
Unprinted(d, c) ==
    /\ d.rates = <<>> => c.polling = 0
    /\ "brightness" \notin d.caps => c.bright = 100
    /\ ~(d.fx > 1) => c.fx = Same(d, 0) /\ c.param = Same(d, 5)
    /\ "reactive" \notin d.caps => c.reacts = FALSE
    /\ "startup" \notin d.caps => c.startup = config_defaults(d).startup
    /\ "battery" \notin d.caps => c.smart = FALSE /\ c.dim = 0 /\ c.sleep = 0
    /\ d.kind # "mouse" => SameMouse(config_defaults(d), c)

\* a configuration a run may work with
Own(d, c) == Config(d, c) /\ Legal(d, c) /\ Unprinted(d, c)

\* a file that was stored for d and edited since
Lines(d) == IF d.kind = "mouse" THEN mouse_state_lines(d, [count |-> MaxLevels])
                                ELSE devcfg_state_lines(d)
FileOK(d, f) == DOMAIN f \subseteq Lines(d) /\ \A k \in DOMAIN f : Legible(k, f[k])

-----------------------------------------------------------------------------
(* Loading, field by field.                                                    *)

\* what devcfg_state_load() makes of configuration c with file f
LoadsDev(d, c, f, r) ==
    /\ r.polling = IF <<"polling_hz", 0>> \in DOMAIN f THEN Atoi(f[<<"polling_hz", 0>>]) % Word ELSE c.polling
    /\ r.bright = IF <<"brightness", 0>> \in DOMAIN f THEN Clamp(Atoi(f[<<"brightness", 0>>]), 0, 100)
                  ELSE c.bright
    /\ r.color = [z \in Zones(d) |-> IF <<"zone", z>> \in DOMAIN f /\ f[<<"zone", z>>] # Junk
                                     THEN f[<<"zone", z>>] % Colour ELSE c.color[z]]
    /\ r.fx = [z \in Zones(d) |-> IF <<"zone_fx", z>> \in DOMAIN f THEN Byte(Atoi(f[<<"zone_fx", z>>]))
                                  ELSE c.fx[z]]
    /\ r.param = [z \in Zones(d) |-> IF <<"zone_param", z>> \in DOMAIN f THEN Byte(Atoi(f[<<"zone_param", z>>]))
                                     ELSE c.param[z]]
    /\ r = [c EXCEPT !.polling = r.polling, !.bright = r.bright, !.color = r.color, !.fx = r.fx,
                     !.param = r.param]

\* what own_state_load() makes of it
LoadsMouse(d, c, f, r) ==
    /\ DOMAIN r = Fields /\ SameDev(c, r)
    /\ r.count = IF <<"dpi_count", 0>> \in DOMAIN f THEN Clamp(Atoi(f[<<"dpi_count", 0>>]), 1, MaxLevels)
                 ELSE c.count
    /\ r.active = IF <<"dpi_active", 0>> \in DOMAIN f
                  THEN Clamp(Atoi(f[<<"dpi_active", 0>>]), 0, MaxLevels - 1) ELSE c.active
    /\ r.dpi = [i \in 1..MaxLevels |->
          IF <<"dpi", i>> \in DOMAIN f /\ f[<<"dpi", i>>] # Junk
          THEN <<f[<<"dpi", i>>][1] % Word, f[<<"dpi", i>>][2] % Word>> ELSE c.dpi[i]]
    /\ r.reacts = IF <<"reactive", 0>> \in DOMAIN f THEN f[<<"reactive", 0>>] # Junk ELSE c.reacts
    /\ r.flash = IF <<"reactive", 0>> \in DOMAIN f /\ f[<<"reactive", 0>>] # Junk
                 THEN f[<<"reactive", 0>>] % Colour ELSE c.flash
    /\ r.startup = IF <<"startup_fx", 0>> \in DOMAIN f THEN Clamp(Atoi(f[<<"startup_fx", 0>>]), 0, 3)
                   ELSE c.startup
    /\ r.smart = IF <<"illum_smart", 0>> \in DOMAIN f THEN Atoi(f[<<"illum_smart", 0>>]) # 0 ELSE c.smart
    /\ r.dim = IF <<"illum_dim_s", 0>> \in DOMAIN f THEN Clamp(Atoi(f[<<"illum_dim_s", 0>>]), 0, 1200)
               ELSE c.dim
    /\ r.sleep = IF <<"sleep_min", 0>> \in DOMAIN f THEN Clamp(Atoi(f[<<"sleep_min", 0>>]), 0, 20)
                 ELSE c.sleep
    /\ r.buttons = [b \in DOMAIN d.buttons |->
          IF <<"button", b>> \in DOMAIN f /\ f[<<"button", b>>] # Junk
          THEN <<f[<<"button", b>>][1], f[<<"button", b>>][2] % Word>> ELSE c.buttons[b]]
    /\ r.acceleration = IF <<"acceleration", 0>> \in DOMAIN f THEN Signed(Atoi(f[<<"acceleration", 0>>]))
                        ELSE c.acceleration
    /\ r.deceleration = IF <<"deceleration", 0>> \in DOMAIN f THEN Signed(Atoi(f[<<"deceleration", 0>>]))
                        ELSE c.deceleration
    /\ r.snapping = IF <<"angle_snapping", 0>> \in DOMAIN f THEN Atoi(f[<<"angle_snapping", 0>>]) % 256
                    ELSE c.snapping
    /\ r.accel = IF <<"accel_enabled", 0>> \in DOMAIN f THEN Atoi(f[<<"accel_enabled", 0>>]) # 0 ELSE c.accel

-----------------------------------------------------------------------------
(* What is stored is what is loaded.                                           *)

\* every line of a saved file, with what it says
Printed(d, c, f) ==
    /\ DOMAIN f = mouse_state_lines(d, c)
    /\ \A k \in DOMAIN f : f[k] = Text(c, k)
    /\ \A w \in {"dpi_count", "dpi_active", "acceleration", "deceleration", "angle_snapping", "accel_enabled"} :
          <<w, 0>> \in DOMAIN f
    /\ f[<<"dpi_count", 0>>] = c.count /\ f[<<"dpi_active", 0>>] = c.active
    /\ f[<<"acceleration", 0>>] = c.acceleration /\ f[<<"deceleration", 0>>] = c.deceleration
    /\ f[<<"angle_snapping", 0>>] = c.snapping /\ f[<<"accel_enabled", 0>>] = Bit(c.accel)
    /\ \A i \in 1..c.count : <<"dpi", i>> \in DOMAIN f /\ f[<<"dpi", i>>] = c.dpi[i]
    /\ \A b \in DOMAIN d.buttons : <<"button", b>> \in DOMAIN f /\ f[<<"button", b>>] = c.buttons[b]
    /\ IF "reactive" \in d.caps
       THEN <<"reactive", 0>> \in DOMAIN f /\ f[<<"reactive", 0>>] = IF c.reacts THEN c.flash ELSE Junk
       ELSE <<"reactive", 0>> \notin DOMAIN f
    /\ IF "startup" \in d.caps
       THEN <<"startup_fx", 0>> \in DOMAIN f /\ f[<<"startup_fx", 0>>] = c.startup
       ELSE <<"startup_fx", 0>> \notin DOMAIN f
    /\ IF "battery" \in d.caps
       THEN /\ <<"illum_smart", 0>> \in DOMAIN f /\ f[<<"illum_smart", 0>>] = Bit(c.smart)
            /\ <<"illum_dim_s", 0>> \in DOMAIN f /\ f[<<"illum_dim_s", 0>>] = c.dim
            /\ <<"sleep_min", 0>> \in DOMAIN f /\ f[<<"sleep_min", 0>>] = c.sleep
       ELSE \A w \in {"illum_smart", "illum_dim_s", "sleep_min"} : <<w, 0>> \notin DOMAIN f

\* what the mouse library reads back of a saved configuration: all but the levels that
\* are not in use and the colour of a flash that is off
SameSaved(c, r) ==
    /\ SameDev(c, r)
    /\ r.count = c.count /\ r.active = c.active /\ \A i \in 1..c.count : r.dpi[i] = c.dpi[i]
    /\ r.reacts = c.reacts /\ (c.reacts => r.flash = c.flash) /\ r.startup = c.startup
    /\ r.smart = c.smart /\ r.dim = c.dim /\ r.sleep = c.sleep /\ r.buttons = c.buttons
    /\ r.acceleration = c.acceleration /\ r.deceleration = c.deceleration
    /\ r.snapping = c.snapping /\ r.accel = c.accel

-----------------------------------------------------------------------------
(* What a flag or an edit makes of a configuration.                            *)

WordRec == [w : STRING, z : Int, n : Int]
Value == WordRec \cup {NoVal}
Options == {"brightness", "polling", "color", "fx", "dpi", "accel", "decel", "snap", "higheff"}

-----------------------------------------------------------------------------
(* The invariant, in parts.                                                    *)

Steps == Range(drv.steps)
Arg == [opt : Options, val : Value]
Entry == {"step", "left", "nack"}
Queued(q) == \E S : q \in Seq(S) /\ \A e \in S : DOMAIN e = Entry /\ e.step \in Steps

Setting == drv \in Driver /\ Own(drv, cfg) /\ Own(drv, base)
Filed ==
    /\ file = NoFile \/ \E g : file = <<g>> /\ FileOK(drv, g)
    /\ stored = <<>> \/ \E c : stored = <<c>> /\ Own(drv, c) /\ file = <<state_save(drv, c)>>
Command == line \in Seq(WordRec) /\ args \in Seq(Arg) /\ bound \in 0..Len(args)
Queueing ==
    /\ Queued(queue) /\ active \in Seq(Steps) /\ DOMAIN want \subseteq Steps
    /\ queue # <<>> => pc \in {"apply", "session", "saving", "leaving"}
Status ==
    /\ pc \in {"shell", "parse", "bind", "apply", "session", "saving", "storing", "leaving"}
    /\ code \in {0, 1}
    /\ pc = "parse" => ran = "nothing"
    /\ pc \in {"bind", "apply"} => ran = "one-shot"
    /\ pc \in {"session", "saving", "storing", "leaving"} => ran = "session"
Ready == Setting /\ Filed /\ Command /\ Queueing /\ Status

-----------------------------------------------------------------------------
(* Exit status 0: what each flag left in the configuration, and what of it was *)
(* pushed and acknowledged.                                                    *)

\* configuration c says what option opt with value v asks for
Holds(c, opt, v) ==
    /\ opt = "brightness" => c.bright = v.n
    /\ opt = "polling" => c.polling = v.n % Word
    /\ opt = "color" => \A z \in DOMAIN c.color : v.z \in {-1, z - 1} => c.color[z] = Rgb(v.n)
    /\ opt = "fx" => \A z \in DOMAIN c.fx : c.fx[z] = v.n
    /\ opt = "dpi" => \A i \in DOMAIN c.dpi : c.dpi[i] = <<v.n, v.n>>
    /\ opt = "accel" => c.acceleration = v.n
    /\ opt = "decel" => c.deceleration = v.n
    /\ opt = "snap" => c.snapping = v.n
    /\ opt \in {"accel", "decel", "snap"} => c.accel = TRUE
IsRecord(c) == c = [k \in Fields |-> c[k]]
Flags == Options \ {"higheff"}   \* the flags that some driver accepts

\* What With() makes of the fields, option by option.
Changes(c, opt, v, r) ==
    /\ IsRecord(r)
    /\ r.bright = IF opt = "brightness" THEN v.n ELSE c.bright
    /\ r.polling = IF opt = "polling" THEN v.n % Word ELSE c.polling
    /\ r.color = IF opt = "color" THEN [z \in DOMAIN c.color |-> IF v.z \in {-1, z - 1} THEN Rgb(v.n) ELSE c.color[z]]
                                  ELSE c.color
    /\ r.fx = IF opt = "fx" THEN [z \in DOMAIN c.fx |-> v.n] ELSE c.fx
    /\ r.dpi = IF opt = "dpi" THEN [i \in DOMAIN c.dpi |-> <<v.n, v.n>>] ELSE c.dpi
    /\ r.acceleration = IF opt = "accel" THEN v.n ELSE c.acceleration
    /\ r.deceleration = IF opt = "decel" THEN v.n ELSE c.deceleration
    /\ r.snapping = IF opt = "snap" THEN v.n ELSE c.snapping
    /\ r.accel = IF opt \in {"accel", "decel", "snap"} THEN TRUE ELSE c.accel
    /\ \A k \in Fields \ {"bright", "polling", "color", "fx", "dpi", "acceleration", "deceleration", "snapping", "accel"} :
          r[k] = c[k]

\* record r is c with one field set anew
Sets(c, k, x, r) == IsRecord(r) /\ r[k] = x /\ \A y \in Fields \ {k} : r[y] = c[y]

\* The flags that were taken: each is one that some driver accepts, its step is among
\* the steps to push, and what it says stands unless a later flag of its kind says more.
Taken ==
    /\ \A i \in 1..bound : /\ args[i].opt \in Flags
                           /\ Range(apply_step(args[i].opt)) \subseteq Range(active)
    /\ \A i \in 1..bound : (\A j \in (i + 1)..bound : args[j].opt # args[i].opt)
                              => Holds(cfg, args[i].opt, args[i].val)
Acked(s) == s \in DOMAIN want /\ want[s] = cfg

OneShot == pc \in {"bind", "apply"} \/ (pc = "shell" /\ ran = "one-shot" /\ code = 0)
Parsing == pc = "parse" => bound = 0 /\ IsRecord(cfg)
Silent == pc \in {"parse", "bind"} \/ (pc = "shell" /\ ran \in {"rejected", "list", "command"}) => ~touched
Taking == OneShot => Taken /\ IsRecord(cfg)
\* while steps are pushed, each is acknowledged or still to come, unless one failed
Pushing ==
    pc = "apply" => /\ bound = Len(args)
                    /\ ~failed => \A s \in Range(active) : Acked(s) \/ \E i \in DOMAIN queue : queue[i].step = s
Finished ==
    pc = "shell" /\ ran = "one-shot" /\ code = 0 =>
        /\ bound = Len(args) /\ \A s \in Range(active) : Acked(s)
        /\ saves => flash = dev
Honest == Parsing /\ Silent /\ Taking /\ Pushing /\ Finished

-----------------------------------------------------------------------------
(* What a device shows: packets.                                               *)

Mask == <<"mask", 0>>
Engine == <<"engine", 0>>
Lamp(z) == <<"lamp", z>>

\* The registers step s of driver d is read from.
Registers(d, s) ==
    CASE s = "dpi" -> (IF d.name = "rival600" THEN {"preset"} \X {1, 2} ELSE {<<"levels", 0>>})
      [] s = "polling" -> {<<"rate", 0>>}
      [] s = "colors" -> (CASE d.name = "rival3" -> ({"lamp"} \X (1..4)) \cup {<<"mode", 0>>}
                           [] d.name = "apex100" -> {<<"mode", 0>>}
                           [] d.name = "rival600" -> {"lamp"} \X (1..8)
                           [] d.name = "prime" -> {Lamp(1)}
                           [] OTHER -> ({"lamp"} \X (1..3)) \cup {<<"overlay", 0>>, <<"click", 0>>})
      [] s = "brightness" -> (CASE d.name = "rival3" -> {"lamp"} \X (1..4)
                               [] d.name \in {"aerox3", "aerox3_bt"} -> {<<"illum", 0>>}
                               [] OTHER -> {<<"bright", 0>>})
      [] OTHER -> {<<s, 0>>}
Shown(d, s, c, x) == Registers(d, s) \subseteq DOMAIN x /\ Shows(d, s, c, x)

\* The packets of a step: the engine first, then its mask, and no lamp that cycles after it.
Orderly(p) ==
    /\ DOMAIN p = 1..Len(p) /\ Len(p) \in Nat
    /\ \A i \in DOMAIN p : Engine \in DOMAIN p[i] => i = 1 /\ \A r \in DOMAIN p[i] : r[1] \in {"engine", "overlay"}
    /\ \A i \in DOMAIN p : Mask \in DOMAIN p[i] =>
          /\ i = 2 /\ DOMAIN p[2] = {Mask} /\ Engine \in DOMAIN p[1] /\ p[1][Engine] = TRUE
          /\ \A j \in 3..Len(p) : \A z \in p[2][Mask] : Lamp(z) \notin DOMAIN p[j]

\* Of the first k packets of p each register has what it was last written, and what
\* the mask enrolled cycles.
Reached(p, k, x) ==
    /\ \A i \in 1..k : \A r \in DOMAIN p[i] :
          r # Mask /\ (\A j \in (i + 1)..k : r \notin DOMAIN p[j]) => r \in DOMAIN x /\ x[r] = p[i][r]
    /\ \A i \in 1..k : Mask \in DOMAIN p[i] =>
          \A z \in p[i][Mask] : Lamp(z) \in DOMAIN x /\ x[Lamp(z)] = Rainbow

\* What a device makes of a packet, by what the packet says of the engine.
Switched(d, x, p) == Lamps(If(p[Engine] # Running(x), Zones(d)), IF Running(x) THEN Dark ELSE Rainbow)
Enrolled(x, p) == Lamps(If(Running(x), p[Mask]), Rainbow)

-----------------------------------------------------------------------------
(* The drivers, step by step.                                                  *)

MouseStep == {"dpi", "polling", "colors", "brightness", "buttons"}

IsSeq(p) == \E S : p \in Seq(S)

\* All packets of a step, once they have arrived, show it.
Full(d, s, c) ==
    /\ Orderly(Packets(d, s, c))
    /\ \A x : Reached(Packets(d, s, c), Len(Packets(d, s, c)), x) => Shown(d, s, c, x)

\* One packet, of the register the step is read from.
OneShows(d, s, c) == Full(d, s, c) /\ \E v : Packets(d, s, c) = <<Reg(Where(d, s), v)>>

\* a configuration of driver d
Drv(d, c) == d \in Registry /\ Config(d, c) /\ Legal(d, c)

-----------------------------------------------------------------------------
(* Colours, driver by driver.                                                  *)

\* A gradient of the Rival 600 adds up to the positions it was built from.
Adds(s, f) == f = [i \in DOMAIN s |-> IF i = 1 THEN s[1] ELSE f[i - 1] + s[i]]

Ramp(n, stops, p) ==
    /\ n \in 1..7 /\ DOMAIN stops = 1..n
    /\ p \in [1..n -> 0..255] /\ p[1] = 0 /\ \A i \in 1..n : p[i] = (stops[i][1] * 255) \div 100
    /\ \A i \in 2..n : p[i - 1] < p[i]

-----------------------------------------------------------------------------
(* The rainbow engine: startup, mask, static lamps, click colour.              *)

\* The colours step of an engine: what is sent for configuration c, in n packets.
Calm(c) == DOMAIN c.fx \ Cycling(c)
Lead(c) == IF Cycling(c) = {} THEN 1 ELSE 2
Engined(c, p, n) ==
    /\ n \in Nat /\ DOMAIN p = 1..n /\ Len(p) = n /\ n > Lead(c)
    /\ DOMAIN p[1] = {Engine, <<"overlay", 0>>}
    /\ p[1][Engine] = (Cycling(c) # {}) /\ p[1][<<"overlay", 0>>] = c.reacts
    /\ Cycling(c) # {} => DOMAIN p[2] = {Mask} /\ p[2][Mask] = Cycling(c)
    /\ \A k \in (Lead(c) + 1)..(n - 1) : \A r \in DOMAIN p[k] : \E z \in Calm(c) : r = Lamp(z) /\ p[k][r] = c.color[z]
    /\ \A z \in Calm(c) : \E k \in (Lead(c) + 1)..(n - 1) :
          Lamp(z) \in DOMAIN p[k] /\ \A j \in (k + 1)..(n - 1) : Lamp(z) \notin DOMAIN p[j]
    /\ DOMAIN p[n] = {<<"click", 0>>} /\ p[n][<<"click", 0>>] = IF c.reacts THEN c.flash ELSE 0

\* Lit: what the registers then hold.
Lit(c, x) ==
    /\ \A z \in DOMAIN c.fx : Lamp(z) \in DOMAIN x /\ x[Lamp(z)] = IF c.fx[z] # 0 THEN Rainbow ELSE c.color[z]
    /\ <<"overlay", 0>> \in DOMAIN x /\ x[<<"overlay", 0>>] = c.reacts
    /\ <<"click", 0>> \in DOMAIN x /\ x[<<"click", 0>>] = IF c.reacts THEN c.flash ELSE 0

-----------------------------------------------------------------------------
(* What the packets of a step leave alone.                                     *)

\* The kinds of registers step s writes, and those it is read from.
Touches(d, s) ==
    CASE s = "dpi" -> {"levels", "preset"}
      [] s = "colors" -> (CASE d.name = "rival3" -> {"lamp", "mode"}
                           [] d.name = "apex100" -> {"bright", "mode"}
                           [] OTHER -> {"lamp", "engine", "mask", "overlay", "click"})
      [] s = "brightness" -> (CASE d.name = "rival3" -> {"lamp", "mode"}
                               [] d.name \in {"aerox3", "aerox3_bt"} -> {"illum"}
                               [] OTHER -> {"bright"})
      [] s = "polling" -> {"rate"}
      [] OTHER -> {s}
Sixth == {"dpi", "polling", "colors", "brightness", "buttons", "sleep"}
Confined(d, s, p) == \A k \in DOMAIN p : \A r \in DOMAIN p[k] : r[1] \in Touches(d, s)
\* A step's part of what a device shows depends on its registers only.
Agree(d, s, x, y) == \A r \in Registers(d, s) : r \in DOMAIN x /\ r \in DOMAIN y /\ y[r] = x[r]

\* A packet of step s, pushed for c, may undo what was acknowledged of step t for w.
Undone(d, s, t, w, c) ==
    \/ d.name = "rival3" /\ t = "colors" /\ s = "brightness"
    \/ t = "brightness" /\ s = "colors" /\ w.bright # c.bright

-----------------------------------------------------------------------------
(* What is acknowledged is shown.                                              *)

\* What is left of packets p once k of them were sent.
Remains(p, k, l) == (\E S : l \in Seq(S)) /\ Len(l) = Len(p) - k /\ \A i \in 1..Len(l) : l[i] = p[k + i]
\* Queue q of driver d pushes configuration c to a device that is now x: of its first
\* step some packets were sent, and all arrived unless one failed.
Issued(p, e, x) == \E k \in 0..Len(p) : Remains(p, k, e.left) /\ (~e.nack => Reached(p, k, x))
Underway(d, q, c, x) ==
    /\ q # <<>> => Issued(Packets(d, q[1].step, c), q[1], x)
    /\ \A i \in DOMAIN q : i > 1 => q[i].left = Packets(d, q[i].step, c) /\ ~q[i].nack
Pending(q, s) == \E i \in DOMAIN q : q[i].step = s
\* The brightness step of the Rival 3 writes the colours too.
Redone(d, q, s) == Pending(q, s) \/ (d.name = "rival3" /\ s = "colors" /\ Pending(q, "brightness"))
\* Shown is what was acknowledged and will not be pushed again, and its lights are
\* still those of the configuration.
Resting(d, q, w, x) == \A s \in DOMAIN w : ~Redone(d, q, s) => Shown(d, s, w[s], x)
Alike(q, w, c) ==
    /\ "colors" \in DOMAIN w /\ ~Pending(q, "colors") => w["colors"].color = c.color /\ w["colors"].fx = c.fx
    /\ "brightness" \in DOMAIN w /\ ~Pending(q, "brightness") => w["brightness"].bright = c.bright
Showing(d, q, c, w, x) == Underway(d, q, c, x) /\ Resting(d, q, w, x) /\ Alike(q, w, c)
ShownInv == Showing(drv, queue, cfg, want, dev) /\ (pc \in {"parse", "bind"} => want = <<>>)

-----------------------------------------------------------------------------
(* What was saved survives.                                                    *)

\* The configuration r has the levels of c.
SameLevels(c, r) == r.count = c.count /\ r.active = c.active /\ \A i \in 1..c.count : r.dpi[i] = c.dpi[i]
\* Step s of configuration c was acknowledged, or waits in queue q.
Covered(q, w, c, s) == (s \in DOMAIN w /\ w[s] = c) \/ Pending(q, s)
Failing(q) == q # <<>> /\ q[1].nack
Levelled(d, c, x) == "dpi" \in Range(d.steps) => Shown(d, "dpi", c, x)
\* A save pushes everything first,
Saving == pc = "saving" /\ ~failed /\ ~Failing(queue) => \A s \in Steps : Covered(queue, want, cfg, s)
Storing ==
    pc = "storing" => /\ flash = dev /\ base = cfg
                      /\ ~failed => \A s \in Steps : Covered(queue, want, cfg, s)
\* and then the levels stay, on the device and in its flash, as they were stored, and
\* a session pushes the rest again.
Synced ==
    /\ ~Failing(queue) /\ cfg = base /\ SameLevels(stored[1], cfg) /\ ~Pending(queue, "dpi")
    /\ \A s \in Steps \ {"dpi"} : Covered(queue, want, cfg, s)
Lasting == settled =>
    /\ pc \in {"shell", "parse", "bind", "session", "saving"}
    /\ stored # <<>> /\ Levelled(drv, stored[1], flash)
    /\ pc # "saving" => Levelled(drv, stored[1], dev)
    /\ pc = "session" => Synced
Surviving == Saving /\ Storing /\ Lasting

==============================================================================
