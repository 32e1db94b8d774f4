------------------------------- MODULE Settings -------------------------------
(* What a configuration is, its defaults, and the file it is kept in between  *)
(* sessions: drivers/lib/devcfg.c, the persistence half of drivers/lib/mouse.c *)
(* and alloy_light_normalize().  A file is a function from keys to texts; a    *)
(* text is the value the program would print, or Junk.                         *)
EXTENDS Integers, Sequences, SequencesExt, FiniteSets, TLC

CONSTANT
    Junk     \* a text that is no number, no colour and no action

\* enum alloy_action_type
ActionType == {"disabled", "mouse", "dpi", "scrollup", "scrolldown", "key", "media"}

ASSUME JunkAssumption == Junk \notin Int /\ Junk \notin Int \X Int /\ Junk \notin ActionType \X Int

\* before anything was stored; a file is <<f>>
NoFile == <<>>

\* A driver d is a record of what struct alloy_devinfo, struct alloy_mouse_info
\* and its table of apply steps declare (see Drivers).

Zones(d) == DOMAIN d.zones
Same(d, v) == [z \in Zones(d) |-> v]
MaxLevels == 5                       \* ALLOY_MAX_DPI_PRESETS
Word == 256 * 256                    \* numbers of 16 bits
Colour == 256 * Word                 \* and of 24, a byte per channel
Clamp(v, lo, hi) == IF v < lo THEN lo ELSE IF v > hi THEN hi ELSE v
If(test, lines) == IF test THEN lines ELSE {}

\* alloy_devcfg_defaults(), alloy_mouse_defaults(), r600_defaults().
config_defaults(d) ==
    [polling |-> IF d.rates = <<>> THEN 0 ELSE d.rates[1],
     bright |-> 100, color |-> d.zones, fx |-> Same(d, 0), param |-> Same(d, 5),
     count |-> Len(d.levels), active |-> 0,
     dpi |-> [i \in 1..MaxLevels |-> IF i <= Len(d.levels) THEN <<d.levels[i], d.levels[i]>>
                                                           ELSE <<0, 0>>],
     reacts |-> FALSE, flash |-> Colour - 1,
     startup |-> IF "rainbow" \in d.caps THEN 2 ELSE 0,
     smart |-> FALSE, dim |-> 0, sleep |-> IF "battery" \in d.caps THEN 5 ELSE 0,
     buttons |-> d.buttons,
     acceleration |-> 0, deceleration |-> 0, snapping |-> 0, accel |-> FALSE]

Bit(b) == IF b THEN 1 ELSE 0

\* alloy_devcfg_state_save(): the lines it writes
devcfg_state_lines(d) ==
    If(d.rates # <<>>, {<<"polling_hz", 0>>}) \cup If("brightness" \in d.caps, {<<"brightness", 0>>})
    \cup ({"zone"} \X Zones(d)) \cup If(d.fx > 1, {"zone_fx", "zone_param"} \X Zones(d))

\* mutant: the last level is not written
mouse_state_lines_OneShort(d, c) == devcfg_state_lines(d) \cup {<<"dpi_count", 0>>} \cup ({"dpi"} \X (1..(c.count - 1)))
\* alloy_mouse_state_save()
mouse_state_lines(d, c) ==
    devcfg_state_lines(d)
    \cup ({"dpi_count", "dpi_active"} \X {0}) \cup ({"dpi"} \X (1..c.count))
    \cup If("reactive" \in d.caps, {<<"reactive", 0>>}) \cup If("startup" \in d.caps, {<<"startup_fx", 0>>})
    \cup If("battery" \in d.caps, {"illum_smart", "illum_dim_s", "sleep_min"} \X {0})
    \cup ({"button"} \X DOMAIN d.buttons)
    \cup ({"acceleration", "deceleration", "angle_snapping", "accel_enabled"} \X {0})

\* what is printed in line k
Text(c, k) ==
    CASE k[1] = "polling_hz" -> c.polling [] k[1] = "brightness" -> c.bright
      [] k[1] = "zone" -> c.color[k[2]] [] k[1] = "zone_fx" -> c.fx[k[2]]
      [] k[1] = "zone_param" -> c.param[k[2]]
      [] k[1] = "dpi_count" -> c.count [] k[1] = "dpi_active" -> c.active [] k[1] = "dpi" -> c.dpi[k[2]]
      [] k[1] = "reactive" -> (IF c.reacts THEN c.flash ELSE Junk)
      [] k[1] = "startup_fx" -> c.startup
      [] k[1] = "illum_smart" -> Bit(c.smart) [] k[1] = "illum_dim_s" -> c.dim
      [] k[1] = "sleep_min" -> c.sleep [] k[1] = "button" -> c.buttons[k[2]]
      [] k[1] = "acceleration" -> c.acceleration [] k[1] = "deceleration" -> c.deceleration
      [] k[1] = "angle_snapping" -> c.snapping [] k[1] = "accel_enabled" -> Bit(c.accel)

state_save(d, c) ==
    [k \in IF d.kind = "mouse" THEN mouse_state_lines(d, c) ELSE devcfg_state_lines(d) |-> Text(c, k)]

\* what may stand in line k: what is printed there with any numbers, or Junk
Legible(k, t) == t = Junk \/ CASE k[1] = "dpi" -> t \in Int \X Int [] k[1] = "button" -> t \in ActionType \X Int
                               [] OTHER -> t \in Int

\* Readers. atoi() makes 0 of a text it cannot read, sscanf() changes nothing.
Atoi(t) == IF t = Junk THEN 0 ELSE t
Line(f, k, old, Read(_)) == IF k \in DOMAIN f THEN Read(f[k]) ELSE old
Number(f, key, old, Of(_)) == Line(f, <<key, 0>>, old, LAMBDA t : Of(Atoi(t)))
PerZone(f, key, old, Of(_)) == [z \in DOMAIN old |-> Line(f, <<key, z>>, old[z], LAMBDA t : Of(Atoi(t)))]
Scan(f, k, old, Of(_)) == Line(f, k, old, LAMBDA t : IF t = Junk THEN old ELSE Of(t))

Byte(v) == Clamp(v, 0, 255)
Signed(v) == ((v + 128) % 256) - 128
Rgb(v) == v % Colour

\* alloy_devcfg_state_load()
devcfg_state_load(c, f) ==
    [c EXCEPT !.polling = Number(f, "polling_hz", @, LAMBDA v : v % Word),
              !.bright = Number(f, "brightness", @, LAMBDA v : Clamp(v, 0, 100)),
              !.color = [z \in DOMAIN @ |-> Scan(f, <<"zone", z>>, @[z], Rgb)],
              !.fx = PerZone(f, "zone_fx", @, Byte),
              !.param = PerZone(f, "zone_param", @, Byte)]

\* alloy_mouse_state_load(), which leaves the lines it does not know to devcfg
own_state_load(c, f) ==
    [c EXCEPT !.count = Number(f, "dpi_count", @, LAMBDA v : Clamp(v, 1, MaxLevels)),
              !.active = Number(f, "dpi_active", @, LAMBDA v : Clamp(v, 0, MaxLevels - 1)),
              !.dpi = [i \in DOMAIN @ |->
                          Scan(f, <<"dpi", i>>, @[i], LAMBDA t : <<t[1] % Word, t[2] % Word>>)],
              !.reacts = Line(f, <<"reactive", 0>>, @, LAMBDA t : t # Junk),
              !.flash = Scan(f, <<"reactive", 0>>, @, Rgb),
              !.startup = Number(f, "startup_fx", @, LAMBDA v : Clamp(v, 0, 3)),
              !.smart = Number(f, "illum_smart", @, LAMBDA v : v # 0),
              !.dim = Number(f, "illum_dim_s", @, LAMBDA v : Clamp(v, 0, 1200)),
              !.sleep = Number(f, "sleep_min", @, LAMBDA v : Clamp(v, 0, 20)),
              !.buttons = [b \in DOMAIN @ |->
                              Scan(f, <<"button", b>>, @[b], LAMBDA t : <<t[1], t[2] % Word>>)],
              !.acceleration = Number(f, "acceleration", @, Signed),
              !.deceleration = Number(f, "deceleration", @, Signed),
              !.snapping = Number(f, "angle_snapping", @, LAMBDA v : v % 256),
              !.accel = Number(f, "accel_enabled", @, LAMBDA v : v # 0)]
mouse_state_load(c, f) == own_state_load(devcfg_state_load(c, f), f)

\* alloy_light_normalize(): where one effect drives the whole device, the first
\* zone that runs one decides for all; colours stay as they are.
alloy_light_normalize(d, c) ==
    IF "global" \notin d.caps THEN c
    ELSE LET running == {z \in Zones(d) : c.fx[z] # 0}
             src == IF running = {} THEN 1 ELSE CHOOSE z \in running : \A y \in running : z <= y
         IN [c EXCEPT !.fx = Same(d, @[src]), !.param = Same(d, @[src])]

\* mutant: the active level is not checked against the table
state_done_AnyLevel(d, c) == alloy_light_normalize(d, c)
\* alloy_mouse_state_done(), alloy_keyboard_state_done()
state_done(d, c) ==
    LET n == alloy_light_normalize(d, c) IN
    IF d.kind = "mouse" /\ n.active >= n.count THEN [n EXCEPT !.active = n.count - 1] ELSE n

\* alloy_state_load(): NoFile leaves the defaults, and is not "done".
alloy_state_load(d, f) ==
    IF f = NoFile THEN config_defaults(d)
    ELSE state_done(d, IF d.kind = "mouse" THEN mouse_state_load(config_defaults(d), f[1])
                                           ELSE devcfg_state_load(config_defaults(d), f[1]))

\* sync_global_fx(): the edited zone decides for all, with its colour
sync_global_fx(d, c, zone) ==
    IF "global" \in d.caps
    THEN [c EXCEPT !.fx = Same(d, @[zone]), !.color = Same(d, @[zone]), !.param = Same(d, @[zone])]
    ELSE c

-----------------------------------------------------------------------------
\* A configuration the screen and the packet builders can work with: every
\* level that may be active exists, nothing is out of its slider's range, and
\* hardware with one effect is told of one.
Legal(d, c) ==
    /\ d.kind = "mouse" => c.count \in 1..MaxLevels /\ c.active \in 0..(c.count - 1)
    /\ c.bright \in 0..100 /\ c.dim \in 0..1200 /\ c.sleep \in 0..20 /\ c.startup \in 0..3
    /\ \A z \in Zones(d) : c.color[z] \in 0..(Colour - 1) /\ c.fx[z] \in 0..255
    /\ "global" \in d.caps => \A y, z \in Zones(d) : c.fx[y] = c.fx[z] /\ c.param[y] = c.param[z]
=============================================================================
