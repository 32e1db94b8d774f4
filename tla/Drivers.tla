-------------------------------- MODULE Drivers --------------------------------
(* The packet builders and tables of the SteelSeries drivers.  A packet is a   *)
(* function from registers of the device to wire values; what the device makes *)
(* of it, and what its registers mean, is modelled from the drivers' comments  *)
(* and Documentation/protocol.  An apply step is a sequence of packets.        *)
EXTENDS Settings

At(name, i, v) == [r \in {<<name, i>>} |-> v]
Reg(name, v) == At(name, 0, v)
\* the registers of p, and those of q that p leaves alone
Over(p, q) == [r \in DOMAIN p \cup DOMAIN q |-> IF r \in DOMAIN p THEN p[r] ELSE q[r]]

\* one byte per 100 CPI
r3_dpi_table ==
    <<4, 6, 8, 11, 13, 15, 18, 20, 22, 25, 27, 29, 32, 34, 36, 39, 41, 43, 46, 48, 50, 52,
    55, 57, 59, 62, 64, 66, 69, 71, 73, 76, 78, 80, 83, 85, 87, 90, 92, 94, 97, 99, 101,
    104, 106, 108, 111, 113, 115, 118, 120, 122, 125, 127, 129, 132, 134, 136, 139, 141,
    143, 146, 148, 150, 153, 155, 157, 160, 162, 164, 167, 169, 171, 173, 176, 178, 180,
    183, 185, 188, 190, 192, 195, 197>>

a3wl_dpi_table ==
    <<0, 2, 3, 4, 5, 6, 7, 9, 10, 11, 12, 13, 14, 16, 17, 18, 19, 20, 22, 23, 24, 25, 26,
    27, 29, 30, 31, 32, 33, 35, 37, 38, 39, 40, 41, 42, 44, 45, 46, 47, 48, 50, 51, 52,
    53, 54, 56, 57, 58, 59, 60, 62, 63, 64, 65, 66, 68, 69, 70, 71, 72, 74, 75, 76, 77,
    78, 80, 81, 82, 83, 84, 86, 87, 88, 89, 90, 92, 93, 94, 95, 96, 98, 99, 100, 101,
    102, 104, 105, 106, 107, 108, 110, 111, 112, 113, 114, 116, 117, 118, 119, 120, 122,
    123, 124, 125, 126, 128, 129, 130, 131, 132, 134, 135, 136, 137, 138, 140, 141, 142,
    143, 144, 146, 147, 148, 149, 150, 152, 153, 154, 155, 156, 158, 159, 160, 161, 162,
    164, 165, 166, 167, 168, 170, 171, 172, 173, 174, 176, 177, 178, 179, 180, 181, 182,
    183, 184, 185, 186, 187, 188, 189, 191, 192, 194, 195, 196, 197, 198, 199, 201, 202,
    203, 204, 205, 207, 208, 209, 210, 211, 213, 214>>

Floor(cpi, lo, hi, grid) == (Clamp(cpi, lo, hi) \div grid) * grid
Nearest(cpi, lo, hi, grid) ==
    Clamp(((Clamp(cpi, lo, hi) - lo + grid \div 2) \div grid) * grid + lo, lo, hi)

\* 1000, 500, 250, 125 Hz; an unknown rate counts as 1000
RateStep(hz) == CASE hz = 125 -> 3 [] hz = 250 -> 2 [] hz = 500 -> 1 [] OTHER -> 0

Little3(v) == <<v % 256, (v \div 256) % 256, (v \div 65536) % 256>>

ActionBytes(a, key, media) ==
    <<CASE a[1] = "mouse" -> a[2] % 256 [] a[1] = "dpi" -> 48 [] a[1] = "scrollup" -> 49
        [] a[1] = "scrolldown" -> 50 [] a[1] = "key" -> key [] a[1] = "media" -> media
        [] OTHER -> 0,
      IF a[1] \in {"key", "media"} THEN a[2] % 256 ELSE 0>>

Levels(c, Wire(_)) == <<c.active, [i \in 1..c.count |-> Wire(c.dpi[i])]>>

Rates == <<1000, 500, 250, 125>>
Left == <<"mouse", 1>>
Right == <<"mouse", 2>>
Middle == <<"mouse", 3>>
Back == <<"mouse", 4>>
Forward == <<"mouse", 5>>
Cycle == <<"dpi", 0>>
Five == <<Left, Right, Middle, Back, Forward>>
Eight == Five \o <<Cycle, <<"scrollup", 0>>, <<"scrolldown", 0>>>>
MouseSteps == <<"dpi", "polling", "colors", "brightness", "buttons">>
Transform == {"accel", "decel", "snap"}

-----------------------------------------------------------------------------
(* Rival 3: plain writes. A write to a zone stops the running effect.          *)

Stopped == -1

r3_dpi_to_wire(v) == r3_dpi_table[(Floor(v[1], 200, 8500, 100) - 200) \div 100 + 1]
r3_build_dpi(c) == Reg("levels", Levels(c, r3_dpi_to_wire))
r3_build_polling(c) == Reg("rate", RateStep(c.polling) + 1)
r3_build_zone_color(c, z) == Over(At("lamp", z, <<c.color[z], c.bright>>), Reg("mode", Stopped))

r3_fx_wire == <<4, 3, 2, 1, 0, 5, 6>>
FirstRunning(c) ==
    LET run == {z \in DOMAIN c.fx : c.fx[z] # 0} IN
    IF run = {} THEN 0 ELSE c.fx[CHOOSE z \in run : \A y \in run : z <= y]
r3_build_effect(c) ==
    LET idx == FirstRunning(c) IN Reg("mode", r3_fx_wire[IF idx < 7 THEN idx + 1 ELSE 1])

r3_build_buttons(c) == Reg("buttons", [b \in 1..8 |-> ActionBytes(c.buttons[b], 51, 52)])

\* mutant: the zones stop the effect that was just started
r3_apply_colors_EffectFirst(c) == <<r3_build_effect(c)>> \o [z \in 1..4 |-> r3_build_zone_color(c, z)]
r3_apply_colors(c) == [z \in 1..4 |-> r3_build_zone_color(c, z)] \o <<r3_build_effect(c)>>
r3_apply(step, c) ==
    CASE step = "dpi" -> <<r3_build_dpi(c)>>
      [] step = "polling" -> <<r3_build_polling(c)>>
      [] step \in {"colors", "brightness"} -> r3_apply_colors(c)
      [] step = "buttons" -> <<r3_build_buttons(c)>>

rival3 ==
    [name |-> "rival3", kind |-> "mouse", rates |-> Rates, fx |-> 7,
     caps |-> Transform \cup {"color", "brightness", "global", "dpi", "buttons"},
     zones |-> <<16711680, 65280, 255, 16711935>>, buttons |-> Eight, steps |-> MouseSteps,
     lo |-> 200, hi |-> 8500, grid |-> 100, limit |-> 5, levels |-> <<800>>]

-----------------------------------------------------------------------------
(* Rival 600: two presets, eight zones that each run a gradient of their own.  *)

r600_dpi_to_wire(cpi) == (Nearest(cpi, 100, 12000, 100) - 100) \div 100
r600_build_dpi_preset(i, v) == At("preset", i, r600_dpi_to_wire(v[1]))
r600_build_polling(c) == Reg("rate", RateStep(c.polling) + 1)

\* positions travel as differences of 8-bit positions
r600_pack_gradient(ms, repeat, stops) ==
    LET real == [i \in DOMAIN stops |-> (stops[i][1] * 255) \div 100] IN
    [ms |-> ms, repeat |-> repeat, initial |-> stops[1][2],
     stops |-> [i \in DOMAIN stops |->
         <<stops[i][2], (real[i] - IF i = 1 THEN 0 ELSE real[i - 1]) % 256>>]]

r600_build_zone_color(c, z) ==
    LET k == c.color[z]
        breathe == <<<<0, k>>, <<50, 0>>, <<100, k>>>>
    IN At("lamp", z,
        CASE c.fx[z] = 1 -> r600_pack_gradient(3000, 0, breathe)
          [] c.fx[z] = 2 -> r600_pack_gradient(1200, 0, breathe)
          [] c.fx[z] = 3 -> r600_pack_gradient(5000, 0,
                 <<<<0, 16711680>>, <<33, 65280>>, <<66, 255>>, <<100, 16711680>>>>)
          [] c.fx[z] = 4 -> r600_pack_gradient(3000, 0,
                 <<<<0, 16711680>>, <<16, 16776960>>, <<33, 65280>>, <<50, 65535>>, <<66, 255>>,
                   <<83, 16711935>>, <<100, 16711680>>>>)
          [] OTHER -> r600_pack_gradient(1000, 1, <<<<0, k>>>>))

r600_action_first_byte(a) == ActionBytes(a, 81, 97)
r600_build_buttons(c) == Reg("buttons", [b \in 1..7 |-> r600_action_first_byte(c.buttons[b])])

r600_apply(step, c) ==
    CASE step = "dpi" -> <<r600_build_dpi_preset(1, c.dpi[1]),
                           r600_build_dpi_preset(2, c.dpi[IF c.count > 1 THEN 2 ELSE 1])>>
      [] step = "polling" -> <<r600_build_polling(c)>>
      [] step = "colors" -> [z \in 1..8 |-> r600_build_zone_color(c, z)]
      [] step = "buttons" -> <<r600_build_buttons(c)>>

rival600 ==
    [name |-> "rival600", kind |-> "mouse", rates |-> Rates, fx |-> 5,
     caps |-> Transform \cup {"color", "dpi", "buttons"},
     zones |-> [z \in 1..8 |-> 16717824],
     buttons |-> Five \o <<<<"disabled", 0>>, Cycle>>,
     steps |-> <<"dpi", "polling", "colors", "buttons">>,
     lo |-> 100, hi |-> 12000, grid |-> 100, limit |-> 2, levels |-> <<800, 1600>>]

-----------------------------------------------------------------------------
(* Prime: one zone without effects, CPI and brightness as 16-bit words.        *)

prime_dpi_to_wire(cpi) == Nearest(cpi, 50, 18000, 50) \div 50
prime_build_dpi(c) ==
    LET count == Clamp(c.count, 1, 5) IN
    Reg("levels", <<IF c.active < count THEN c.active ELSE 0,
                    [i \in 1..count |-> LET w == prime_dpi_to_wire(c.dpi[i][1])
                                        IN <<w % 256, w \div 256>>]>>)
prime_build_polling(c) == Reg("rate", RateStep(c.polling) + 1)
prime_build_color(c) == At("lamp", 1, c.color[1])
prime_build_brightness(c) ==
    LET w == (c.bright * 256 + 50) \div 100 IN Reg("bright", <<w % 256, w \div 256>>)
prime_action_first_byte(a) == ActionBytes(a, 81, 97)
prime_build_buttons(c) == Reg("buttons", [b \in 1..6 |-> prime_action_first_byte(c.buttons[b])])

prime_apply(step, c) ==
    <<CASE step = "dpi" -> prime_build_dpi(c)
        [] step = "polling" -> prime_build_polling(c)
        [] step = "colors" -> prime_build_color(c)
        [] step = "brightness" -> prime_build_brightness(c)
        [] step = "buttons" -> prime_build_buttons(c)>>

prime ==
    [name |-> "prime", kind |-> "mouse", rates |-> Rates, fx |-> 0,
     caps |-> Transform \cup {"color", "brightness", "dpi", "buttons"},
     zones |-> <<16732672>>, buttons |-> Five \o <<Cycle>>, steps |-> MouseSteps,
     lo |-> 50, hi |-> 18000, grid |-> 50, limit |-> 5, levels |-> <<800>>]

-----------------------------------------------------------------------------
(* Apex 100: a keyboard of one colour. Its effect step sends brightness first  *)
(* and gives up when that fails.                                               *)

apex100_build_polling(c) == Reg("rate", RateStep(c.polling) + 1)
apex100_build_brightness(c) == Reg("bright", Clamp(c.bright, 0, 100))
apex100_build_effect(c) ==
    Reg("mode", IF c.fx[1] = 1 THEN Clamp(c.param[1], 1, 3) + 1 ELSE 1)

apex100_apply(step, c) ==
    CASE step = "polling" -> <<apex100_build_polling(c)>>
      [] step = "brightness" -> <<apex100_build_brightness(c)>>
      [] step = "colors" -> <<apex100_build_brightness(c), apex100_build_effect(c)>>

apex100 ==
    [name |-> "apex100", kind |-> "keyboard", rates |-> Rates, fx |-> 2,
     caps |-> {"brightness", "global", "speed"},
     zones |-> <<34047>>, buttons |-> <<>>, steps |-> <<"polling", "colors", "brightness">>,
     lo |-> 0, hi |-> 0, grid |-> 1, limit |-> 0, levels |-> <<>>]

-----------------------------------------------------------------------------
(* Aerox 3 Wireless: acknowledged commands (SteelCommand) and the rainbow      *)
(* engine of the Rival 3 Gen 2 (RivalLights); brightness rides with the idle   *)
(* settings.                                                                   *)

a3wl_dpi_to_wire(v) == a3wl_dpi_table[(Floor(v[1], 100, 18000, 100) - 100) \div 100 + 1]
a3wl_brightness_to_wire(pct) == (Clamp(pct, 0, 100) * 15 + 50) \div 100
a3wl_build_dpi(c) == Reg("levels", Levels(c, a3wl_dpi_to_wire))
a3wl_build_polling(c) == Reg("rate", RateStep(c.polling))
a3wl_build_zone_color(c, z) == At("lamp", z, c.color[z])
Cycling(c) == {z \in DOMAIN c.fx : c.fx[z] # 0}
a3wl_build_rainbow(c) == Reg("mask", Cycling(c))
a3wl_build_reactive(c) == Reg("click", IF c.reacts THEN c.flash ELSE 0)
a3wl_build_startup(c) == Over(Reg("engine", Cycling(c) # {}), Reg("overlay", c.reacts))
a3wl_build_brightness(c) ==
    Reg("illum", <<a3wl_brightness_to_wire(c.bright), c.smart, Little3(Clamp(c.dim, 0, 1200) * 1000)>>)
a3wl_build_sleep(c) == Reg("sleep", Little3(Clamp(c.sleep, 0, 20) * 60000))
a3wl_build_buttons(c) == Reg("buttons", [b \in 1..8 |-> ActionBytes(c.buttons[b], 81, 97)])

\* the static zones of c, one write each
Statics(c) == LET s == SetToSeq(DOMAIN c.fx \ Cycling(c))
              IN [i \in DOMAIN s |-> a3wl_build_zone_color(c, s[i])]

a3wl_apply_colors(c) ==
    <<a3wl_build_startup(c)>> \o (IF Cycling(c) = {} THEN <<>> ELSE <<a3wl_build_rainbow(c)>>)
        \o Statics(c) \o <<a3wl_build_reactive(c)>>

a3wl_apply(step, c) ==
    CASE step = "dpi" -> <<a3wl_build_dpi(c)>>
      [] step = "polling" -> <<a3wl_build_polling(c)>>
      [] step = "colors" -> a3wl_apply_colors(c)
      [] step = "brightness" -> <<a3wl_build_brightness(c)>>
      [] step = "buttons" -> <<a3wl_build_buttons(c)>>
      [] step = "sleep" -> <<a3wl_build_sleep(c)>>

aerox3 ==
    [name |-> "aerox3", kind |-> "mouse", rates |-> Rates, fx |-> 2,
     caps |-> Transform \cup {"color", "brightness", "battery", "reactive", "dpi", "buttons"},
     zones |-> <<16711680, 65280, 255>>, buttons |-> Eight,
     steps |-> MouseSteps \o <<"sleep">>,
     lo |-> 100, hi |-> 18000, grid |-> 100, limit |-> 5, levels |-> <<800>>]

\* over Bluetooth: the same packets under wired opcodes, written and not acknowledged
a3wl_bt_apply(step, c) ==
    <<CASE step = "dpi" -> a3wl_build_dpi(c)
        [] step = "sleep" -> a3wl_build_sleep(c)
        [] step = "brightness" -> a3wl_build_brightness(c)>>

aerox3_bt ==
    [name |-> "aerox3_bt", kind |-> "mouse", rates |-> <<>>, fx |-> 0,
     caps |-> {"battery", "dpi"}, zones |-> <<>>, buttons |-> <<>>,
     steps |-> <<"dpi", "sleep", "brightness">>,
     lo |-> 100, hi |-> 18000, grid |-> 100, limit |-> 5, levels |-> <<800>>]

-----------------------------------------------------------------------------
(* Rival 3 Gen 2: both axes of a level, all static zones in one command.       *)

r3g2_dpi_to_wire(v) ==
    [a \in 1..2 |-> r3_dpi_table[(Floor(v[a], 200, 8500, 100) - 200) \div 100 + 1]]
r3g2_build_dpi(c) == Reg("levels", Levels(c, r3g2_dpi_to_wire))
r3g2_build_polling(c) == Reg("rate", RateStep(c.polling) + 1)
r3g2_build_colors(c) == [r \in {"lamp"} \X (DOMAIN c.fx \ Cycling(c)) |-> c.color[r[2]]]
r3g2_build_brightness(c) == Reg("bright", Clamp(c.bright, 0, 100))
r3g2_build_buttons(c) == Reg("buttons", [b \in 1..8 |-> ActionBytes(c.buttons[b], 81, 97)])

r3g2_apply_colors(c) ==
    <<a3wl_build_startup(c)>> \o (IF Cycling(c) = {} THEN <<>> ELSE <<a3wl_build_rainbow(c)>>)
        \o (IF Cycling(c) = DOMAIN c.fx THEN <<>> ELSE <<r3g2_build_colors(c)>>)
        \o <<a3wl_build_reactive(c)>>

r3g2_apply(step, c) ==
    CASE step = "dpi" -> <<r3g2_build_dpi(c)>>
      [] step = "polling" -> <<r3g2_build_polling(c)>>
      [] step = "colors" -> r3g2_apply_colors(c)
      [] step = "brightness" -> <<r3g2_build_brightness(c)>>
      [] step = "buttons" -> <<r3g2_build_buttons(c)>>

rival3_gen2 ==
    [name |-> "rival3_gen2", kind |-> "mouse", rates |-> Rates, fx |-> 2,
     caps |-> Transform \cup {"color", "brightness", "rainbow", "reactive", "startup", "dpi", "buttons"},
     zones |-> <<16711680, 65280, 255>>, buttons |-> Eight, steps |-> MouseSteps,
     lo |-> 200, hi |-> 8500, grid |-> 100, limit |-> 5, levels |-> <<800>>]

-----------------------------------------------------------------------------
\* the drivers here that ALLOY_DRIVER_REGISTER() puts in the registry
Registry == {rival3, rival600, prime, apex100, aerox3, aerox3_bt, rival3_gen2}

\* alloy_driver_apply(): the packets of a step; a step the driver lacks sends none
Packets(d, step, c) ==
    IF step \notin Range(d.steps) THEN <<>>
    ELSE CASE d.name = "rival3" -> r3_apply(step, c)
           [] d.name = "rival600" -> r600_apply(step, c)
           [] d.name = "prime" -> prime_apply(step, c)
           [] d.name = "apex100" -> apex100_apply(step, c)
           [] d.name = "aerox3" -> a3wl_apply(step, c)
           [] d.name = "aerox3_bt" -> a3wl_bt_apply(step, c)
           [] d.name = "rival3_gen2" -> r3g2_apply(step, c)

-----------------------------------------------------------------------------
(* The devices.                                                                *)

Rainbow == -2
Dark == -3
Running(dev) == <<"engine", 0>> \in DOMAIN dev /\ dev[<<"engine", 0>>]
Lamps(zones, v) == [r \in {"lamp"} \X zones |-> v]

\* What device dev is after packet p: switching the rainbow engine on enrolls all
\* zones and off darkens them, and a mask means nothing to an engine that is off.
Take(d, dev, p) ==
    CASE <<"engine", 0>> \in DOMAIN p ->
           Over(p, Over(Lamps(If(p[<<"engine", 0>>] # Running(dev), Zones(d)),
                              IF Running(dev) THEN Dark ELSE Rainbow), dev))
      [] <<"mask", 0>> \in DOMAIN p ->
           Over(Lamps(If(Running(dev), p[<<"mask", 0>>]), Rainbow), dev)
      [] OTHER -> Over(p, dev)

\* What a power cycle leaves: the flash colour and the idle settings are not kept.
Volatile == {<<"click", 0>>, <<"illum", 0>>}
Kept(dev) == [r \in DOMAIN dev \ Volatile |-> dev[r]]

-----------------------------------------------------------------------------
(* What a device shows, read from its registers by the protocol pages and not   *)
(* by the builders.                                                             *)

Abs(x) == IF x < 0 THEN -x ELSE x
Number3(b) == b[1] + 256 * b[2] + 65536 * b[3]
InTable(t, w) == (CHOOSE i \in DOMAIN t : t[i] = w) - 1

Cpi(d, w) ==
    CASE d.name \in {"rival3", "rival3_gen2"} -> 200 + 100 * InTable(r3_dpi_table, w)
      [] d.name \in {"aerox3", "aerox3_bt"} -> 100 + 100 * InTable(a3wl_dpi_table, w)
      [] d.name = "rival600" -> 100 + 100 * w
      [] d.name = "prime" -> 50 * (w[1] + 256 * w[2])

\* a level the sensor can run at, as near as its grid allows
Near(d, w, want) == Cpi(d, w) \in d.lo..d.hi /\ Abs(Cpi(d, w) - Clamp(want, d.lo, d.hi)) < d.grid

ShowsLevels(d, c, dev) ==
    IF d.name = "rival600"
    THEN \A i \in 1..2 : Near(d, dev[<<"preset", i>>], c.dpi[IF i <= c.count THEN i ELSE 1][1])
    ELSE LET l == dev[<<"levels", 0>>] IN
         /\ l[1] = c.active /\ Len(l[2]) = c.count
         /\ \A i \in 1..c.count :
              IF d.name = "rival3_gen2"
              THEN \A a \in 1..2 : Near(d, l[2][i][a], c.dpi[i][a])
              ELSE Near(d, l[2][i], c.dpi[i][1])

ShowsRate(d, c, dev) ==
    LET k == dev[<<"rate", 0>>] - (IF d.name = "aerox3" THEN 0 ELSE 1) IN
    1000 \div (2^k) = IF c.polling \in Range(d.rates) THEN c.polling ELSE 1000

\* A gradient: where its stops lie, 0..255, and their colours.
Sums(s) == LET at[i \in DOMAIN s] == IF i = 1 THEN s[1] ELSE at[i - 1] + s[i] IN at
Stops(g) ==
    LET at == Sums([i \in DOMAIN g.stops |-> g.stops[i][2]])
    IN [i \in DOMAIN g.stops |-> <<at[i], g.stops[i][1]>>]

ShowsGradient(g, fx, k) ==
    LET s == Stops(g) IN
    /\ g.ms = CASE fx = 1 -> 3000 [] fx = 2 -> 1200 [] fx = 3 -> 5000 [] fx = 4 -> 3000 [] OTHER -> 1000
    /\ g.repeat = (IF fx \in 1..4 THEN 0 ELSE 1)
    /\ g.initial = s[1][2]
    /\ s[1][1] = 0 /\ \A i \in 2..Len(s) : s[i - 1][1] < s[i][1]
    /\ Len(s) > 1 => s[Len(s)][1] = 255 /\ s[Len(s)][2] = s[1][2]
    /\ fx \notin 3..4 => s[1][2] = k

ShowsColors(d, c, dev) ==
    CASE d.name = "rival3" ->
           /\ \A z \in 1..4 : dev[<<"lamp", z>>][1] = c.color[z]
           /\ dev[<<"mode", 0>>] = CASE c.fx[1] \in 1..3 -> 4 - c.fx[1] [] c.fx[1] = 4 -> 0
                                     [] c.fx[1] \in 5..6 -> c.fx[1] [] OTHER -> 4
      [] d.name = "rival600" -> \A z \in 1..8 : ShowsGradient(dev[<<"lamp", z>>], c.fx[z], c.color[z])
      [] d.name = "prime" -> dev[<<"lamp", 1>>] = c.color[1]
      [] d.name = "apex100" -> /\ (dev[<<"mode", 0>>] = 1) = (c.fx[1] # 1)
                               /\ c.fx[1] = 1 /\ c.param[1] \in 1..3 => dev[<<"mode", 0>>] = c.param[1] + 1
      [] OTHER -> /\ \A z \in Zones(d) : dev[<<"lamp", z>>] = IF c.fx[z] # 0 THEN Rainbow ELSE c.color[z]
                  /\ dev[<<"overlay", 0>>] = c.reacts
                  /\ dev[<<"click", 0>>] = IF c.reacts THEN c.flash ELSE 0

ShowsBrightness(d, c, dev) ==
    CASE d.name = "rival3" -> \A z \in 1..4 : dev[<<"lamp", z>>][2] = c.bright
      [] d.name = "prime" ->
           LET b == dev[<<"bright", 0>>] IN Abs((b[1] + 256 * b[2]) * 100 - c.bright * 256) <= 128
      [] d.name \in {"aerox3", "aerox3_bt"} ->
           LET i == dev[<<"illum", 0>>] IN
           Abs(i[1] * 100 - c.bright * 15) <= 50 /\ i[2] = c.smart /\ Number3(i[3]) = c.dim * 1000
      [] OTHER -> dev[<<"bright", 0>>] = c.bright

\* what a button should send
ShowsAction(d, a, w) ==
    CASE a[1] = "mouse" -> w = <<a[2], 0>> [] a[1] = "dpi" -> w = <<48, 0>>
      [] a[1] = "scrollup" -> w = <<49, 0>> [] a[1] = "scrolldown" -> w = <<50, 0>>
      [] a[1] = "key" -> w = <<IF d.name = "rival3" THEN 51 ELSE 81, a[2]>>
      [] a[1] = "media" -> w = <<IF d.name = "rival3" THEN 52 ELSE 97, a[2]>>
      [] OTHER -> w = <<0, 0>>

\* (usage codes are bytes: what a hand edit puts beyond has no key to show)
ShowsButtons(d, c, dev) ==
    \A b \in DOMAIN c.buttons :
        c.buttons[b][2] \in 0..255 => ShowsAction(d, c.buttons[b], dev[<<"buttons", 0>>][b])

\* the register a step is read from
Where(d, step) ==
    CASE step = "dpi" -> IF d.name = "rival600" THEN "preset" ELSE "levels"
      [] step = "polling" -> "rate"
      [] step = "colors" -> IF d.name = "apex100" THEN "mode" ELSE "lamp"
      [] step = "brightness" -> CASE d.name = "rival3" -> "lamp"
                                  [] d.name \in {"aerox3", "aerox3_bt"} -> "illum" [] OTHER -> "bright"
      [] OTHER -> step

\* what these registers say of it
Reads(d, step, c, dev) ==
    CASE step = "dpi" -> ShowsLevels(d, c, dev)
      [] step = "polling" -> ShowsRate(d, c, dev)
      [] step = "colors" -> ShowsColors(d, c, dev)
      [] step = "brightness" -> ShowsBrightness(d, c, dev)
      [] step = "buttons" -> ShowsButtons(d, c, dev)
      [] step = "sleep" -> Number3(dev[<<"sleep", 0>>]) = c.sleep * 60000

Shows(d, step, c, dev) == (\E r \in DOMAIN dev : r[1] = Where(d, step)) /\ Reads(d, step, c, dev)
=============================================================================
