--------------------------- MODULE InvocationsProofs ---------------------------
(***************************************************************************)
(* What is proved of Invocations, for any drivers that declare what        *)
(* DriverAssumption says, any command lines, any hand edits of the file    *)
(* and any faults: the settings in use are always ones the driver can      *)
(* have, and what was stored is what is loaded; and, when the drivers are  *)
(* those of Registry, the device shows every step it has acknowledged,     *)
(* exit status 0 means what it says, and what was saved outlives a power   *)
(* cycle.                                                                  *)
(***************************************************************************)
EXTENDS InvocationsInvariants, SequenceTheorems, FiniteSetTheorems, WellFoundedInduction, TLAPS

-----------------------------------------------------------------------------
(* Numbers, lines and texts.                                                   *)

LEMMA Widths == Word \in Nat /\ Word > 2000 /\ Colour \in Nat /\ Colour > Word
<1>1. Word \in Nat /\ Word > 2000 BY DEF Word
<1> QED BY <1>1 DEF Colour

LEMMA FirstOf ==
    ASSUME NEW S, S \subseteq Nat, S # {}
    PROVE  \E z \in S : \A y \in S : z <= y
<1> DEFINE R == {ss \in Nat \X Nat : ss[1] < ss[2]}
<1>1. IsWellFoundedOn(R, Nat) BY NatLessThanWellFounded DEF OpToRel
<1> HIDE DEF R
<1>2. PICK z \in S : \A y \in S : <<y, z>> \notin R BY <1>1, WFMin
<1>3. ASSUME NEW y \in S PROVE z <= y
  <2>1. y \in Nat /\ z \in Nat /\ <<y, z>> \notin R BY <1>2
  <2>2. ~(y < z) BY <2>1 DEF R
  <2> QED BY <2>1, <2>2
<1> QED BY <1>3

\* The lines of a file, name by name.
LEMMA DevcfgLines ==
    ASSUME NEW d
    PROVE  /\ <<"polling_hz", 0>> \in devcfg_state_lines(d) <=> d.rates # <<>>
           /\ <<"brightness", 0>> \in devcfg_state_lines(d) <=> "brightness" \in d.caps
           /\ \A z \in Zones(d) : <<"zone", z>> \in devcfg_state_lines(d)
           /\ \A z : <<"zone_fx", z>> \in devcfg_state_lines(d) <=> (d.fx > 1 /\ z \in Zones(d))
           /\ \A z : <<"zone_param", z>> \in devcfg_state_lines(d) <=> (d.fx > 1 /\ z \in Zones(d))
           /\ \A k \in devcfg_state_lines(d) :
                 k[1] \in {"polling_hz", "brightness", "zone", "zone_fx", "zone_param"} /\ k = <<k[1], k[2]>>
  BY DEF devcfg_state_lines, If

LEMMA MouseLines ==
    ASSUME NEW d, NEW c
    PROVE  LET l == mouse_state_lines(d, c) IN
           /\ <<"polling_hz", 0>> \in l <=> d.rates # <<>>
           /\ <<"brightness", 0>> \in l <=> "brightness" \in d.caps
           /\ \A z \in Zones(d) : <<"zone", z>> \in l
           /\ \A z : <<"zone_fx", z>> \in l <=> (d.fx > 1 /\ z \in Zones(d))
           /\ \A z : <<"zone_param", z>> \in l <=> (d.fx > 1 /\ z \in Zones(d))
           /\ \A z : <<"dpi", z>> \in l <=> z \in 1..c.count
           /\ \A z : <<"button", z>> \in l <=> z \in DOMAIN d.buttons
           /\ \A w \in {"dpi_count", "dpi_active", "acceleration", "deceleration", "angle_snapping", "accel_enabled"} :
                 <<w, 0>> \in l
           /\ <<"reactive", 0>> \in l <=> "reactive" \in d.caps
           /\ <<"startup_fx", 0>> \in l <=> "startup" \in d.caps
           /\ \A w \in {"illum_smart", "illum_dim_s", "sleep_min"} : <<w, 0>> \in l <=> "battery" \in d.caps
  BY DevcfgLines DEF mouse_state_lines, If

\* What each of them prints.
LEMMA TextAt ==
    ASSUME NEW c, NEW z
    PROVE  /\ Text(c, <<"zone", z>>) = c.color[z]
           /\ Text(c, <<"zone_fx", z>>) = c.fx[z]
           /\ Text(c, <<"zone_param", z>>) = c.param[z]
           /\ Text(c, <<"dpi", z>>) = c.dpi[z]
           /\ Text(c, <<"button", z>>) = c.buttons[z]
<1>1. Text(c, <<"zone", z>>) = c.color[z] BY Zenon DEF Text
<1>2. Text(c, <<"zone_fx", z>>) = c.fx[z] BY Zenon DEF Text
<1>3. Text(c, <<"zone_param", z>>) = c.param[z] BY Zenon DEF Text
<1>4. Text(c, <<"dpi", z>>) = c.dpi[z] BY Zenon DEF Text
<1>5. Text(c, <<"button", z>>) = c.buttons[z] BY Zenon DEF Text
<1> QED BY ONLY <1>1, <1>2, <1>3, <1>4, <1>5

LEMMA TextOf ==
    ASSUME NEW c, NEW z
    PROVE  /\ Text(c, <<"polling_hz", 0>>) = c.polling
           /\ Text(c, <<"brightness", 0>>) = c.bright
           /\ Text(c, <<"zone", z>>) = c.color[z]
           /\ Text(c, <<"zone_fx", z>>) = c.fx[z]
           /\ Text(c, <<"zone_param", z>>) = c.param[z]
           /\ Text(c, <<"dpi_count", 0>>) = c.count
           /\ Text(c, <<"dpi_active", 0>>) = c.active
           /\ Text(c, <<"dpi", z>>) = c.dpi[z]
           /\ Text(c, <<"reactive", 0>>) = IF c.reacts THEN c.flash ELSE Junk
           /\ Text(c, <<"startup_fx", 0>>) = c.startup
           /\ Text(c, <<"illum_smart", 0>>) = Bit(c.smart)
           /\ Text(c, <<"illum_dim_s", 0>>) = c.dim
           /\ Text(c, <<"sleep_min", 0>>) = c.sleep
           /\ Text(c, <<"button", z>>) = c.buttons[z]
           /\ Text(c, <<"acceleration", 0>>) = c.acceleration
           /\ Text(c, <<"deceleration", 0>>) = c.deceleration
           /\ Text(c, <<"angle_snapping", 0>>) = c.snapping
           /\ Text(c, <<"accel_enabled", 0>>) = Bit(c.accel)
<1>1. Text(c, <<"polling_hz", 0>>) = c.polling BY Zenon DEF Text
<1>2. Text(c, <<"brightness", 0>>) = c.bright BY Zenon DEF Text
<1>3. Text(c, <<"zone", z>>) = c.color[z] BY Zenon, TextAt
<1>4. Text(c, <<"zone_fx", z>>) = c.fx[z] BY Zenon, TextAt
<1>5. Text(c, <<"zone_param", z>>) = c.param[z] BY Zenon, TextAt
<1>6. Text(c, <<"dpi_count", 0>>) = c.count BY Zenon DEF Text
<1>7. Text(c, <<"dpi_active", 0>>) = c.active BY Zenon DEF Text
<1>8. Text(c, <<"dpi", z>>) = c.dpi[z] BY Zenon, TextAt
<1>9. Text(c, <<"reactive", 0>>) = IF c.reacts THEN c.flash ELSE Junk BY Zenon DEF Text
<1>10. Text(c, <<"startup_fx", 0>>) = c.startup BY Zenon DEF Text
<1>11. Text(c, <<"illum_smart", 0>>) = Bit(c.smart) BY Zenon DEF Text
<1>12. Text(c, <<"illum_dim_s", 0>>) = c.dim BY Zenon DEF Text
<1>13. Text(c, <<"sleep_min", 0>>) = c.sleep BY Zenon DEF Text
<1>14. Text(c, <<"button", z>>) = c.buttons[z] BY Zenon, TextAt
<1>15. Text(c, <<"acceleration", 0>>) = c.acceleration BY Zenon DEF Text
<1>16. Text(c, <<"deceleration", 0>>) = c.deceleration BY Zenon DEF Text
<1>17. Text(c, <<"angle_snapping", 0>>) = c.snapping BY Zenon DEF Text
<1>18. Text(c, <<"accel_enabled", 0>>) = Bit(c.accel) BY Zenon DEF Text
<1> QED BY ONLY <1>1, <1>2, <1>3, <1>4, <1>5, <1>6, <1>7, <1>8, <1>9, <1>10, <1>11, <1>12, <1>13, <1>14,
      <1>15, <1>16, <1>17, <1>18

\* What can be read in a line.
LEMMA Readable ==
    ASSUME NEW k, NEW t, Legible(k, t)
    PROVE  /\ k[1] \notin {"dpi", "button"} => Atoi(t) \in Int /\ (t # Junk => t \in Int)
           /\ k[1] = "dpi" => t = Junk \/ t \in Int \X Int
           /\ k[1] = "button" => t = Junk \/ t \in ActionType \X Int
<1>1. t = Junk \/ (k[1] = "dpi" => t \in Int \X Int) BY Zenon DEF Legible
<1>2. t = Junk \/ (k[1] = "button" => t \in ActionType \X Int) BY Zenon DEF Legible
<1>3. t = Junk \/ (k[1] # "dpi" /\ k[1] # "button" => t \in Int) BY Zenon DEF Legible
<1> QED BY <1>1, <1>2, <1>3 DEF Atoi

-----------------------------------------------------------------------------
(* Loading, field by field.                                                    *)

LEMMA DevFields ==
    ASSUME NEW d, NEW c, Config(d, c), NEW f, NEW r, r = devcfg_state_load(c, f)
    PROVE  LoadsDev(d, c, f, r)
<1> DEFINE P == Number(f, "polling_hz", c.polling, LAMBDA v : v % Word)
           B == Number(f, "brightness", c.bright, LAMBDA v : Clamp(v, 0, 100))
           C == [z \in DOMAIN c.color |-> Scan(f, <<"zone", z>>, c.color[z], Rgb)]
           F == PerZone(f, "zone_fx", c.fx, Byte)
           M == PerZone(f, "zone_param", c.param, Byte)
<1>1. r = [c EXCEPT !.polling = P, !.bright = B, !.color = C, !.fx = F, !.param = M]
  BY Zenon DEF devcfg_state_load
<1>2. P = IF <<"polling_hz", 0>> \in DOMAIN f THEN Atoi(f[<<"polling_hz", 0>>]) % Word ELSE c.polling
  BY DEF Number, Line
<1>3. B = IF <<"brightness", 0>> \in DOMAIN f THEN Clamp(Atoi(f[<<"brightness", 0>>]), 0, 100) ELSE c.bright
  BY DEF Number, Line
<1>4. DOMAIN c.color = Zones(d) /\ DOMAIN c.fx = Zones(d) /\ DOMAIN c.param = Zones(d)
  BY DEF Config, DevOK
<1>5. C = [z \in Zones(d) |-> IF <<"zone", z>> \in DOMAIN f /\ f[<<"zone", z>>] # Junk THEN f[<<"zone", z>>] % Colour ELSE c.color[z]]
  BY <1>4 DEF Scan, Line, Rgb
<1>6. F = [z \in Zones(d) |-> IF <<"zone_fx", z>> \in DOMAIN f THEN Byte(Atoi(f[<<"zone_fx", z>>])) ELSE c.fx[z]]
  BY <1>4 DEF PerZone, Line
<1>7. M = [z \in Zones(d) |-> IF <<"zone_param", z>> \in DOMAIN f THEN Byte(Atoi(f[<<"zone_param", z>>])) ELSE c.param[z]]
  BY <1>4 DEF PerZone, Line
<1> HIDE DEF P, B, C, F, M
<1>8. r.polling = P /\ r.bright = B /\ r.color = C /\ r.fx = F /\ r.param = M
  BY <1>1 DEF Config, Fields
<1>9. r = [c EXCEPT !.polling = r.polling, !.bright = r.bright, !.color = r.color, !.fx = r.fx, !.param = r.param]
  BY <1>1, <1>8
<1> QED BY <1>2, <1>3, <1>5, <1>6, <1>7, <1>8, <1>9 DEF LoadsDev

LEMMA MouseFields ==
    ASSUME NEW d, NEW c, NEW f, DOMAIN c = Fields,
           DOMAIN c.dpi = 1..MaxLevels, DOMAIN c.buttons = DOMAIN d.buttons,
           NEW r, r = own_state_load(c, f)
    PROVE  LoadsMouse(d, c, f, r)
<1> DEFINE Has(w) == <<w, 0>> \in DOMAIN f
           At0(w) == f[<<w, 0>>]
           Count == Number(f, "dpi_count", c.count, LAMBDA v : Clamp(v, 1, MaxLevels))
           Active == Number(f, "dpi_active", c.active, LAMBDA v : Clamp(v, 0, MaxLevels - 1))
           Dpi == [i \in DOMAIN c.dpi |->
                     Scan(f, <<"dpi", i>>, c.dpi[i], LAMBDA t : <<t[1] % Word, t[2] % Word>>)]
           Reacts == Line(f, <<"reactive", 0>>, c.reacts, LAMBDA t : t # Junk)
           Flash == Scan(f, <<"reactive", 0>>, c.flash, Rgb)
           Startup == Number(f, "startup_fx", c.startup, LAMBDA v : Clamp(v, 0, 3))
           Smart == Number(f, "illum_smart", c.smart, LAMBDA v : v # 0)
           Dim == Number(f, "illum_dim_s", c.dim, LAMBDA v : Clamp(v, 0, 1200))
           Sleep == Number(f, "sleep_min", c.sleep, LAMBDA v : Clamp(v, 0, 20))
           Buttons == [b \in DOMAIN c.buttons |->
                         Scan(f, <<"button", b>>, c.buttons[b], LAMBDA t : <<t[1], t[2] % Word>>)]
           Accel == Number(f, "acceleration", c.acceleration, Signed)
           Decel == Number(f, "deceleration", c.deceleration, Signed)
           Snap == Number(f, "angle_snapping", c.snapping, LAMBDA v : v % 256)
           On == Number(f, "accel_enabled", c.accel, LAMBDA v : v # 0)
<1>1. r = [c EXCEPT !.count = Count, !.active = Active, !.dpi = Dpi, !.reacts = Reacts, !.flash = Flash,
              !.startup = Startup, !.smart = Smart, !.dim = Dim, !.sleep = Sleep, !.buttons = Buttons,
              !.acceleration = Accel, !.deceleration = Decel, !.snapping = Snap, !.accel = On]
  BY Zenon DEF own_state_load
<1>2. Count = IF Has("dpi_count") THEN Clamp(Atoi(At0("dpi_count")), 1, MaxLevels)
              ELSE c.count
  BY DEF Number, Line
<1>3. Active = IF Has("dpi_active")
               THEN Clamp(Atoi(At0("dpi_active")), 0, MaxLevels - 1) ELSE c.active
  BY DEF Number, Line
<1>4. Dpi = [i \in 1..MaxLevels |->
                 IF <<"dpi", i>> \in DOMAIN f /\ f[<<"dpi", i>>] # Junk
                 THEN <<f[<<"dpi", i>>][1] % Word, f[<<"dpi", i>>][2] % Word>> ELSE c.dpi[i]]
  BY DEF Scan, Line
<1>5. Reacts = IF Has("reactive") THEN At0("reactive") # Junk ELSE c.reacts
  BY Zenon DEF Line
<1>6. Flash = IF Has("reactive") /\ At0("reactive") # Junk
              THEN At0("reactive") % Colour ELSE c.flash
  BY DEF Scan, Line, Rgb
<1>7. Startup = IF Has("startup_fx") THEN Clamp(Atoi(At0("startup_fx")), 0, 3) ELSE c.startup
  BY DEF Number, Line
<1>8. Smart = IF Has("illum_smart") THEN Atoi(At0("illum_smart")) # 0 ELSE c.smart
  BY Zenon DEF Number, Line
<1>9. Dim = IF Has("illum_dim_s") THEN Clamp(Atoi(At0("illum_dim_s")), 0, 1200) ELSE c.dim
  BY DEF Number, Line
<1>10. Sleep = IF Has("sleep_min") THEN Clamp(Atoi(At0("sleep_min")), 0, 20) ELSE c.sleep
  BY DEF Number, Line
<1>11. Buttons = [b \in DOMAIN d.buttons |->
                 IF <<"button", b>> \in DOMAIN f /\ f[<<"button", b>>] # Junk
                 THEN <<f[<<"button", b>>][1], f[<<"button", b>>][2] % Word>> ELSE c.buttons[b]]
  BY DEF Scan, Line
<1>12. Accel = IF Has("acceleration") THEN Signed(Atoi(At0("acceleration"))) ELSE c.acceleration
  BY DEF Number, Line
<1>13. Decel = IF Has("deceleration") THEN Signed(Atoi(At0("deceleration"))) ELSE c.deceleration
  BY DEF Number, Line
<1>14. Snap = IF Has("angle_snapping") THEN Atoi(At0("angle_snapping")) % 256 ELSE c.snapping
  BY DEF Number, Line
<1>15. On = IF Has("accel_enabled") THEN Atoi(At0("accel_enabled")) # 0 ELSE c.accel
  BY Zenon DEF Number, Line
<1> HIDE DEF Count, Active, Dpi, Reacts, Flash, Startup, Smart, Dim, Sleep, Buttons, Accel, Decel, Snap, On
<1>16. DOMAIN r = Fields /\ SameDev(c, r) BY Zenon, <1>1 DEF Fields, SameDev
<1>17. /\ r.count = Count /\ r.active = Active /\ r.dpi = Dpi /\ r.flash = Flash
       /\ r.startup = Startup /\ r.dim = Dim /\ r.sleep = Sleep /\ r.buttons = Buttons
       /\ r.acceleration = Accel /\ r.deceleration = Decel /\ r.snapping = Snap
  BY <1>1 DEF Fields
<1>18. r.reacts = Reacts /\ r.smart = Smart /\ r.accel = On
  BY <1>1 DEF Fields
<1> QED BY Zenon, <1>2, <1>3, <1>4, <1>5, <1>6, <1>7, <1>8, <1>9, <1>10, <1>11, <1>12, <1>13, <1>14, <1>15, <1>16,
           <1>17, <1>18 DEF LoadsMouse

-----------------------------------------------------------------------------
(* Every configuration that loading makes is one of the driver's own.          *)

LEMMA SeqIsFunction == ASSUME NEW S, NEW s \in Seq(S) PROVE s \in [DOMAIN s -> S]
<1>1. s \in [1..Len(s) -> S] /\ DOMAIN s = 1..Len(s) BY LenProperties
<1> QED BY <1>1

\* the tables of a driver
LEMMA Tables ==
    ASSUME NEW d \in Driver
    PROVE  /\ d.zones \in [Zones(d) -> Colours] /\ Zones(d) = 1..Len(d.zones) /\ Len(d.zones) \in Nat
           /\ d.rates = <<>> \/ d.rates[1] \in Words
           /\ Len(d.levels) \in 0..MaxLevels /\ (d.levels # <<>> => Len(d.levels) > 0)
           /\ \A i \in 1..Len(d.levels) : d.levels[i] \in Words
           /\ d.buttons \in [DOMAIN d.buttons -> Action]
<1>1. /\ d.zones \in Seq(Colours) /\ d.rates \in Seq(Words) /\ d.levels \in Seq(Words)
      /\ d.buttons \in Seq(ActionType \X Words) /\ Len(d.levels) <= MaxLevels
  BY DriverAssumption DEF Fits, Words, Colours
<1>2. d.zones \in [Zones(d) -> Colours] BY Zenon, <1>1, SeqIsFunction DEF Zones
<1>7. Zones(d) = 1..Len(d.zones) /\ Len(d.zones) \in Nat BY <1>1, LenProperties DEF Zones
<1>3. d.rates = <<>> \/ d.rates[1] \in Words
  <2>1. d.rates # <<>> => Len(d.rates) \in Nat \ {0} BY <1>1, EmptySeq
  <2>2. d.rates # <<>> => 1 \in 1..Len(d.rates) BY <2>1
  <2> QED BY <1>1, <2>2, ElementOfSeq
<1>4. Len(d.levels) \in Nat /\ (d.levels # <<>> => Len(d.levels) > 0)
  <2>1. d.levels # <<>> => Len(d.levels) \in Nat \ {0} BY <1>1, EmptySeq
  <2> QED BY <1>1, <2>1, LenProperties
<1>5. \A i \in 1..Len(d.levels) : d.levels[i] \in Words BY <1>1, ElementOfSeq
<1>6. d.buttons \in [DOMAIN d.buttons -> Action]
  <2>1. d.buttons \in Seq(Action) BY <1>1 DEF Action
  <2> QED BY Zenon, <2>1, SeqIsFunction
<1>8. Len(d.levels) \in 0..MaxLevels
  <2>1. Len(d.levels) <= MaxLevels BY DriverAssumption DEF Fits
  <2>2. Len(d.levels) \in Nat BY <1>4
  <2> DEFINE n == Len(d.levels)
  <2>3. n \in Nat /\ n <= MaxLevels BY <2>1, <2>2
  <2> HIDE DEF n
  <2>4. n \in 0..MaxLevels BY <2>3 DEF MaxLevels
  <2> QED BY Zenon, <2>4 DEF n
<1> QED BY Zenon, <1>2, <1>3, <1>4, <1>5, <1>6, <1>7, <1>8

LEMMA Defaults == ASSUME NEW d \in Driver PROVE Own(d, config_defaults(d))
<1> DEFINE c == config_defaults(d)
<1>0. Fits(d) /\ KeepsKind(d) BY DriverAssumption
<1>1. DOMAIN c = Fields BY DEF config_defaults, Fields
<1>2. c.polling = (IF d.rates = <<>> THEN 0 ELSE d.rates[1]) /\ c.bright = 100 BY DEF config_defaults
<1>3. c.color = d.zones /\ c.fx = Same(d, 0) /\ c.param = Same(d, 5) BY DEF config_defaults
<1>4. c.count = Len(d.levels) /\ c.active = 0 BY DEF config_defaults
<1>5. c.dpi = [i \in 1..MaxLevels |-> IF i <= Len(d.levels) THEN <<d.levels[i], d.levels[i]>> ELSE <<0, 0>>]
  BY DEF config_defaults
<1>6. /\ c.reacts = FALSE /\ c.flash = Colour - 1 /\ c.startup = IF "rainbow" \in d.caps THEN 2 ELSE 0
      /\ c.smart = FALSE /\ c.dim = 0 /\ c.sleep = (IF "battery" \in d.caps THEN 5 ELSE 0)
  BY DEF config_defaults
<1>7. /\ c.buttons = d.buttons /\ c.acceleration = 0 /\ c.deceleration = 0 /\ c.snapping = 0
      /\ c.accel = FALSE
  BY DEF config_defaults
<1> HIDE DEF c
<1>8. Config(d, c)
  <2>1. c.polling \in Words BY <1>2, Tables, Widths DEF Words
  <2>2. c.color \in [Zones(d) -> Colours] BY <1>3, Tables
  <2>3. c.fx \in [Zones(d) -> Bytes] /\ c.param \in [Zones(d) -> Bytes] BY <1>3 DEF Same, Bytes
  <2>4. c.count \in 0..MaxLevels BY <1>4, Tables
  <2>5. c.dpi \in [1..MaxLevels -> Pair]
    <3>1. ASSUME NEW i \in 1..MaxLevels, i <= Len(d.levels) PROVE d.levels[i] \in Words
      <4>1. i \in 1..Len(d.levels) BY <3>1, Tables DEF MaxLevels
      <4> QED BY <4>1, Tables
    <3> QED BY <1>5, <3>1, Widths DEF Pair, Words
  <2>6. c.buttons \in [DOMAIN d.buttons -> Action] BY <1>7, Tables
  <2>7. c.reacts \in BOOLEAN /\ c.smart \in BOOLEAN /\ c.accel \in BOOLEAN BY Zenon, <1>6, <1>7
  <2>8. /\ c.bright \in 0..100 /\ c.active \in 0..(MaxLevels - 1) /\ c.dim \in Seconds /\ c.sleep \in 0..20
        /\ c.flash \in Colours /\ c.startup \in 0..3
    BY <1>2, <1>4, <1>6, Widths DEF MaxLevels, Seconds, Colours
  <2>9. c.acceleration \in SignedBytes /\ c.deceleration \in SignedBytes /\ c.snapping \in Bytes BY <1>7 DEF Bytes, SignedBytes
  <2> QED BY <1>1, <2>1, <2>2, <2>3, <2>4, <2>5, <2>6, <2>7, <2>8, <2>9 DEF Config, DevOK, LevelsOK, MouseOK
<1>9. Legal(d, c)
  <2>1. d.kind = "mouse" => c.count \in 1..MaxLevels /\ c.active \in 0..(c.count - 1)
    <3>1. d.kind = "mouse" => d.levels # <<>> BY <1>0 DEF KeepsKind
    <3> QED BY <1>4, <3>1, Tables DEF MaxLevels
  <2>2. \A y, z \in Zones(d) : c.fx[y] = c.fx[z] /\ c.param[y] = c.param[z] BY <1>3 DEF Same
  <2>3. \A z \in Zones(d) : c.color[z] \in 0..(Colour - 1) /\ c.fx[z] \in 0..255
    BY <1>8 DEF Config, DevOK, Colours, Bytes
  <2> QED BY <1>2, <1>6, <2>1, <2>2, <2>3 DEF Legal
<1>10. Unprinted(d, c)
  <2>1. SameMouse(config_defaults(d), c) BY DEF SameMouse, c
  <2>2. c.startup = config_defaults(d).startup BY DEF c
  <2> QED BY <1>2, <1>3, <1>6, <2>1, <2>2 DEF Unprinted
<1> QED BY <1>8, <1>9, <1>10 DEF Own, c

\* What each reader returns is in range.
LEMMA Ranges ==
    ASSUME NEW v \in Int
    PROVE  /\ v % Word \in Words /\ v % Colour \in Colours /\ v % 256 \in Bytes
           /\ Signed(v) \in SignedBytes /\ Byte(v) \in Bytes
           /\ \A lo, hi \in Int : lo <= hi => Clamp(v, lo, hi) \in lo..hi
  BY Widths DEF Signed, Byte, Clamp, Words, Colours, Bytes, SignedBytes

\* Which lines a file of driver d has.
LEMMA LinesOf ==
    ASSUME NEW d, NEW f, FileOK(d, f)
    PROVE  /\ <<"polling_hz", 0>> \in DOMAIN f => d.rates # <<>>
           /\ <<"brightness", 0>> \in DOMAIN f => "brightness" \in d.caps
           /\ \A z : <<"zone_fx", z>> \in DOMAIN f \/ <<"zone_param", z>> \in DOMAIN f => d.fx > 1
           /\ d.kind = "mouse" =>
                /\ <<"reactive", 0>> \in DOMAIN f => "reactive" \in d.caps
                /\ <<"startup_fx", 0>> \in DOMAIN f => "startup" \in d.caps
                /\ \A w \in {"illum_smart", "illum_dim_s", "sleep_min"} :
                      <<w, 0>> \in DOMAIN f => "battery" \in d.caps
<1>1. CASE d.kind = "mouse" BY <1>1, MouseLines DEF FileOK, Lines
<1>2. CASE d.kind # "mouse" BY <1>2, DevcfgLines DEF FileOK, Lines
<1> QED BY <1>1, <1>2

\* What can be read there.
LEMMA Read ==
    ASSUME NEW d, NEW f, FileOK(d, f)
    PROVE  /\ \A w, z : <<w, z>> \in DOMAIN f /\ w # "dpi" /\ w # "button" =>
                /\ Atoi(f[<<w, z>>]) \in Int
                /\ f[<<w, z>>] # Junk => f[<<w, z>>] \in Int
           /\ \A i : <<"dpi", i>> \in DOMAIN f /\ f[<<"dpi", i>>] # Junk => f[<<"dpi", i>>] \in Int \X Int
           /\ \A b : <<"button", b>> \in DOMAIN f /\ f[<<"button", b>>] # Junk => f[<<"button", b>>] \in ActionType \X Int
<1>1. ASSUME NEW w, NEW z, <<w, z>> \in DOMAIN f, w # "dpi", w # "button"
      PROVE  /\ Atoi(f[<<w, z>>]) \in Int
             /\ f[<<w, z>>] # Junk => f[<<w, z>>] \in Int
  <2>1. Legible(<<w, z>>, f[<<w, z>>]) BY <1>1 DEF FileOK
  <2>2. <<w, z>>[1] = w OBVIOUS
  <2> QED BY <1>1, <2>1, <2>2, Readable
<1>2. ASSUME NEW i, <<"dpi", i>> \in DOMAIN f, f[<<"dpi", i>>] # Junk PROVE f[<<"dpi", i>>] \in Int \X Int
  <2>1. Legible(<<"dpi", i>>, f[<<"dpi", i>>]) BY <1>2 DEF FileOK
  <2>2. <<"dpi", i>>[1] = "dpi" OBVIOUS
  <2> QED BY <1>2, <2>1, <2>2, Readable
<1>3. ASSUME NEW b, <<"button", b>> \in DOMAIN f, f[<<"button", b>>] # Junk
      PROVE  f[<<"button", b>>] \in ActionType \X Int
  <2>1. Legible(<<"button", b>>, f[<<"button", b>>]) BY <1>3 DEF FileOK
  <2>2. <<"button", b>>[1] = "button" OBVIOUS
  <2> QED BY <1>3, <2>1, <2>2, Readable
<1> QED BY <1>1, <1>2, <1>3

LEMMA SameParts ==
    ASSUME NEW d, NEW c, NEW r
    PROVE  /\ SameDev(c, r) /\ DevOK(d, c) => DevOK(d, r)
           /\ SameMouse(c, r) /\ LevelsOK(c) /\ MouseOK(d, c) => LevelsOK(r) /\ MouseOK(d, r)
<1>1. SameDev(c, r) /\ DevOK(d, c) => DevOK(d, r) BY Zenon DEF SameDev, DevOK
<1>2. SameMouse(c, r) /\ LevelsOK(c) => LevelsOK(r) BY Zenon DEF SameMouse, LevelsOK
<1>3. SameMouse(c, r) /\ MouseOK(d, c) => MouseOK(d, r) BY Zenon DEF SameMouse, MouseOK
<1> QED BY <1>1, <1>2, <1>3

LEMMA DevLoad ==
    ASSUME NEW d, NEW c, Config(d, c), Unprinted(d, c), NEW f, FileOK(d, f),
           NEW r, r = devcfg_state_load(c, f)
    PROVE  Config(d, r) /\ Unprinted(d, r) /\ SameMouse(c, r)
<1>0. LoadsDev(d, c, f, r) BY DevFields
<1>1. SameMouse(c, r) /\ DOMAIN r = Fields
  <2>1. r = [c EXCEPT !.polling = r.polling, !.bright = r.bright, !.color = r.color, !.fx = r.fx,
                      !.param = r.param]
    BY <1>0 DEF LoadsDev
  <2>2. DOMAIN c = Fields BY DEF Config
  <2> QED BY <2>1, <2>2 DEF SameMouse, Fields
<1>2. r.polling \in Words /\ (d.rates = <<>> => r.polling = c.polling)
  <2>1. r.polling = IF <<"polling_hz", 0>> \in DOMAIN f THEN Atoi(f[<<"polling_hz", 0>>]) % Word ELSE c.polling
    BY <1>0 DEF LoadsDev
  <2>2. c.polling \in Words BY DEF Config, DevOK
  <2>3. <<"polling_hz", 0>> \in DOMAIN f => Atoi(f[<<"polling_hz", 0>>]) % Word \in Words
    BY Read, Ranges
  <2>4. <<"polling_hz", 0>> \in DOMAIN f => d.rates # <<>> BY LinesOf
  <2> QED BY Zenon, <2>1, <2>2, <2>3, <2>4
<1>3. r.bright \in 0..100 /\ ("brightness" \notin d.caps => r.bright = c.bright)
  <2>1. r.bright = IF <<"brightness", 0>> \in DOMAIN f THEN Clamp(Atoi(f[<<"brightness", 0>>]), 0, 100)
                   ELSE c.bright
    BY <1>0 DEF LoadsDev
  <2>2. c.bright \in 0..100 BY DEF Config, DevOK
  <2>3. <<"brightness", 0>> \in DOMAIN f => Clamp(Atoi(f[<<"brightness", 0>>]), 0, 100) \in 0..100
    <3>1. <<"brightness", 0>> \in DOMAIN f => Atoi(f[<<"brightness", 0>>]) \in Int BY Read
    <3> QED BY <3>1 DEF Clamp
  <2>4. <<"brightness", 0>> \in DOMAIN f => "brightness" \in d.caps BY LinesOf
  <2> QED BY Zenon, <2>1, <2>2, <2>3, <2>4
<1>4. r.color \in [Zones(d) -> Colours]
  <2>1. \A z \in Zones(d) : c.color[z] \in Colours BY DEF Config, DevOK
  <2>2. \A z \in Zones(d) : <<"zone", z>> \in DOMAIN f /\ f[<<"zone", z>>] # Junk =>
           f[<<"zone", z>>] % Colour \in Colours
    <3>1. \A z : <<"zone", z>> \in DOMAIN f /\ f[<<"zone", z>>] # Junk => f[<<"zone", z>>] \in Int BY Read
    <3> QED BY <3>1, Ranges
  <2>3. r.color = [z \in Zones(d) |-> IF <<"zone", z>> \in DOMAIN f /\ f[<<"zone", z>>] # Junk
                                      THEN f[<<"zone", z>>] % Colour ELSE c.color[z]]
    BY <1>0 DEF LoadsDev
  <2> QED BY Zenon, <2>1, <2>2, <2>3
<1>5. r.fx \in [Zones(d) -> Bytes] /\ (~(d.fx > 1) => r.fx = c.fx)
  <2>1. c.fx \in [Zones(d) -> Bytes] BY DEF Config, DevOK
  <2>2. r.fx = [z \in Zones(d) |-> IF <<"zone_fx", z>> \in DOMAIN f THEN Byte(Atoi(f[<<"zone_fx", z>>]))
                                   ELSE c.fx[z]]
    BY <1>0 DEF LoadsDev
  <2>3. \A z : <<"zone_fx", z>> \in DOMAIN f => Byte(Atoi(f[<<"zone_fx", z>>])) \in Bytes BY Read, Ranges
  <2>4. \A z : <<"zone_fx", z>> \in DOMAIN f => d.fx > 1 BY LinesOf
  <2>5. r.fx \in [Zones(d) -> Bytes]
    <3>1. \A z \in Zones(d) : (IF <<"zone_fx", z>> \in DOMAIN f THEN Byte(Atoi(f[<<"zone_fx", z>>]))
                               ELSE c.fx[z]) \in Bytes
      BY Zenon, <2>1, <2>3
    <3> QED BY Zenon, <2>2, <3>1
  <2>6. ASSUME ~(d.fx > 1) PROVE r.fx = c.fx BY Zenon, <2>1, <2>2, <2>4, <2>6
  <2> QED BY Zenon, <2>5, <2>6
<1>6. r.param \in [Zones(d) -> Bytes] /\ (~(d.fx > 1) => r.param = c.param)
  <2>1. c.param \in [Zones(d) -> Bytes] BY DEF Config, DevOK
  <2>2. r.param = [z \in Zones(d) |-> IF <<"zone_param", z>> \in DOMAIN f
                                      THEN Byte(Atoi(f[<<"zone_param", z>>])) ELSE c.param[z]]
    BY <1>0 DEF LoadsDev
  <2>3. \A z : <<"zone_param", z>> \in DOMAIN f => Byte(Atoi(f[<<"zone_param", z>>])) \in Bytes BY Read, Ranges
  <2>4. \A z : <<"zone_param", z>> \in DOMAIN f => d.fx > 1 BY LinesOf
  <2>5. r.param \in [Zones(d) -> Bytes]
    <3>1. \A z \in Zones(d) : (IF <<"zone_param", z>> \in DOMAIN f THEN Byte(Atoi(f[<<"zone_param", z>>]))
                               ELSE c.param[z]) \in Bytes
      BY Zenon, <2>1, <2>3
    <3> QED BY Zenon, <2>2, <3>1
  <2>6. ASSUME ~(d.fx > 1) PROVE r.param = c.param BY Zenon, <2>1, <2>2, <2>4, <2>6
  <2> QED BY Zenon, <2>5, <2>6
<1>7. Config(d, r)
  <2>1. DevOK(d, r) BY Zenon, <1>2, <1>3, <1>4, <1>5, <1>6 DEF DevOK
  <2> QED BY Zenon, <1>1, <2>1, SameParts DEF Config
<1>8. Unprinted(d, r)
  <2>1. d.kind # "mouse" => SameMouse(config_defaults(d), r) BY Zenon, <1>1 DEF Unprinted, SameMouse
  <2> QED BY Zenon, <1>1, <1>2, <1>3, <1>5, <1>6, <2>1 DEF Unprinted, SameMouse
<1> QED BY <1>1, <1>7, <1>8

LEMMA OwnLoad ==
    ASSUME NEW d, d.kind = "mouse", NEW c, Config(d, c), c.count > 0, Unprinted(d, c), NEW f, FileOK(d, f),
           NEW r, r = own_state_load(c, f)
    PROVE  Config(d, r) /\ Unprinted(d, r) /\ SameDev(c, r) /\ r.count > 0
<1> DEFINE Has(w) == <<w, 0>> \in DOMAIN f
           At0(w) == f[<<w, 0>>]
<1>0. LoadsMouse(d, c, f, r)
  <2>1. DOMAIN c = Fields /\ DOMAIN c.dpi = 1..MaxLevels /\ DOMAIN c.buttons = DOMAIN d.buttons
    BY DEF Config, LevelsOK, MouseOK
  <2> QED BY <2>1, MouseFields
<1>1. DOMAIN r = Fields /\ SameDev(c, r) BY <1>0 DEF LoadsMouse
<1>2. r.count \in 0..MaxLevels /\ r.count > 0
  <2>1. r.count = IF Has("dpi_count") THEN Clamp(Atoi(At0("dpi_count")), 1, MaxLevels)
                  ELSE c.count
    BY <1>0 DEF LoadsMouse
  <2>2. c.count \in 0..MaxLevels BY DEF Config, LevelsOK
  <2>3. Has("dpi_count") => Atoi(At0("dpi_count")) \in Int BY Read
  <2> QED BY <2>1, <2>2, <2>3 DEF Clamp, MaxLevels
<1>3. r.active \in 0..(MaxLevels - 1)
  <2>1. r.active = IF Has("dpi_active")
                   THEN Clamp(Atoi(At0("dpi_active")), 0, MaxLevels - 1) ELSE c.active
    BY <1>0 DEF LoadsMouse
  <2>2. c.active \in 0..(MaxLevels - 1) BY DEF Config, LevelsOK
  <2>3. Has("dpi_active") => Atoi(At0("dpi_active")) \in Int BY Read
  <2> QED BY <2>1, <2>2, <2>3 DEF Clamp, MaxLevels
<1>4. r.dpi \in [1..MaxLevels -> Pair]
  <2>1. r.dpi = [i \in 1..MaxLevels |->
                   IF <<"dpi", i>> \in DOMAIN f /\ f[<<"dpi", i>>] # Junk
                   THEN <<f[<<"dpi", i>>][1] % Word, f[<<"dpi", i>>][2] % Word>> ELSE c.dpi[i]]
    BY <1>0 DEF LoadsMouse
  <2>2. \A i \in 1..MaxLevels : c.dpi[i] \in Pair BY DEF Config, LevelsOK
  <2>3. ASSUME NEW i \in 1..MaxLevels, <<"dpi", i>> \in DOMAIN f, f[<<"dpi", i>>] # Junk
        PROVE  <<f[<<"dpi", i>>][1] % Word, f[<<"dpi", i>>][2] % Word>> \in Pair
    <3>1. f[<<"dpi", i>>] \in Int \X Int BY <2>3, Read
    <3>2. f[<<"dpi", i>>][1] \in Int /\ f[<<"dpi", i>>][2] \in Int BY <3>1
    <3>3. f[<<"dpi", i>>][1] % Word \in Words /\ f[<<"dpi", i>>][2] % Word \in Words BY <3>2, Ranges
    <3> QED BY <3>3 DEF Pair
  <2> QED BY Zenon, <2>1, <2>2, <2>3
<1>5. r.reacts \in BOOLEAN /\ ("reactive" \notin d.caps => r.reacts = c.reacts)
  <2>1. r.reacts = IF Has("reactive") THEN At0("reactive") # Junk ELSE c.reacts
    BY <1>0 DEF LoadsMouse
  <2>2. c.reacts \in BOOLEAN BY DEF Config, MouseOK
  <2>3. Has("reactive") => "reactive" \in d.caps BY LinesOf
  <2> QED BY Zenon, <2>1, <2>2, <2>3
<1>6. r.flash \in Colours
  <2>1. r.flash = IF Has("reactive") /\ At0("reactive") # Junk
                  THEN At0("reactive") % Colour ELSE c.flash
    BY <1>0 DEF LoadsMouse
  <2>2. c.flash \in Colours BY DEF Config, MouseOK
  <2>3. Has("reactive") /\ At0("reactive") # Junk => At0("reactive") \in Int BY Read
  <2>4. Has("reactive") /\ At0("reactive") # Junk => At0("reactive") % Colour \in Colours
    BY <2>3, Ranges
  <2> QED BY Zenon, <2>1, <2>2, <2>4
<1>7. r.startup \in 0..3 /\ ("startup" \notin d.caps => r.startup = c.startup)
  <2>1. r.startup = IF Has("startup_fx") THEN Clamp(Atoi(At0("startup_fx")), 0, 3) ELSE c.startup
    BY <1>0 DEF LoadsMouse
  <2>2. c.startup \in 0..3 BY DEF Config, MouseOK
  <2>3. Has("startup_fx") => Atoi(At0("startup_fx")) \in Int BY Read
  <2>4. Has("startup_fx") => Clamp(Atoi(At0("startup_fx")), 0, 3) \in 0..3 BY <2>3 DEF Clamp
  <2>5. Has("startup_fx") => "startup" \in d.caps BY LinesOf
  <2> QED BY Zenon, <2>1, <2>2, <2>4, <2>5
<1>8. r.dim \in Seconds /\ ("battery" \notin d.caps => r.dim = c.dim)
  <2>1. r.dim = IF Has("illum_dim_s") THEN Clamp(Atoi(At0("illum_dim_s")), 0, 1200) ELSE c.dim
    BY <1>0 DEF LoadsMouse
  <2>2. c.dim \in Seconds BY DEF Config, MouseOK
  <2>3. Has("illum_dim_s") => Atoi(At0("illum_dim_s")) \in Int BY Read
  <2>4. Has("illum_dim_s") => Clamp(Atoi(At0("illum_dim_s")), 0, 1200) \in Seconds BY <2>3 DEF Clamp, Seconds
  <2>5. Has("illum_dim_s") => "battery" \in d.caps BY LinesOf
  <2> QED BY <2>1, <2>2, <2>4, <2>5
<1>9. r.sleep \in 0..20 /\ ("battery" \notin d.caps => r.sleep = c.sleep)
  <2>1. r.sleep = IF Has("sleep_min") THEN Clamp(Atoi(At0("sleep_min")), 0, 20) ELSE c.sleep
    BY <1>0 DEF LoadsMouse
  <2>2. c.sleep \in 0..20 BY DEF Config, MouseOK
  <2>3. Has("sleep_min") => Atoi(At0("sleep_min")) \in Int BY Read
  <2>4. Has("sleep_min") => Clamp(Atoi(At0("sleep_min")), 0, 20) \in 0..20 BY <2>3 DEF Clamp
  <2>5. Has("sleep_min") => "battery" \in d.caps BY LinesOf
  <2> QED BY Zenon, <2>1, <2>2, <2>4, <2>5
<1>10. r.acceleration \in SignedBytes
  <2>1. r.acceleration = IF Has("acceleration") THEN Signed(Atoi(At0("acceleration"))) ELSE c.acceleration
    BY <1>0 DEF LoadsMouse
  <2>2. c.acceleration \in SignedBytes BY DEF Config, MouseOK
  <2>3. Has("acceleration") => Atoi(At0("acceleration")) \in Int BY Read
  <2>4. Has("acceleration") => Signed(Atoi(At0("acceleration"))) \in SignedBytes BY <2>3, Ranges
  <2> QED BY Zenon, <2>1, <2>2, <2>4
<1>11. r.deceleration \in SignedBytes
  <2>1. r.deceleration = IF Has("deceleration") THEN Signed(Atoi(At0("deceleration"))) ELSE c.deceleration
    BY <1>0 DEF LoadsMouse
  <2>2. c.deceleration \in SignedBytes BY DEF Config, MouseOK
  <2>3. Has("deceleration") => Atoi(At0("deceleration")) \in Int BY Read
  <2>4. Has("deceleration") => Signed(Atoi(At0("deceleration"))) \in SignedBytes BY <2>3, Ranges
  <2> QED BY Zenon, <2>1, <2>2, <2>4
<1>12. r.snapping \in Bytes
  <2>1. r.snapping = IF Has("angle_snapping") THEN Atoi(At0("angle_snapping")) % 256 ELSE c.snapping
    BY <1>0 DEF LoadsMouse
  <2>2. c.snapping \in Bytes BY DEF Config, MouseOK
  <2>3. Has("angle_snapping") => Atoi(At0("angle_snapping")) \in Int BY Read
  <2>4. Has("angle_snapping") => Atoi(At0("angle_snapping")) % 256 \in Bytes BY <2>3, Ranges
  <2> QED BY Zenon, <2>1, <2>2, <2>4
<1>13. r.smart \in BOOLEAN /\ ("battery" \notin d.caps => r.smart = c.smart)
  <2>1. r.smart = IF Has("illum_smart") THEN Atoi(At0("illum_smart")) # 0 ELSE c.smart
    BY <1>0 DEF LoadsMouse
  <2>2. c.smart \in BOOLEAN BY DEF Config, MouseOK
  <2>3. Has("illum_smart") => "battery" \in d.caps BY LinesOf
  <2> QED BY Zenon, <2>1, <2>2, <2>3
<1>14. r.accel \in BOOLEAN
  <2>1. r.accel = IF Has("accel_enabled") THEN Atoi(At0("accel_enabled")) # 0 ELSE c.accel
    BY <1>0 DEF LoadsMouse
  <2>2. c.accel \in BOOLEAN BY DEF Config, MouseOK
  <2> QED BY Zenon, <2>1, <2>2
<1>15. r.buttons \in [DOMAIN d.buttons -> Action]
  <2>1. r.buttons = [b \in DOMAIN d.buttons |->
                       IF <<"button", b>> \in DOMAIN f /\ f[<<"button", b>>] # Junk
                       THEN <<f[<<"button", b>>][1], f[<<"button", b>>][2] % Word>> ELSE c.buttons[b]]
    BY <1>0 DEF LoadsMouse
  <2>2. \A b \in DOMAIN d.buttons : c.buttons[b] \in Action BY DEF Config, MouseOK
  <2>3. ASSUME NEW b \in DOMAIN d.buttons, <<"button", b>> \in DOMAIN f, f[<<"button", b>>] # Junk
        PROVE  <<f[<<"button", b>>][1], f[<<"button", b>>][2] % Word>> \in Action
    <3>1. f[<<"button", b>>] \in ActionType \X Int BY <2>3, Read
    <3>2. f[<<"button", b>>][1] \in ActionType /\ f[<<"button", b>>][2] \in Int BY <3>1
    <3>3. f[<<"button", b>>][2] % Word \in Words BY <3>2, Ranges
    <3> QED BY <3>2, <3>3 DEF Action
  <2> QED BY Zenon, <2>1, <2>2, <2>3
<1>16. Config(d, r)
  <2>1. DevOK(d, r)
    <3>1. DevOK(d, c) BY DEF Config
    <3> QED BY <1>1, <3>1, SameParts
  <2>2. LevelsOK(r) BY <1>2, <1>3, <1>4 DEF LevelsOK
  <2>3. MouseOK(d, r)
    BY Zenon, <1>5, <1>6, <1>7, <1>8, <1>9, <1>10, <1>11, <1>12, <1>13, <1>14, <1>15 DEF MouseOK
  <2> QED BY <1>1, <2>1, <2>2, <2>3 DEF Config
<1>17. Unprinted(d, r)
  BY Zenon, <1>1, <1>5, <1>7, <1>8, <1>9, <1>13 DEF Unprinted, SameDev
<1> QED BY <1>1, <1>2, <1>16, <1>17

\* Normalisation: where one effect drives the device, all zones get that of one of them.
LEMMA Normalizes ==
    ASSUME NEW d \in Driver, NEW c, Config(d, c), NEW n, n = alloy_light_normalize(d, c)
    PROVE  /\ DOMAIN n = Fields /\ SameMouse(c, n)
           /\ n.polling = c.polling /\ n.bright = c.bright /\ n.color = c.color
           /\ "global" \notin d.caps => n = c
           /\ "global" \in d.caps => \E z : /\ Zones(d) # {} => z \in Zones(d)
                                            /\ n.fx = Same(d, c.fx[z]) /\ n.param = Same(d, c.param[z])
<1>0. DOMAIN c = Fields BY DEF Config
<1>1. CASE "global" \notin d.caps
  <2>1. n = c BY <1>1 DEF alloy_light_normalize
  <2> QED BY <1>0, <1>1, <2>1 DEF SameMouse
<1>2. CASE "global" \in d.caps
  <2> DEFINE running == {z \in Zones(d) : c.fx[z] # 0}
             src == IF running = {} THEN 1 ELSE CHOOSE z \in running : \A y \in running : z <= y
  <2>1. n = [c EXCEPT !.fx = Same(d, c.fx[src]), !.param = Same(d, c.param[src])]
    BY <1>2 DEF alloy_light_normalize
  <2>2. Zones(d) = 1..Len(d.zones) /\ Len(d.zones) \in Nat BY Tables
  <2>3. Zones(d) # {} => src \in Zones(d)
    <3>1. CASE running = {}
      <4>1. Zones(d) # {} => 1 \in Zones(d) BY <2>2
      <4> QED BY <3>1, <4>1
    <3>2. CASE running # {}
      <4>1. running \subseteq Nat BY <2>2
      <4>2. \E z \in running : \A y \in running : z <= y BY <3>2, <4>1, FirstOf
      <4>3. src \in running BY <3>2, <4>2
      <4> QED BY <4>3
    <3> QED BY <3>1, <3>2
  <2> HIDE DEF src
  <2>4. /\ DOMAIN n = Fields /\ SameMouse(c, n)
        /\ n.polling = c.polling /\ n.bright = c.bright /\ n.color = c.color
        /\ n.fx = Same(d, c.fx[src]) /\ n.param = Same(d, c.param[src])
    BY <1>0, <2>1 DEF Fields, SameMouse
  <2> QED BY <1>2, <2>3, <2>4
<1> QED BY <1>1, <1>2

LEMMA NormalLegal ==
    ASSUME NEW d \in Driver, NEW c, Config(d, c), Unprinted(d, c), NEW n, n = alloy_light_normalize(d, c)
    PROVE  /\ Config(d, n) /\ Unprinted(d, n)
           /\ "global" \in d.caps => \A y, z \in Zones(d) : n.fx[y] = n.fx[z] /\ n.param[y] = n.param[z]
<1>1. CASE "global" \notin d.caps BY <1>1, Normalizes
<1>2. CASE "global" \in d.caps
  <2>1. PICK s : /\ Zones(d) # {} => s \in Zones(d)
                 /\ n.fx = Same(d, c.fx[s]) /\ n.param = Same(d, c.param[s])
    BY <1>2, Normalizes
  <2>2. /\ DOMAIN n = Fields /\ SameMouse(c, n)
        /\ n.polling = c.polling /\ n.bright = c.bright /\ n.color = c.color
    BY Normalizes
  <2>3. DevOK(d, c) /\ LevelsOK(c) /\ MouseOK(d, c) BY DEF Config
  <2>4. n.fx \in [Zones(d) -> Bytes] /\ n.param \in [Zones(d) -> Bytes]
    <3>1. \A z \in Zones(d) : c.fx[z] \in Bytes /\ c.param[z] \in Bytes BY <2>3 DEF DevOK
    <3>2. \A z \in Zones(d) : c.fx[s] \in Bytes /\ c.param[s] \in Bytes BY <2>1, <3>1
    <3> QED BY Zenon, <2>1, <3>2 DEF Same
  <2>5. DevOK(d, n) BY Zenon, <2>2, <2>3, <2>4 DEF DevOK
  <2>6. Config(d, n) BY <2>2, <2>3, <2>5, SameParts DEF Config
  <2>7. ~(d.fx > 1) => n.fx = Same(d, 0) /\ n.param = Same(d, 5)
    <3>1. SUFFICES ASSUME ~(d.fx > 1) PROVE n.fx = Same(d, 0) /\ n.param = Same(d, 5) OBVIOUS
    <3>2. c.fx = Same(d, 0) /\ c.param = Same(d, 5) BY <3>1 DEF Unprinted
    <3>3. \A z \in Zones(d) : c.fx[s] = 0 /\ c.param[s] = 5 BY <2>1, <3>2 DEF Same
    <3> QED BY Zenon, <2>1, <3>3 DEF Same
  <2>8. Unprinted(d, n)
    <3>1. d.kind # "mouse" => SameMouse(config_defaults(d), n) BY Zenon, <2>2 DEF Unprinted, SameMouse
    <3> QED BY Zenon, <2>2, <2>7, <3>1 DEF Unprinted, SameMouse
  <2>9. \A y, z \in Zones(d) : n.fx[y] = n.fx[z] /\ n.param[y] = n.param[z] BY <2>1 DEF Same
  <2> QED BY <2>6, <2>8, <2>9
<1> QED BY <1>1, <1>2

\* state_done() also brings the active level back into the table
LEMMA Done ==
    ASSUME NEW d \in Driver, NEW c, Config(d, c), Unprinted(d, c), d.kind = "mouse" => c.count > 0
    PROVE  Own(d, state_done(d, c))
<1> DEFINE n == alloy_light_normalize(d, c)
           r == state_done(d, c)
<1>1. /\ Config(d, n) /\ Unprinted(d, n) /\ SameMouse(c, n)
      /\ "global" \in d.caps => \A y, z \in Zones(d) : n.fx[y] = n.fx[z] /\ n.param[y] = n.param[z]
  BY NormalLegal, Normalizes
<1>2. r = IF d.kind = "mouse" /\ n.active >= n.count THEN [n EXCEPT !.active = n.count - 1] ELSE n
  BY DEF state_done
<1> HIDE DEF n, r
<1>3. /\ DOMAIN r = Fields /\ SameDev(n, r)
      /\ r.count = n.count /\ r.dpi = n.dpi /\ (d.kind # "mouse" => r = n)
      /\ d.kind = "mouse" => r.active = IF n.active >= n.count THEN n.count - 1 ELSE n.active
  BY <1>1, <1>2 DEF Config, Fields, SameDev
<1>4. /\ r.reacts = n.reacts /\ r.flash = n.flash /\ r.startup = n.startup
      /\ r.smart = n.smart /\ r.dim = n.dim /\ r.sleep = n.sleep /\ r.buttons = n.buttons
      /\ r.acceleration = n.acceleration /\ r.deceleration = n.deceleration
      /\ r.snapping = n.snapping /\ r.accel = n.accel
  BY <1>1, <1>2 DEF Config, Fields
<1>5. n.count \in 0..MaxLevels /\ n.active \in 0..(MaxLevels - 1) /\ n.count = c.count
  BY <1>1 DEF Config, LevelsOK, SameMouse
<1>6. d.kind = "mouse" => r.count \in 1..MaxLevels /\ r.active \in 0..(r.count - 1)
  BY <1>3, <1>5 DEF MaxLevels
<1>7. r.active \in 0..(MaxLevels - 1) BY <1>3, <1>5, <1>6 DEF MaxLevels
<1>8. Config(d, r)
  <2>1. DevOK(d, r) BY <1>1, <1>3, SameParts DEF Config
  <2>2. LevelsOK(r) BY <1>1, <1>3, <1>7 DEF Config, LevelsOK
  <2>3. MouseOK(d, n) BY <1>1 DEF Config
  <2>4. MouseOK(d, r) BY Zenon, <1>4, <2>3 DEF MouseOK
  <2> QED BY <1>3, <2>1, <2>2, <2>4 DEF Config
<1>9. Unprinted(d, r)
  <2>1. CASE d.kind = "mouse" BY Zenon, <1>1, <1>3, <1>4, <2>1 DEF Unprinted, SameDev
  <2>2. CASE d.kind # "mouse" BY <1>1, <1>3, <2>2
  <2> QED BY <2>1, <2>2
<1>10. Legal(d, r)
  <2>1. /\ r.bright \in 0..100 /\ r.dim \in 0..1200 /\ r.sleep \in 0..20 /\ r.startup \in 0..3
    BY <1>8 DEF Config, DevOK, MouseOK, Seconds
  <2>2. \A z \in Zones(d) : r.color[z] \in 0..(Colour - 1) /\ r.fx[z] \in 0..255
    BY <1>8 DEF Config, DevOK, Colours, Bytes
  <2>3. "global" \in d.caps => \A y, z \in Zones(d) : r.fx[y] = r.fx[z] /\ r.param[y] = r.param[z]
    <3>1. r.fx = n.fx /\ r.param = n.param BY <1>3 DEF SameDev
    <3> QED BY <1>1, <3>1
  <2> QED BY <1>6, <2>1, <2>2, <2>3 DEF Legal
<1> QED BY <1>8, <1>9, <1>10 DEF Own, r

\* Whatever the file says, what is loaded is a configuration of the driver's own.
LEMMA Loaded ==
    ASSUME NEW d \in Driver, NEW f, f = NoFile \/ \E g : f = <<g>> /\ FileOK(d, g)
    PROVE  Own(d, alloy_state_load(d, f))
<1>1. CASE f = NoFile BY <1>1, Defaults DEF alloy_state_load
<1>2. ASSUME NEW g, f = <<g>>, FileOK(d, g) PROVE Own(d, alloy_state_load(d, f))
  <2> DEFINE c == config_defaults(d)
  <2>1. Config(d, c) /\ Unprinted(d, c) BY Defaults DEF Own
  <2>2. d.kind = "mouse" => c.count > 0 BY Defaults DEF Own, Legal, MaxLevels
  <2> HIDE DEF c
  <2>3. Config(d, devcfg_state_load(c, g)) /\ Unprinted(d, devcfg_state_load(c, g))
        /\ SameMouse(c, devcfg_state_load(c, g))
    BY <1>2, <2>1, DevLoad
  <2>4. f # NoFile /\ f[1] = g BY <1>2 DEF NoFile
  <2>5. CASE d.kind = "mouse"
    <3>1. devcfg_state_load(c, g).count > 0 BY <2>2, <2>3, <2>5 DEF SameMouse
    <3>2. /\ Config(d, mouse_state_load(c, g)) /\ Unprinted(d, mouse_state_load(c, g))
          /\ mouse_state_load(c, g).count > 0
      BY <1>2, <2>3, <2>5, <3>1, OwnLoad DEF mouse_state_load
    <3>3. alloy_state_load(d, f) = state_done(d, mouse_state_load(c, g)) BY <2>4, <2>5 DEF alloy_state_load, c
    <3> QED BY <3>2, <3>3, Done
  <2>6. CASE d.kind # "mouse"
    <3>1. alloy_state_load(d, f) = state_done(d, devcfg_state_load(c, g)) BY <2>4, <2>6 DEF alloy_state_load, c
    <3> QED BY <2>3, <2>6, <3>1, Done
  <2> QED BY <2>5, <2>6
<1> QED BY <1>1, <1>2

-----------------------------------------------------------------------------
(* What is stored is what is loaded.                                           *)

\* a number prints as itself
LEMMA Numeral == \A v \in Int : Atoi(v) = v /\ v # Junk
  BY JunkAssumption DEF Atoi

\* reading back what was printed
LEMMA WordBack == \A v \in Words : Atoi(v) % Word = v
  BY Numeral, Widths DEF Words

LEMMA ByteBack == \A v \in Bytes : Byte(Atoi(v)) = v
  BY Numeral DEF Bytes, Byte, Clamp

LEMMA PercentBack == \A v \in 0..100 : Clamp(Atoi(v), 0, 100) = v
  BY Numeral DEF Clamp

LEMMA ReadsBack ==
    /\ \A v \in Words : Atoi(v) % Word = v
    /\ \A v \in Colours : v % Colour = v /\ v # Junk
    /\ \A v \in Bytes : Byte(Atoi(v)) = v /\ Atoi(v) % 256 = v
    /\ \A v \in SignedBytes : Signed(Atoi(v)) = v
    /\ \A v \in 0..100 : Clamp(Atoi(v), 0, 100) = v
    /\ \A v \in 1..MaxLevels : Clamp(Atoi(v), 1, MaxLevels) = v
    /\ \A v \in 0..(MaxLevels - 1) : Clamp(Atoi(v), 0, MaxLevels - 1) = v
    /\ \A v \in 0..3 : Clamp(Atoi(v), 0, 3) = v
    /\ \A v \in Seconds : Clamp(Atoi(v), 0, 1200) = v
    /\ \A v \in 0..20 : Clamp(Atoi(v), 0, 20) = v
    /\ \A b \in BOOLEAN : (Atoi(Bit(b)) # 0) = b
<1>1. \A v \in Words : Atoi(v) % Word = v BY WordBack
<1>2. \A v \in Colours : v % Colour = v /\ v # Junk BY Numeral, Widths DEF Colours
<1>3. \A v \in Bytes : Byte(Atoi(v)) = v /\ Atoi(v) % 256 = v BY Numeral DEF Bytes, Byte, Clamp
<1>4. \A v \in SignedBytes : Signed(Atoi(v)) = v BY Numeral DEF SignedBytes, Signed
<1>5. \A v \in 0..100 : Clamp(Atoi(v), 0, 100) = v BY PercentBack
<1>6. \A v \in 1..MaxLevels : Clamp(Atoi(v), 1, MaxLevels) = v BY Numeral DEF Clamp, MaxLevels
<1>7. \A v \in 0..(MaxLevels - 1) : Clamp(Atoi(v), 0, MaxLevels - 1) = v BY Numeral DEF Clamp, MaxLevels
<1>8. \A v \in 0..3 : Clamp(Atoi(v), 0, 3) = v BY Numeral DEF Clamp
<1>9. \A v \in Seconds : Clamp(Atoi(v), 0, 1200) = v BY Numeral DEF Clamp, Seconds
<1>10. \A v \in 0..20 : Clamp(Atoi(v), 0, 20) = v BY Numeral DEF Clamp
<1>11. \A b \in BOOLEAN : (Atoi(Bit(b)) # 0) = b BY Numeral DEF Bit
<1> QED BY ONLY <1>1, <1>2, <1>3, <1>4, <1>5, <1>6, <1>7, <1>8, <1>9, <1>10, <1>11

LEMMA DevRoundTrip ==
    ASSUME NEW d \in Driver, NEW c, Config(d, c), Unprinted(d, c), NEW f,
           <<"polling_hz", 0>> \in DOMAIN f <=> d.rates # <<>>,
           <<"brightness", 0>> \in DOMAIN f <=> "brightness" \in d.caps,
           \A z \in Zones(d) : <<"zone", z>> \in DOMAIN f,
           \A z : <<"zone_fx", z>> \in DOMAIN f <=> (d.fx > 1 /\ z \in Zones(d)),
           \A z : <<"zone_param", z>> \in DOMAIN f <=> (d.fx > 1 /\ z \in Zones(d)),
           \A k \in DOMAIN f : f[k] = Text(c, k),
           NEW b, Config(d, b), Unprinted(d, b), NEW r, r = devcfg_state_load(b, f)
    PROVE  SameDev(c, r)
<1>0. LoadsDev(d, b, f, r) BY DevFields
<1>1. DevOK(d, c) /\ DevOK(d, b) BY DEF Config
<1>2. r.polling = c.polling
  <2>1. r.polling = IF <<"polling_hz", 0>> \in DOMAIN f THEN Atoi(f[<<"polling_hz", 0>>]) % Word ELSE b.polling
    BY <1>0 DEF LoadsDev
  <2>2. CASE d.rates = <<>>
    <3>1. c.polling = 0 /\ b.polling = 0 BY <2>2 DEF Unprinted
    <3> QED BY <2>1, <2>2, <3>1
  <2>3. CASE d.rates # <<>>
    <3>1. f[<<"polling_hz", 0>>] = c.polling BY <2>3, TextOf
    <3>2. c.polling \in Words BY <1>1 DEF DevOK
    <3>3. Atoi(c.polling) % Word = c.polling BY ONLY Zenon, <3>2, WordBack
    <3> QED BY <2>1, <2>3, <3>1, <3>3
  <2> QED BY <2>2, <2>3
<1>3. r.bright = c.bright
  <2>1. r.bright = IF <<"brightness", 0>> \in DOMAIN f THEN Clamp(Atoi(f[<<"brightness", 0>>]), 0, 100)
                   ELSE b.bright
    BY <1>0 DEF LoadsDev
  <2>2. CASE "brightness" \notin d.caps
    <3>1. c.bright = 100 /\ b.bright = 100 BY <2>2 DEF Unprinted
    <3> QED BY <2>1, <2>2, <3>1
  <2>3. CASE "brightness" \in d.caps
    <3>1. f[<<"brightness", 0>>] = c.bright BY <2>3, TextOf
    <3>2. c.bright \in 0..100 BY <1>1 DEF DevOK
    <3>3. Clamp(Atoi(c.bright), 0, 100) = c.bright BY ONLY <3>2, PercentBack
    <3> QED BY <2>1, <2>3, <3>1, <3>3
  <2> QED BY <2>2, <2>3
<1>4. r.color = c.color
  <2>1. r.color = [z \in Zones(d) |-> IF <<"zone", z>> \in DOMAIN f /\ f[<<"zone", z>>] # Junk
                                      THEN f[<<"zone", z>>] % Colour ELSE b.color[z]]
    BY <1>0 DEF LoadsDev
  <2>2. c.color \in [Zones(d) -> Colours] BY <1>1 DEF DevOK
  <2>3. ASSUME NEW z \in Zones(d)
        PROVE  <<"zone", z>> \in DOMAIN f /\ f[<<"zone", z>>] # Junk /\ f[<<"zone", z>>] % Colour = c.color[z]
    <3>0. <<"zone", z>> \in DOMAIN f BY <2>3
    <3>1. f[<<"zone", z>>] = c.color[z]
      <4>1. f[<<"zone", z>>] = Text(c, <<"zone", z>>) BY <3>0
      <4> QED BY ONLY Zenon, <4>1, TextAt
    <3>2. c.color[z] \in Colours BY <2>2
    <3>3. c.color[z] # Junk /\ c.color[z] % Colour = c.color[z] BY ONLY <3>2, ReadsBack
    <3> QED BY ONLY <3>0, <3>1, <3>3
  <2> QED BY Zenon, <2>1, <2>2, <2>3
<1>5. r.fx = c.fx
  <2>1. r.fx = [z \in Zones(d) |-> IF <<"zone_fx", z>> \in DOMAIN f THEN Byte(Atoi(f[<<"zone_fx", z>>]))
                                   ELSE b.fx[z]]
    BY <1>0 DEF LoadsDev
  <2>2. c.fx \in [Zones(d) -> Bytes] /\ b.fx \in [Zones(d) -> Bytes] BY <1>1 DEF DevOK
  <2>3. CASE d.fx > 1
    <3>1. ASSUME NEW z \in Zones(d)
          PROVE  <<"zone_fx", z>> \in DOMAIN f /\ Byte(Atoi(f[<<"zone_fx", z>>])) = c.fx[z]
      <4>1. <<"zone_fx", z>> \in DOMAIN f BY <2>3
      <4>2. f[<<"zone_fx", z>>] = c.fx[z]
        <5>1. f[<<"zone_fx", z>>] = Text(c, <<"zone_fx", z>>) BY <4>1
        <5> QED BY ONLY Zenon, <5>1, TextAt
      <4>3. c.fx[z] \in Bytes BY <2>2
      <4> QED BY ONLY Zenon, <4>1, <4>2, <4>3, ByteBack
    <3> QED BY ONLY Zenon, <2>1, <2>2, <3>1
  <2>4. CASE ~(d.fx > 1)
    <3>1. c.fx = Same(d, 0) /\ b.fx = Same(d, 0) BY <2>4 DEF Unprinted
    <3>2. r.fx = b.fx BY Zenon, <2>1, <2>2, <2>4
    <3> QED BY <3>1, <3>2
  <2> QED BY <2>3, <2>4
<1>6. r.param = c.param
  <2>1. r.param = [z \in Zones(d) |-> IF <<"zone_param", z>> \in DOMAIN f
                                      THEN Byte(Atoi(f[<<"zone_param", z>>])) ELSE b.param[z]]
    BY <1>0 DEF LoadsDev
  <2>2. c.param \in [Zones(d) -> Bytes] /\ b.param \in [Zones(d) -> Bytes] BY <1>1 DEF DevOK
  <2>3. CASE d.fx > 1
    <3>1. ASSUME NEW z \in Zones(d)
          PROVE  <<"zone_param", z>> \in DOMAIN f /\ Byte(Atoi(f[<<"zone_param", z>>])) = c.param[z]
      <4>1. <<"zone_param", z>> \in DOMAIN f BY <2>3
      <4>2. f[<<"zone_param", z>>] = c.param[z]
        <5>1. f[<<"zone_param", z>>] = Text(c, <<"zone_param", z>>) BY <4>1
        <5> QED BY ONLY Zenon, <5>1, TextAt
      <4>3. c.param[z] \in Bytes BY <2>2
      <4> QED BY ONLY Zenon, <4>1, <4>2, <4>3, ByteBack
    <3> QED BY ONLY Zenon, <2>1, <2>2, <3>1
  <2>4. CASE ~(d.fx > 1)
    <3>1. c.param = Same(d, 5) /\ b.param = Same(d, 5) BY <2>4 DEF Unprinted
    <3>2. r.param = b.param BY Zenon, <2>1, <2>2, <2>4
    <3> QED BY <3>1, <3>2
  <2> QED BY <2>3, <2>4
<1> QED BY <1>2, <1>3, <1>4, <1>5, <1>6 DEF SameDev

LEMMA MousePrinted ==
    ASSUME NEW d, d.kind = "mouse", NEW c, NEW f, f = state_save(d, c)
    PROVE  Printed(d, c, f)
<1> DEFINE Has(w) == <<w, 0>> \in DOMAIN f
           At0(w) == f[<<w, 0>>]
<1>1. f = [k \in mouse_state_lines(d, c) |-> Text(c, k)] BY Zenon DEF state_save
<1>2. DOMAIN f = mouse_state_lines(d, c) /\ \A k \in DOMAIN f : f[k] = Text(c, k) BY Zenon, <1>1
<1>3. /\ \A w \in {"dpi_count", "dpi_active", "acceleration", "deceleration", "angle_snapping", "accel_enabled"} :
            Has(w)
      /\ \A z : <<"dpi", z>> \in DOMAIN f <=> z \in 1..c.count
      /\ \A z : <<"button", z>> \in DOMAIN f <=> z \in DOMAIN d.buttons
      /\ Has("reactive") <=> "reactive" \in d.caps
      /\ Has("startup_fx") <=> "startup" \in d.caps
      /\ \A w \in {"illum_smart", "illum_dim_s", "sleep_min"} : Has(w) <=> "battery" \in d.caps
  BY ONLY <1>2, MouseLines
<1>4. /\ At0("dpi_count") = c.count /\ At0("dpi_active") = c.active
      /\ At0("acceleration") = c.acceleration /\ At0("deceleration") = c.deceleration
      /\ At0("angle_snapping") = c.snapping /\ At0("accel_enabled") = Bit(c.accel)
  <2>1. \A w \in {"dpi_count", "dpi_active", "acceleration", "deceleration", "angle_snapping", "accel_enabled"} :
            At0(w) = Text(c, <<w, 0>>)
    BY ONLY <1>2, <1>3
  <2>2. /\ At0("dpi_count") = Text(c, <<"dpi_count", 0>>)
        /\ At0("dpi_active") = Text(c, <<"dpi_active", 0>>)
        /\ At0("acceleration") = Text(c, <<"acceleration", 0>>)
        /\ At0("deceleration") = Text(c, <<"deceleration", 0>>)
        /\ At0("angle_snapping") = Text(c, <<"angle_snapping", 0>>)
        /\ At0("accel_enabled") = Text(c, <<"accel_enabled", 0>>)
    BY ONLY <2>1
  <2> QED BY ONLY <2>2, TextOf
<1>5. \A i \in 1..c.count : <<"dpi", i>> \in DOMAIN f /\ f[<<"dpi", i>>] = c.dpi[i]
  <2>1. \A i : Text(c, <<"dpi", i>>) = c.dpi[i] BY ONLY Zenon, TextAt
  <2> QED BY ONLY Zenon, <1>2, <1>3, <2>1
<1>6. \A b \in DOMAIN d.buttons : <<"button", b>> \in DOMAIN f /\ f[<<"button", b>>] = c.buttons[b]
  <2>1. \A b : Text(c, <<"button", b>>) = c.buttons[b] BY ONLY Zenon, TextAt
  <2> QED BY ONLY Zenon, <1>2, <1>3, <2>1
<1>7. IF "reactive" \in d.caps
      THEN Has("reactive") /\ At0("reactive") = IF c.reacts THEN c.flash ELSE Junk
      ELSE ~Has("reactive")
  <2>1. Text(c, <<"reactive", 0>>) = IF c.reacts THEN c.flash ELSE Junk BY ONLY TextOf
  <2>2. Has("reactive") => At0("reactive") = Text(c, <<"reactive", 0>>) BY ONLY Zenon, <1>2
  <2> QED BY ONLY Zenon, <1>3, <2>1, <2>2
<1>8. IF "startup" \in d.caps
      THEN Has("startup_fx") /\ At0("startup_fx") = c.startup
      ELSE ~Has("startup_fx")
  <2>1. Text(c, <<"startup_fx", 0>>) = c.startup BY ONLY TextOf
  <2> QED BY ONLY Zenon, <1>2, <1>3, <2>1
<1>9. IF "battery" \in d.caps
      THEN /\ Has("illum_smart") /\ At0("illum_smart") = Bit(c.smart)
           /\ Has("illum_dim_s") /\ At0("illum_dim_s") = c.dim
           /\ Has("sleep_min") /\ At0("sleep_min") = c.sleep
      ELSE \A w \in {"illum_smart", "illum_dim_s", "sleep_min"} : ~Has(w)
  <2>1. /\ Text(c, <<"illum_smart", 0>>) = Bit(c.smart) /\ Text(c, <<"illum_dim_s", 0>>) = c.dim
        /\ Text(c, <<"sleep_min", 0>>) = c.sleep
    BY ONLY TextOf
  <2>2. /\ Has("illum_smart") <=> "battery" \in d.caps
        /\ Has("illum_dim_s") <=> "battery" \in d.caps
        /\ Has("sleep_min") <=> "battery" \in d.caps
    BY ONLY <1>3
  <2>3. "battery" \notin d.caps => \A w \in {"illum_smart", "illum_dim_s", "sleep_min"} : ~Has(w)
    BY ONLY <1>3
  <2> QED BY ONLY Zenon, <1>2, <2>1, <2>2, <2>3
<1> QED BY ONLY Zenon, <1>2, <1>3, <1>4, <1>5, <1>6, <1>7, <1>8, <1>9 DEF Printed

LEMMA PairBack ==
    /\ \A p \in Pair : p # Junk /\ <<p[1] % Word, p[2] % Word>> = p
    /\ \A a \in Action : a # Junk /\ <<a[1], a[2] % Word>> = a
<1>1. ASSUME NEW p \in Pair PROVE p # Junk /\ <<p[1] % Word, p[2] % Word>> = p
  <2>1. p[1] \in Words /\ p[2] \in Words /\ p = <<p[1], p[2]>> BY DEF Pair
  <2>2. p[1] \in Int /\ p[2] \in Int BY <2>1, Widths DEF Words
  <2>3. p \in Int \X Int BY <2>1, <2>2
  <2>4. p[1] % Word = p[1] /\ p[2] % Word = p[2] BY <2>1, Widths DEF Words
  <2>5. p # Junk BY <2>3, JunkAssumption
  <2> QED BY <2>1, <2>4, <2>5
<1>2. ASSUME NEW a \in Action PROVE a # Junk /\ <<a[1], a[2] % Word>> = a
  <2>1. a[1] \in ActionType /\ a[2] \in Words /\ a = <<a[1], a[2]>> BY DEF Action
  <2>2. a[2] \in Int BY <2>1, Widths DEF Words
  <2>3. a \in ActionType \X Int BY <2>1, <2>2
  <2>4. a[2] % Word = a[2] BY <2>1, Widths DEF Words
  <2>5. a # Junk BY <2>3, JunkAssumption
  <2> QED BY <2>1, <2>4, <2>5
<1> QED BY <1>1, <1>2

LEMMA OwnRoundTrip ==
    ASSUME NEW d \in Driver, d.kind = "mouse", NEW c, Own(d, c), NEW f, f = state_save(d, c),
           NEW b, Config(d, b), Unprinted(d, b), SameDev(c, b), NEW r, r = own_state_load(b, f)
    PROVE  SameSaved(c, r) /\ DOMAIN r = Fields
<1> DEFINE Has(w) == <<w, 0>> \in DOMAIN f
           At0(w) == f[<<w, 0>>]
<1>0. LoadsMouse(d, b, f, r)
  <2>1. DOMAIN b = Fields /\ DOMAIN b.dpi = 1..MaxLevels /\ DOMAIN b.buttons = DOMAIN d.buttons
    BY DEF Config, LevelsOK, MouseOK
  <2> QED BY <2>1, MouseFields
<1>14. Printed(d, c, f) BY MousePrinted
<1>1. DOMAIN r = Fields /\ SameDev(c, r) BY ONLY Zenon, <1>0, SameDev(c, b) DEF LoadsMouse, SameDev
<1>2. LevelsOK(c) /\ MouseOK(d, c) /\ LevelsOK(b) /\ MouseOK(d, b) /\ Legal(d, c) BY DEF Own, Config
<1>3. Unprinted(d, c) BY DEF Own
<1>4. r.count = c.count
  <2>1. c.count \in 1..MaxLevels BY ONLY <1>2, d.kind = "mouse" DEF Legal
  <2>2. Has("dpi_count") /\ At0("dpi_count") = c.count BY ONLY <1>14 DEF Printed
  <2>3. r.count = Clamp(Atoi(c.count), 1, MaxLevels) BY ONLY Zenon, <1>0, <2>2 DEF LoadsMouse
  <2> QED BY ONLY <2>1, <2>3, ReadsBack
<1>5. r.active = c.active
  <2>1. c.active \in 0..(MaxLevels - 1) BY ONLY <1>2 DEF LevelsOK
  <2>2. Has("dpi_active") /\ At0("dpi_active") = c.active BY ONLY <1>14 DEF Printed
  <2>3. r.active = Clamp(Atoi(c.active), 0, MaxLevels - 1) BY ONLY Zenon, <1>0, <2>2 DEF LoadsMouse
  <2> QED BY ONLY <2>1, <2>3, ReadsBack
<1>6. \A i \in 1..c.count : r.dpi[i] = c.dpi[i]
  <2>1. SUFFICES ASSUME NEW i \in 1..c.count PROVE r.dpi[i] = c.dpi[i] OBVIOUS
  <2>2. i \in 1..MaxLevels BY ONLY <1>2, i \in 1..c.count DEF LevelsOK, MaxLevels
  <2>3. c.dpi[i] \in Pair BY ONLY <1>2, <2>2 DEF LevelsOK
  <2>4. <<"dpi", i>> \in DOMAIN f /\ f[<<"dpi", i>>] = c.dpi[i] BY ONLY <1>14 DEF Printed
  <2>5. c.dpi[i] # Junk /\ <<c.dpi[i][1] % Word, c.dpi[i][2] % Word>> = c.dpi[i] BY ONLY Zenon, <2>3, PairBack
  <2>6. r.dpi[i] = IF <<"dpi", i>> \in DOMAIN f /\ f[<<"dpi", i>>] # Junk
                   THEN <<f[<<"dpi", i>>][1] % Word, f[<<"dpi", i>>][2] % Word>> ELSE b.dpi[i]
    BY ONLY Zenon, <1>0, <2>2 DEF LoadsMouse
  <2> QED BY ONLY <2>4, <2>5, <2>6
<1>7. r.reacts = c.reacts /\ (c.reacts => r.flash = c.flash)
  <2>1. /\ r.reacts = IF Has("reactive") THEN At0("reactive") # Junk ELSE b.reacts
        /\ r.flash = IF Has("reactive") /\ At0("reactive") # Junk
                     THEN At0("reactive") % Colour ELSE b.flash
    BY ONLY Zenon, <1>0 DEF LoadsMouse
  <2>2. c.reacts \in BOOLEAN /\ c.flash \in Colours BY ONLY Zenon, <1>2 DEF MouseOK
  <2>3. c.flash % Colour = c.flash /\ c.flash # Junk BY ONLY <2>2, ReadsBack
  <2>4. CASE "reactive" \in d.caps
    <3>1. Has("reactive") /\ At0("reactive") = IF c.reacts THEN c.flash ELSE Junk
      BY ONLY Zenon, <2>4, <1>14 DEF Printed
    <3>2. CASE c.reacts BY ONLY Zenon, <2>1, <2>2, <2>3, <3>1, <3>2
    <3>3. CASE ~c.reacts BY ONLY Zenon, <2>1, <2>2, <3>1, <3>3
    <3> QED BY ONLY Zenon, <3>2, <3>3
  <2>5. CASE "reactive" \notin d.caps
    <3>1. ~Has("reactive") BY ONLY Zenon, <2>5, <1>14 DEF Printed
    <3>2. c.reacts = FALSE /\ b.reacts = FALSE BY Zenon, <1>3, <2>5 DEF Unprinted
    <3> QED BY ONLY Zenon, <2>1, <3>1, <3>2
  <2> QED BY ONLY Zenon, <2>4, <2>5
<1>8. r.startup = c.startup
  <2>1. r.startup = IF Has("startup_fx") THEN Clamp(Atoi(At0("startup_fx")), 0, 3)
                    ELSE b.startup
    BY ONLY Zenon, <1>0 DEF LoadsMouse
  <2>2. c.startup \in 0..3 BY ONLY Zenon, <1>2 DEF MouseOK
  <2>3. CASE "startup" \in d.caps
    <3>1. Has("startup_fx") /\ At0("startup_fx") = c.startup BY ONLY Zenon, <2>3, <1>14 DEF Printed
    <3>2. Clamp(Atoi(c.startup), 0, 3) = c.startup BY ONLY <2>2, ReadsBack
    <3> QED BY ONLY Zenon, <2>1, <3>1, <3>2
  <2>4. CASE "startup" \notin d.caps
    <3>1. ~Has("startup_fx") BY ONLY Zenon, <2>4, <1>14 DEF Printed
    <3>2. c.startup = config_defaults(d).startup /\ b.startup = config_defaults(d).startup
      BY Zenon, <1>3, <2>4 DEF Unprinted
    <3> QED BY ONLY Zenon, <2>1, <3>1, <3>2
  <2> QED BY ONLY Zenon, <2>3, <2>4
<1>9. r.smart = c.smart /\ r.dim = c.dim /\ r.sleep = c.sleep
  <2>1. /\ r.smart = IF Has("illum_smart") THEN Atoi(At0("illum_smart")) # 0 ELSE b.smart
        /\ r.dim = IF Has("illum_dim_s") THEN Clamp(Atoi(At0("illum_dim_s")), 0, 1200)
                   ELSE b.dim
        /\ r.sleep = IF Has("sleep_min") THEN Clamp(Atoi(At0("sleep_min")), 0, 20)
                     ELSE b.sleep
    BY ONLY <1>0 DEF LoadsMouse
  <2>2. c.smart \in BOOLEAN /\ c.dim \in Seconds /\ c.sleep \in 0..20 BY ONLY Zenon, <1>2 DEF MouseOK
  <2>3. CASE "battery" \in d.caps
    <3>1. /\ Has("illum_smart") /\ At0("illum_smart") = Bit(c.smart)
          /\ Has("illum_dim_s") /\ At0("illum_dim_s") = c.dim
          /\ Has("sleep_min") /\ At0("sleep_min") = c.sleep
      BY ONLY Zenon, <2>3, <1>14 DEF Printed
    <3>2. (Atoi(Bit(c.smart)) # 0) = c.smart BY ONLY <2>2, ReadsBack
    <3>3. Clamp(Atoi(c.dim), 0, 1200) = c.dim BY ONLY <2>2, ReadsBack
    <3>4. Clamp(Atoi(c.sleep), 0, 20) = c.sleep BY ONLY <2>2, ReadsBack
    <3>5. r.smart = c.smart BY ONLY <2>1, <3>1, <3>2
    <3>6. r.dim = c.dim BY ONLY <2>1, <3>1, <3>3
    <3>7. r.sleep = c.sleep BY ONLY <2>1, <3>1, <3>4
    <3> QED BY ONLY <3>5, <3>6, <3>7
  <2>4. CASE "battery" \notin d.caps
    <3>1. /\ ~Has("illum_smart") /\ ~Has("illum_dim_s")
          /\ ~Has("sleep_min")
      BY ONLY Zenon, <2>4, <1>14 DEF Printed
    <3>2. /\ c.smart = FALSE /\ c.dim = 0 /\ c.sleep = 0
          /\ b.smart = FALSE /\ b.dim = 0 /\ b.sleep = 0
      BY Zenon, <1>3, <2>4 DEF Unprinted
    <3> QED BY ONLY ZenonT(30), <2>1, <3>1, <3>2
  <2> QED BY ONLY <2>3, <2>4
<1>10. r.buttons = c.buttons
  <2>1. r.buttons = [x \in DOMAIN d.buttons |->
                       IF <<"button", x>> \in DOMAIN f /\ f[<<"button", x>>] # Junk
                       THEN <<f[<<"button", x>>][1], f[<<"button", x>>][2] % Word>> ELSE b.buttons[x]]
    BY ONLY Zenon, <1>0 DEF LoadsMouse
  <2>2. c.buttons \in [DOMAIN d.buttons -> Action] BY ONLY Zenon, <1>2 DEF MouseOK
  <2>3. \A x \in DOMAIN d.buttons : <<"button", x>> \in DOMAIN f /\ f[<<"button", x>>] = c.buttons[x]
    BY ONLY Zenon, <1>14 DEF Printed
  <2>4. ASSUME NEW x \in DOMAIN d.buttons
        PROVE  /\ <<"button", x>> \in DOMAIN f /\ f[<<"button", x>>] # Junk
               /\ <<f[<<"button", x>>][1], f[<<"button", x>>][2] % Word>> = c.buttons[x]
    <3>1. <<"button", x>> \in DOMAIN f /\ f[<<"button", x>>] = c.buttons[x] BY ONLY <2>3, x \in DOMAIN d.buttons
    <3>2. c.buttons[x] \in Action BY ONLY Zenon, <2>2, x \in DOMAIN d.buttons
    <3>3. c.buttons[x] # Junk /\ <<c.buttons[x][1], c.buttons[x][2] % Word>> = c.buttons[x]
      BY ONLY Zenon, <3>2, PairBack
    <3> QED BY ONLY <3>1, <3>3
  <2> QED BY ONLY Zenon, <2>1, <2>2, <2>4
<1>11. /\ r.acceleration = c.acceleration /\ r.deceleration = c.deceleration
       /\ r.snapping = c.snapping /\ r.accel = c.accel
  <2>1. /\ Has("acceleration") /\ Has("deceleration")
        /\ Has("angle_snapping") /\ Has("accel_enabled")
        /\ At0("acceleration") = c.acceleration /\ At0("deceleration") = c.deceleration
        /\ At0("angle_snapping") = c.snapping /\ At0("accel_enabled") = Bit(c.accel)
    BY ONLY <1>14 DEF Printed
  <2>2. /\ c.acceleration \in SignedBytes /\ c.deceleration \in SignedBytes /\ c.snapping \in Bytes
        /\ c.accel \in BOOLEAN
    BY ONLY Zenon, <1>2 DEF MouseOK
  <2>3. /\ r.acceleration = Signed(Atoi(c.acceleration)) /\ r.deceleration = Signed(Atoi(c.deceleration))
        /\ r.snapping = Atoi(c.snapping) % 256 /\ r.accel = (Atoi(Bit(c.accel)) # 0)
    BY ONLY Zenon, <1>0, <2>1 DEF LoadsMouse
  <2>4. /\ Signed(Atoi(c.acceleration)) = c.acceleration /\ Signed(Atoi(c.deceleration)) = c.deceleration
        /\ Atoi(c.snapping) % 256 = c.snapping
    BY ONLY <2>2, ReadsBack
  <2>5. (Atoi(Bit(c.accel)) # 0) = c.accel BY ONLY <2>2, ReadsBack
  <2> QED BY ONLY Zenon, <2>3, <2>4, <2>5
<1> QED BY ONLY Zenon, <1>1, <1>4, <1>5, <1>6, <1>7, <1>8, <1>9, <1>10, <1>11 DEF SameSaved

\* state_done() leaves a configuration alone that is legal
LEMMA DoneSame ==
    ASSUME NEW d \in Driver, NEW c, Config(d, c), NEW s, s = state_done(d, c),
           d.kind = "mouse" => c.active \in 0..(c.count - 1),
           "global" \in d.caps => \A y, z \in Zones(d) : c.fx[y] = c.fx[z] /\ c.param[y] = c.param[z]
    PROVE  DOMAIN s = Fields /\ SameDev(c, s) /\ SameMouse(c, s)
<1> DEFINE n == alloy_light_normalize(d, c)
<1>1. /\ DOMAIN n = Fields /\ SameMouse(c, n)
      /\ n.polling = c.polling /\ n.bright = c.bright /\ n.color = c.color
      /\ "global" \notin d.caps => n = c
      /\ "global" \in d.caps => \E z : /\ Zones(d) # {} => z \in Zones(d)
                                       /\ n.fx = Same(d, c.fx[z]) /\ n.param = Same(d, c.param[z])
  BY Normalizes
<1>2. s = IF d.kind = "mouse" /\ n.active >= n.count THEN [n EXCEPT !.active = n.count - 1] ELSE n
  BY DEF state_done
<1> HIDE DEF n
<1>3. s = n
  <2>1. n.active = c.active /\ n.count = c.count BY ONLY Zenon, <1>1 DEF SameMouse
  <2>2. c.count \in 0..MaxLevels BY DEF Config, LevelsOK
  <2>3. ~(d.kind = "mouse" /\ n.active >= n.count) BY <2>1, <2>2 DEF MaxLevels
  <2> QED BY ONLY Zenon, <1>2, <2>3
<1>4. n.fx = c.fx /\ n.param = c.param
  <2>1. CASE "global" \notin d.caps BY <1>1, <2>1
  <2>2. CASE "global" \in d.caps
    <3>1. PICK z : /\ Zones(d) # {} => z \in Zones(d)
                   /\ n.fx = Same(d, c.fx[z]) /\ n.param = Same(d, c.param[z])
      BY <1>1, <2>2
    <3>2. c.fx \in [Zones(d) -> Bytes] /\ c.param \in [Zones(d) -> Bytes] BY DEF Config, DevOK
    <3>3. \A y \in Zones(d) : c.fx[y] = c.fx[z] /\ c.param[y] = c.param[z] BY <2>2, <3>1
    <3> QED BY ONLY Zenon, <3>1, <3>2, <3>3 DEF Same
  <2> QED BY <2>1, <2>2
<1> QED BY ONLY Zenon, <1>1, <1>3, <1>4 DEF SameDev

\* what the file keeps of two configurations is the same
LEMMA StoredSame ==
    ASSUME NEW c, NEW r, DOMAIN c = Fields, DOMAIN r = Fields, SameSaved(c, r)
    PROVE  Stored(r) = Stored(c)
<1> DEFINE lc == [i \in 1..c.count |-> c.dpi[i]]
           lr == [i \in 1..r.count |-> r.dpi[i]]
           fc == IF c.reacts THEN c.flash ELSE 0
           fr == IF r.reacts THEN r.flash ELSE 0
<1>1. lr = lc /\ fr = fc
  <2>1. r.count = c.count /\ \A i \in 1..c.count : r.dpi[i] = c.dpi[i] BY ONLY Zenon, SameSaved(c, r) DEF SameSaved
  <2>2. r.reacts = c.reacts /\ (c.reacts => r.flash = c.flash) BY ONLY Zenon, SameSaved(c, r) DEF SameSaved
  <2>3. lr = lc BY ONLY <2>1
  <2>4. fr = fc BY ONLY Zenon, <2>2
  <2> QED BY ONLY <2>3, <2>4
<1>2. Stored(c) = [c EXCEPT !.dpi = lc, !.flash = fc] /\ Stored(r) = [r EXCEPT !.dpi = lr, !.flash = fr]
  BY DEF Stored
<1> HIDE DEF lc, lr, fc, fr
<1>3. \A k \in Fields \ {"dpi", "flash"} : r[k] = c[k]
  BY ONLY Zenon, SameSaved(c, r) DEF SameSaved, SameDev, Fields
<1>4. [c EXCEPT !.dpi = lc, !.flash = fc]
          = [k \in Fields |-> IF k = "flash" THEN fc ELSE IF k = "dpi" THEN lc ELSE c[k]]
  BY ONLY Zenon, DOMAIN c = Fields DEF Fields
<1>5. [r EXCEPT !.dpi = lr, !.flash = fr]
          = [k \in Fields |-> IF k = "flash" THEN fr ELSE IF k = "dpi" THEN lr ELSE r[k]]
  BY ONLY Zenon, DOMAIN r = Fields DEF Fields
<1> QED BY ONLY Zenon, <1>1, <1>2, <1>3, <1>4, <1>5

LEMMA DevcfgCases ==
    ASSUME NEW d, NEW k \in devcfg_state_lines(d)
    PROVE  \/ k = <<"polling_hz", 0>> \/ k = <<"brightness", 0>>
           \/ \E z \in Zones(d) : k = <<"zone", z>> \/ k = <<"zone_fx", z>> \/ k = <<"zone_param", z>>
  BY DEF devcfg_state_lines, If

LEMMA MouseCases ==
    ASSUME NEW d, NEW c, NEW k \in mouse_state_lines(d, c)
    PROVE  \/ k \in devcfg_state_lines(d)
           \/ \E i \in 1..c.count : k = <<"dpi", i>>
           \/ \E b \in DOMAIN d.buttons : k = <<"button", b>>
           \/ \E w \in {"dpi_count", "dpi_active", "reactive", "startup_fx", "illum_smart", "illum_dim_s",
                        "sleep_min", "acceleration", "deceleration", "angle_snapping", "accel_enabled"} :
                 k = <<w, 0>>
  BY DEF mouse_state_lines, If

\* what is saved could have been written by hand
LEMMA SavedFile ==
    ASSUME NEW d \in Driver, NEW c, Config(d, c)
    PROVE  FileOK(d, state_save(d, c))
<1> DEFINE f == state_save(d, c)
<1>1. f = [k \in IF d.kind = "mouse" THEN mouse_state_lines(d, c) ELSE devcfg_state_lines(d) |-> Text(c, k)]
  BY DEF state_save
<1>2. \A k \in DOMAIN f : f[k] = Text(c, k) BY ONLY Zenon, <1>1
<1>3. DOMAIN f \subseteq Lines(d)
  <2>1. CASE d.kind = "mouse"
    <3>1. c.count \in 0..MaxLevels BY DEF Config, LevelsOK
    <3>2. [count |-> MaxLevels].count = MaxLevels OBVIOUS
    <3>3. 1..c.count \subseteq 1..MaxLevels BY <3>1 DEF MaxLevels
    <3>4. mouse_state_lines(d, c) \subseteq mouse_state_lines(d, [count |-> MaxLevels])
      BY ONLY <3>2, <3>3 DEF mouse_state_lines
    <3> QED BY ONLY Zenon, <1>1, <2>1, <3>4 DEF Lines
  <2>2. CASE d.kind # "mouse" BY ONLY Zenon, <1>1, <2>2 DEF Lines
  <2> QED BY <2>1, <2>2
<1>4. /\ c.polling \in Int /\ c.bright \in Int /\ c.count \in Int /\ c.active \in Int
      /\ c.flash \in Int /\ c.startup \in Int /\ c.dim \in Int /\ c.sleep \in Int
      /\ c.acceleration \in Int /\ c.deceleration \in Int /\ c.snapping \in Int
      /\ \A z \in Zones(d) : c.color[z] \in Int /\ c.fx[z] \in Int /\ c.param[z] \in Int
  <2>1. /\ c.polling \in Int /\ c.bright \in Int
        /\ \A z \in Zones(d) : c.color[z] \in Int /\ c.fx[z] \in Int /\ c.param[z] \in Int
    <3>1. DevOK(d, c) BY DEF Config
    <3>2. /\ c.polling \in Words /\ c.bright \in 0..100
          /\ c.color \in [Zones(d) -> Colours] /\ c.fx \in [Zones(d) -> Bytes] /\ c.param \in [Zones(d) -> Bytes]
      BY ONLY Zenon, <3>1 DEF DevOK
    <3>3. Words \subseteq Int /\ Colours \subseteq Int /\ Bytes \subseteq Int
      BY ONLY Widths DEF Words, Colours, Bytes
    <3>4. c.polling \in Int /\ c.bright \in Int
      <4>1. c.polling \in Int BY ONLY Zenon, <3>2, <3>3
      <4>2. c.bright \in 0..100 BY ONLY Zenon, <3>2
      <4>3. c.bright \in Int BY ONLY <4>2
      <4> QED BY ONLY <4>1, <4>3
    <3>5. ASSUME NEW z \in Zones(d) PROVE c.color[z] \in Int /\ c.fx[z] \in Int /\ c.param[z] \in Int
      BY ONLY <3>2, <3>3
    <3> QED BY ONLY Zenon, <3>4, <3>5
  <2>2. c.count \in Int /\ c.active \in Int BY DEF Config, LevelsOK
  <2>3. /\ c.flash \in Int /\ c.startup \in Int /\ c.dim \in Int /\ c.sleep \in Int
        /\ c.acceleration \in Int /\ c.deceleration \in Int /\ c.snapping \in Int
    <3>1. MouseOK(d, c) BY DEF Config
    <3>2. /\ c.flash \in Colours /\ c.startup \in 0..3 /\ c.dim \in Seconds /\ c.sleep \in 0..20
          /\ c.acceleration \in SignedBytes /\ c.deceleration \in SignedBytes /\ c.snapping \in Bytes
      BY ONLY Zenon, <3>1 DEF MouseOK
    <3>3. c.flash \in Int BY ONLY <3>2, Widths DEF Colours
    <3>4. c.dim \in Int BY ONLY <3>2 DEF Seconds
    <3>5. c.acceleration \in Int /\ c.deceleration \in Int BY ONLY <3>2 DEF SignedBytes
    <3>6. c.snapping \in Int BY ONLY <3>2 DEF Bytes
    <3> QED BY ONLY <3>2, <3>3, <3>4, <3>5, <3>6
  <2> QED BY <2>1, <2>2, <2>3
<1>5. \A v : Bit(v) \in Int BY DEF Bit
<1>6. ASSUME NEW k \in devcfg_state_lines(d) PROVE Legible(k, Text(c, k))
  <2>1. CASE k = <<"polling_hz", 0>> BY Zenon, <1>4, <2>1, TextOf DEF Legible
  <2>2. CASE k = <<"brightness", 0>> BY Zenon, <1>4, <2>2, TextOf DEF Legible
  <2>3. ASSUME NEW z \in Zones(d), k = <<"zone", z>> \/ k = <<"zone_fx", z>> \/ k = <<"zone_param", z>>
        PROVE  Legible(k, Text(c, k))
    <3>1. Text(c, <<"zone", z>>) = c.color[z] BY ONLY Zenon, TextAt
    <3>2. Text(c, <<"zone_fx", z>>) = c.fx[z] BY ONLY Zenon, TextAt
    <3>3. Text(c, <<"zone_param", z>>) = c.param[z] BY ONLY Zenon, TextAt
    <3>4. c.color[z] \in Int /\ c.fx[z] \in Int /\ c.param[z] \in Int BY <1>4
    <3>5. CASE k = <<"zone", z>> BY ONLY Zenon, <3>1, <3>4, <3>5 DEF Legible
    <3>6. CASE k = <<"zone_fx", z>> BY ONLY Zenon, <3>2, <3>4, <3>6 DEF Legible
    <3>7. CASE k = <<"zone_param", z>> BY ONLY Zenon, <3>3, <3>4, <3>7 DEF Legible
    <3> QED BY <2>3, <3>5, <3>6, <3>7
  <2> QED BY <2>1, <2>2, <2>3, DevcfgCases
<1>7. ASSUME NEW i \in 1..c.count PROVE Legible(<<"dpi", i>>, Text(c, <<"dpi", i>>))
  <2>1. c.count \in 0..MaxLevels /\ c.dpi \in [1..MaxLevels -> Pair] BY DEF Config, LevelsOK
  <2>2. i \in 1..MaxLevels BY <2>1 DEF MaxLevels
  <2>3. c.dpi[i] \in Words \X Words BY <2>1, <2>2 DEF Pair
  <2>4. c.dpi[i] \in Int \X Int BY <2>3, Widths DEF Words
  <2>5. Text(c, <<"dpi", i>>) = c.dpi[i] BY ONLY Zenon, TextAt
  <2> QED BY ONLY Zenon, <2>4, <2>5 DEF Legible
<1>8. ASSUME NEW b \in DOMAIN d.buttons PROVE Legible(<<"button", b>>, Text(c, <<"button", b>>))
  <2>1. c.buttons[b] \in ActionType \X Words BY DEF Config, MouseOK, Action
  <2>2. c.buttons[b] \in ActionType \X Int BY <2>1, Widths DEF Words
  <2>3. Text(c, <<"button", b>>) = c.buttons[b] BY ONLY Zenon, TextAt
  <2> QED BY ONLY Zenon, <2>2, <2>3 DEF Legible
<1>9. ASSUME NEW w \in {"dpi_count", "dpi_active", "reactive", "startup_fx", "illum_smart", "illum_dim_s",
                        "sleep_min", "acceleration", "deceleration", "angle_snapping", "accel_enabled"}
      PROVE  Legible(<<w, 0>>, Text(c, <<w, 0>>))
  <2>1. Text(c, <<w, 0>>) \in Int \cup {Junk}
    <3>1. /\ Text(c, <<"dpi_count", 0>>) \in Int /\ Text(c, <<"dpi_active", 0>>) \in Int
          /\ Text(c, <<"startup_fx", 0>>) \in Int /\ Text(c, <<"illum_smart", 0>>) \in Int
          /\ Text(c, <<"illum_dim_s", 0>>) \in Int /\ Text(c, <<"sleep_min", 0>>) \in Int
          /\ Text(c, <<"acceleration", 0>>) \in Int /\ Text(c, <<"deceleration", 0>>) \in Int
          /\ Text(c, <<"angle_snapping", 0>>) \in Int /\ Text(c, <<"accel_enabled", 0>>) \in Int
      BY ONLY <1>4, <1>5, TextOf
    <3>2. Text(c, <<"reactive", 0>>) \in Int \cup {Junk}
      <4>1. Text(c, <<"reactive", 0>>) = IF c.reacts THEN c.flash ELSE Junk BY ONLY TextOf
      <4> QED BY ONLY Zenon, <1>4, <4>1
    <3> QED BY Zenon, <3>1, <3>2
  <2>2. w # "dpi" /\ w # "button" OBVIOUS
  <2>3. <<w, 0>>[1] = w OBVIOUS
  <2> QED BY ONLY Zenon, <2>1, <2>2, <2>3 DEF Legible
<1>10. \A k \in DOMAIN f : Legible(k, f[k])
  <2>1. SUFFICES ASSUME NEW k \in DOMAIN f PROVE Legible(k, Text(c, k)) BY <1>2
  <2>2. CASE d.kind = "mouse"
    <3>1. k \in mouse_state_lines(d, c) BY <1>1, <2>2
    <3> QED BY Zenon, <1>6, <1>7, <1>8, <1>9, <3>1, MouseCases
  <2>3. CASE d.kind # "mouse"
    <3>1. k \in devcfg_state_lines(d) BY <1>1, <2>3
    <3> QED BY <1>6, <3>1
  <2> QED BY <2>2, <2>3
<1> QED BY <1>3, <1>10 DEF FileOK

\* What is stored is what is loaded.
LEMMA RoundTrip ==
    ASSUME NEW d \in Driver, NEW c, Own(d, c)
    PROVE  Stored(alloy_state_load(d, <<state_save(d, c)>>)) = Stored(c)
<1> DEFINE f == state_save(d, c)
           b == config_defaults(d)
           v == devcfg_state_load(b, f)
           m == IF d.kind = "mouse" THEN own_state_load(v, f) ELSE v
           s == state_done(d, m)
<1>1. alloy_state_load(d, <<f>>) = s
  <2>1. <<f>> # NoFile BY DEF NoFile
  <2>2. <<f>>[1] = f OBVIOUS
  <2> QED BY <2>1, <2>2 DEF alloy_state_load, mouse_state_load
<1>2. Config(d, b) /\ Unprinted(d, b) BY Defaults DEF Own
<1>3. Config(d, c) /\ Unprinted(d, c) /\ Legal(d, c) BY DEF Own
<1>4. f = [k \in IF d.kind = "mouse" THEN mouse_state_lines(d, c) ELSE devcfg_state_lines(d) |-> Text(c, k)]
  BY DEF state_save
<1>5. /\ <<"polling_hz", 0>> \in DOMAIN f <=> d.rates # <<>>
      /\ <<"brightness", 0>> \in DOMAIN f <=> "brightness" \in d.caps
      /\ \A z \in Zones(d) : <<"zone", z>> \in DOMAIN f
      /\ \A z : <<"zone_fx", z>> \in DOMAIN f <=> (d.fx > 1 /\ z \in Zones(d))
      /\ \A z : <<"zone_param", z>> \in DOMAIN f <=> (d.fx > 1 /\ z \in Zones(d))
  <2>1. CASE d.kind = "mouse"
    <3>1. DOMAIN f = mouse_state_lines(d, c) BY ONLY Zenon, <1>4, <2>1
    <3> QED BY ONLY <3>1, MouseLines
  <2>2. CASE d.kind # "mouse"
    <3>1. DOMAIN f = devcfg_state_lines(d) BY ONLY Zenon, <1>4, <2>2
    <3> QED BY ONLY <3>1, DevcfgLines
  <2> QED BY <2>1, <2>2
<1>6. \A k \in DOMAIN f : f[k] = Text(c, k) BY ONLY Zenon, <1>4
<1>7. f = state_save(d, c) /\ v = devcfg_state_load(b, f) OBVIOUS
<1> HIDE DEF f, b
<1>8. SameDev(c, v) BY <1>2, <1>3, <1>5, <1>6, <1>7, DevRoundTrip
<1>9. Config(d, v) /\ Unprinted(d, v) /\ SameMouse(b, v)
  <2>1. FileOK(d, f) BY <1>3, <1>7, SavedFile
  <2> QED BY <1>2, <1>7, <2>1, DevLoad
<1> HIDE DEF v
<1>10. SameSaved(c, m) /\ Config(d, m)
  <2>1. CASE d.kind = "mouse"
    <3>1. m = own_state_load(v, f) BY <2>1
    <3>2. SameSaved(c, m) BY <1>7, <1>8, <1>9, <2>1, <3>1, OwnRoundTrip
    <3>3. v.count > 0
      <4>1. b.count \in 1..MaxLevels BY Defaults, <2>1 DEF Own, Legal, b
      <4>2. v.count = b.count BY ONLY Zenon, <1>9 DEF SameMouse
      <4> QED BY <4>1, <4>2 DEF MaxLevels
    <3>4. FileOK(d, f) BY <1>3, <1>7, SavedFile
    <3>5. Config(d, m) BY <1>9, <2>1, <3>1, <3>3, <3>4, OwnLoad
    <3> QED BY <3>2, <3>5
  <2>2. CASE d.kind # "mouse"
    <3>1. m = v BY <2>2
    <3>2. SameMouse(b, c) BY <1>3, <2>2 DEF Unprinted, b
    <3> QED BY ONLY Zenon, <1>8, <1>9, <3>1, <3>2 DEF SameMouse, SameSaved
  <2> QED BY <2>1, <2>2
<1> HIDE DEF m
<1>11. /\ m.active = c.active /\ m.count = c.count /\ m.fx = c.fx /\ m.param = c.param
  BY ONLY Zenon, <1>10 DEF SameSaved, SameDev
<1>12. DOMAIN s = Fields /\ SameDev(m, s) /\ SameMouse(m, s)
  <2>1. d.kind = "mouse" => m.active \in 0..(m.count - 1) BY ONLY <1>3, <1>11 DEF Legal
  <2>2. "global" \in d.caps => \A y, z \in Zones(d) : m.fx[y] = m.fx[z] /\ m.param[y] = m.param[z]
    BY ONLY <1>3, <1>11 DEF Legal
  <2> QED BY <1>10, <2>1, <2>2, DoneSame
<1> HIDE DEF s
<1>13. SameSaved(c, s)
  BY ONLY Zenon, <1>10, <1>12 DEF SameSaved, SameDev, SameMouse
<1>14. Stored(s) = Stored(c) BY <1>3, <1>12, <1>13, StoredSame DEF Config
<1> QED BY <1>1, <1>14 DEF f

-----------------------------------------------------------------------------
(* What a flag or an edit makes of a configuration.                            *)

LEMMA RangeIn ==
    ASSUME NEW S, NEW s \in Seq(S), NEW x \in Range(s) PROVE x \in S
<1>1. PICK i \in DOMAIN s : s[i] = x BY DEF Range
<1>2. i \in 1..Len(s) BY <1>1, LenProperties
<1> QED BY <1>1, <1>2, ElementOfSeq

\* A change of some fields keeps a configuration the driver's own if each new value
\* is one the field may hold and that has a line.
LEMMA KeepsLegal ==
    ASSUME NEW d, NEW c, Config(d, c), Unprinted(d, c),
           d.kind = "mouse" => c.count \in 1..MaxLevels /\ c.active \in 0..(c.count - 1),
           "global" \in d.caps => \A y, z \in Zones(d) : c.fx[y] = c.fx[z] /\ c.param[y] = c.param[z]
    PROVE  Own(d, c)
<1>1. DevOK(d, c) /\ MouseOK(d, c) BY DEF Config
<1>2. c.bright \in 0..100 /\ \A z \in Zones(d) : c.color[z] \in Colours /\ c.fx[z] \in Bytes
  BY ONLY <1>1 DEF DevOK
<1>3. c.dim \in Seconds /\ c.sleep \in 0..20 /\ c.startup \in 0..3 BY ONLY Zenon, <1>1 DEF MouseOK
<1>4. Legal(d, c)
  BY <1>2, <1>3 DEF Legal, Colours, Bytes, Seconds
<1> QED BY <1>4 DEF Own

\* the lighting fields
LEMMA DevEdit ==
    ASSUME NEW d \in Driver, NEW c, Own(d, c), NEW r, DOMAIN r = Fields, SameMouse(c, r),
           r.polling \in Words, d.rates = <<>> => r.polling = c.polling,
           r.bright \in 0..100, "brightness" \notin d.caps => r.bright = c.bright,
           r.color \in [Zones(d) -> Colours],
           r.fx \in [Zones(d) -> Bytes], r.param \in [Zones(d) -> Bytes],
           ~(d.fx > 1) => r.fx = c.fx /\ r.param = c.param,
           "global" \in d.caps => \A y, z \in Zones(d) : r.fx[y] = r.fx[z] /\ r.param[y] = r.param[z]
    PROVE  Own(d, r)
<1>1. Config(d, c) /\ Legal(d, c) /\ Unprinted(d, c) BY DEF Own
<1>2. Config(d, r)
  <2>1. DevOK(d, r) BY DEF DevOK
  <2>2. LevelsOK(c) /\ MouseOK(d, c) BY ONLY <1>1 DEF Config
  <2>3. LevelsOK(r) /\ MouseOK(d, r) BY <2>2, SameParts
  <2> QED BY <2>1, <2>3 DEF Config
<1>3. Unprinted(d, r)
  <2>1. d.kind # "mouse" => SameMouse(config_defaults(d), r) BY Zenon, <1>1 DEF Unprinted, SameMouse
  <2> QED BY Zenon, <1>1, <2>1 DEF Unprinted, SameMouse
<1>4. d.kind = "mouse" => r.count \in 1..MaxLevels /\ r.active \in 0..(r.count - 1)
  <2>1. r.count = c.count /\ r.active = c.active BY ONLY Zenon, SameMouse(c, r) DEF SameMouse
  <2> QED BY ONLY <1>1, <2>1 DEF Legal
<1> QED BY <1>2, <1>3, <1>4, KeepsLegal

\* what mouse.c keeps
LEMMA MouseEdit ==
    ASSUME NEW d \in Driver, NEW c, Own(d, c), NEW r, DOMAIN r = Fields, SameDev(c, r),
           d.kind = "mouse", LevelsOK(r), MouseOK(d, r), r.count > 0, r.active < r.count,
           r.reacts = c.reacts, r.startup = c.startup,
           "battery" \notin d.caps => r.smart = c.smart /\ r.dim = c.dim /\ r.sleep = c.sleep
    PROVE  Own(d, r)
<1>1. Config(d, c) /\ Legal(d, c) /\ Unprinted(d, c) BY DEF Own
<1>2. Config(d, r)
  <2>1. DevOK(d, c) BY ONLY <1>1 DEF Config
  <2>2. DevOK(d, r) BY <2>1, SameParts
  <2> QED BY <2>2 DEF Config
<1>3. Unprinted(d, r)
  BY Zenon, <1>1 DEF Unprinted, SameDev
<1>4. r.count \in 1..MaxLevels /\ r.active \in 0..(r.count - 1)
  BY DEF LevelsOK, MaxLevels
<1>5. "global" \in d.caps => \A y, z \in Zones(d) : r.fx[y] = r.fx[z] /\ r.param[y] = r.param[z]
  <2>1. r.fx = c.fx /\ r.param = c.param BY ONLY Zenon, SameDev(c, r) DEF SameDev
  <2> QED BY ONLY <1>1, <2>1 DEF Legal
<1> QED BY <1>2, <1>3, <1>4, <1>5, KeepsLegal

\* an option that is available and parses leaves a configuration of the driver's own
LEMMA WithOwn ==
    ASSUME drv \in Driver, NEW c, Own(drv, c), NEW opt \in Options, NEW v \in Value,
           option_available(opt), Parses(opt, v)
    PROVE  Own(drv, With(c, opt, v))
<1>1. Config(drv, c) /\ Legal(drv, c) /\ Unprinted(drv, c) BY DEF Own
<1>2. DOMAIN c = Fields /\ DevOK(drv, c) /\ LevelsOK(c) /\ MouseOK(drv, c) BY ONLY <1>1 DEF Config
<1>3. v.n \in Int /\ v.z \in Int BY DEF Value, WordRec, NoVal, Flag
<1>4. Fits(drv) /\ KeepsKind(drv) /\ HasSteps(drv) BY DriverAssumption
<1>5. /\ c.polling \in Words /\ c.bright \in 0..100 /\ c.color \in [Zones(drv) -> Colours]
      /\ c.fx \in [Zones(drv) -> Bytes] /\ c.param \in [Zones(drv) -> Bytes]
  BY ONLY Zenon, <1>2 DEF DevOK
<1>6. "global" \in drv.caps => \A y, z \in Zones(drv) : c.fx[y] = c.fx[z] /\ c.param[y] = c.param[z]
  BY ONLY <1>1 DEF Legal
<1>7. CASE opt = "brightness"
  <2> DEFINE r == [c EXCEPT !.bright = v.n]
  <2>1. With(c, opt, v) = r BY ONLY Zenon, <1>7 DEF With
  <2>2. "brightness" \in drv.caps BY ONLY Zenon, <1>7, option_available(opt) DEF option_available
  <2>3. v.n \in 0..100 BY ONLY Zenon, <1>7, Parses(opt, v) DEF Parses
  <2>4. /\ DOMAIN r = Fields /\ SameMouse(c, r) /\ r.bright = v.n
        /\ r.polling = c.polling /\ r.color = c.color /\ r.fx = c.fx /\ r.param = c.param
    BY ONLY <1>2 DEF Fields, SameMouse
  <2> HIDE DEF r
  <2>5. r.bright \in 0..100 BY ONLY <2>3, <2>4
  <2>6. Own(drv, r) BY Zenon, <1>5, <1>6, <2>2, <2>4, <2>5, DevEdit
  <2> QED BY <2>1, <2>6
<1>8. CASE opt = "polling"
  <2> DEFINE hz == v.n % Word
             r == [c EXCEPT !.polling = hz]
  <2>1. With(c, opt, v) = r BY ONLY Zenon, <1>8 DEF With
  <2>2. drv.rates # <<>> BY ONLY Zenon, <1>8, option_available(opt) DEF option_available
  <2>3. hz \in Words BY ONLY <1>3, Ranges
  <2> HIDE DEF hz
  <2>4. /\ DOMAIN r = Fields /\ SameMouse(c, r) /\ r.polling = hz
        /\ r.bright = c.bright /\ r.color = c.color /\ r.fx = c.fx /\ r.param = c.param
    BY ONLY <1>2 DEF Fields, SameMouse
  <2> HIDE DEF r
  <2>5. /\ r.polling \in Words /\ r.bright \in 0..100 /\ r.color \in [Zones(drv) -> Colours]
        /\ r.fx \in [Zones(drv) -> Bytes] /\ r.param \in [Zones(drv) -> Bytes]
    BY ONLY Zenon, <1>5, <2>3, <2>4
  <2>6. "global" \in drv.caps => \A y, z \in Zones(drv) : r.fx[y] = r.fx[z] /\ r.param[y] = r.param[z]
    <3>1. r.fx = c.fx /\ r.param = c.param BY ONLY <2>4
    <3> QED BY ONLY <1>6, <3>1
  <2>7. Own(drv, r) BY Zenon, <2>2, <2>4, <2>5, <2>6, DevEdit
  <2> QED BY <2>1, <2>7
<1>9. CASE opt = "color"
  <2> DEFINE col == [z \in DOMAIN c.color |-> IF v.z \in {-1, z - 1} THEN Rgb(v.n) ELSE c.color[z]]
             r == [c EXCEPT !.color = col]
  <2>1. With(c, opt, v) = r BY ONLY Zenon, <1>9 DEF With
  <2>2. Rgb(v.n) \in Colours BY ONLY <1>3, Ranges DEF Rgb
  <2>3. col \in [Zones(drv) -> Colours] BY ONLY <1>5, <2>2
  <2> HIDE DEF col
  <2>4. /\ DOMAIN r = Fields /\ SameMouse(c, r) /\ r.color = col
        /\ r.bright = c.bright /\ r.polling = c.polling /\ r.fx = c.fx /\ r.param = c.param
    BY ONLY <1>2 DEF Fields, SameMouse
  <2> HIDE DEF r
  <2>5. r.color \in [Zones(drv) -> Colours] BY ONLY <2>3, <2>4
  <2>6. Own(drv, r) BY Zenon, <1>5, <1>6, <2>4, <2>5, DevEdit
  <2> QED BY <2>1, <2>6
<1>10. CASE opt = "fx"
  <2> DEFINE fx == [z \in DOMAIN c.fx |-> v.n]
             r == [c EXCEPT !.fx = fx]
  <2>1. With(c, opt, v) = r BY ONLY Zenon, <1>10 DEF With
  <2>2. drv.fx > 1 BY ONLY Zenon, <1>10, option_available(opt) DEF option_available
  <2>3. v.n \in 0..(drv.fx - 1) BY ONLY Zenon, <1>10, Parses(opt, v) DEF Parses
  <2>4. drv.fx \in 0..256 BY ONLY <1>4 DEF Fits
  <2>5. v.n \in Bytes BY ONLY <2>3, <2>4 DEF Bytes
  <2>6. fx \in [Zones(drv) -> Bytes] BY ONLY <1>5, <2>5
  <2>7. \A y, z \in Zones(drv) : fx[y] = fx[z] BY ONLY <1>5
  <2> HIDE DEF fx
  <2>8. /\ DOMAIN r = Fields /\ SameMouse(c, r) /\ r.fx = fx
        /\ r.bright = c.bright /\ r.polling = c.polling /\ r.color = c.color /\ r.param = c.param
    BY ONLY <1>2 DEF Fields, SameMouse
  <2> HIDE DEF r
  <2>9. "global" \in drv.caps => \A y, z \in Zones(drv) : r.fx[y] = r.fx[z] /\ r.param[y] = r.param[z]
    BY ONLY <1>6, <2>7, <2>8
  <2>10. Own(drv, r) BY Zenon, <1>5, <2>2, <2>6, <2>8, <2>9, DevEdit
  <2> QED BY <2>1, <2>10
<1>11. CASE opt = "dpi"
  <2> DEFINE dpi == [i \in DOMAIN c.dpi |-> <<v.n, v.n>>]
             r == [c EXCEPT !.dpi = dpi]
  <2>1. With(c, opt, v) = r BY ONLY Zenon, <1>11 DEF With
  <2>2. "dpi" \in drv.caps BY ONLY Zenon, <1>11, option_available(opt) DEF option_available
  <2>3. drv.kind = "mouse" BY ONLY <1>4, <2>2 DEF KeepsKind
  <2>4. v.n \in 1..(Word - 1) BY ONLY Zenon, <1>11, Parses(opt, v) DEF Parses
  <2>5. v.n \in Words BY ONLY <2>4, Widths DEF Words
  <2>6. dpi \in [1..MaxLevels -> Pair] BY ONLY <1>2, <2>5 DEF LevelsOK, Pair
  <2> HIDE DEF dpi
  <2>7. /\ DOMAIN r = Fields /\ SameDev(c, r) /\ r.dpi = dpi
        /\ r.count = c.count /\ r.active = c.active /\ r.reacts = c.reacts /\ r.flash = c.flash
        /\ r.startup = c.startup /\ r.smart = c.smart /\ r.dim = c.dim /\ r.sleep = c.sleep
        /\ r.buttons = c.buttons /\ r.acceleration = c.acceleration /\ r.deceleration = c.deceleration
        /\ r.snapping = c.snapping /\ r.accel = c.accel
    BY ONLY <1>2 DEF Fields, SameDev
  <2> HIDE DEF r
  <2>8. LevelsOK(r) BY ONLY <1>2, <2>6, <2>7 DEF LevelsOK
  <2>9. MouseOK(drv, r) BY ONLY Zenon, <1>2, <2>7 DEF MouseOK
  <2>10. r.count > 0 /\ r.active < r.count BY ONLY <1>1, <2>3, <2>7 DEF Legal, MaxLevels
  <2>11. Own(drv, r) BY Zenon, <2>3, <2>7, <2>8, <2>9, <2>10, MouseEdit
  <2> QED BY <2>1, <2>11
<1>12. CASE opt \in {"accel", "decel", "snap"}
  <2>1. drv.caps \cap Transform # {} BY ONLY Zenon, <1>12, option_available(opt) DEF option_available
  <2>2. drv.kind = "mouse" BY ONLY <1>4, <2>1 DEF KeepsKind
  <2>3. v.n \in 0..100
    <3>1. opt = "snap" => v.n \in 0..45 BY ONLY Zenon, Parses(opt, v) DEF Parses
    <3>2. opt \in {"accel", "decel"} => v.n \in 0..100 BY ONLY Zenon, Parses(opt, v) DEF Parses
    <3> QED BY ONLY <1>12, <3>1, <3>2
  <2>4. v.n \in SignedBytes /\ v.n \in Bytes BY ONLY <2>3 DEF SignedBytes, Bytes
  <2> DEFINE r == With(c, opt, v)
             Rest == /\ DOMAIN r = Fields /\ SameDev(c, r) /\ r.dpi = c.dpi
                     /\ r.count = c.count /\ r.active = c.active /\ r.reacts = c.reacts /\ r.flash = c.flash
                     /\ r.startup = c.startup /\ r.smart = c.smart /\ r.dim = c.dim /\ r.sleep = c.sleep
                     /\ r.buttons = c.buttons /\ r.accel = TRUE
  <2>5. \/ r = [c EXCEPT !.acceleration = v.n, !.accel = TRUE]
        \/ r = [c EXCEPT !.deceleration = v.n, !.accel = TRUE]
        \/ r = [c EXCEPT !.snapping = v.n, !.accel = TRUE]
    BY ONLY Zenon, <1>12 DEF With
  <2> HIDE DEF r
  <2>6. Rest
    <3>1. r = [c EXCEPT !.acceleration = v.n, !.accel = TRUE] => Rest BY ONLY <1>2 DEF Fields, SameDev
    <3>2. r = [c EXCEPT !.deceleration = v.n, !.accel = TRUE] => Rest BY ONLY <1>2 DEF Fields, SameDev
    <3>3. r = [c EXCEPT !.snapping = v.n, !.accel = TRUE] => Rest BY ONLY <1>2 DEF Fields, SameDev
    <3> QED BY ONLY <2>5, <3>1, <3>2, <3>3
  <2>7. /\ r.acceleration \in {c.acceleration, v.n} /\ r.deceleration \in {c.deceleration, v.n}
        /\ r.snapping \in {c.snapping, v.n}
    BY ONLY <1>2, <2>5 DEF Fields
  <2>8. LevelsOK(r) BY ONLY <1>2, <2>6 DEF LevelsOK
  <2>9. MouseOK(drv, r) BY ONLY Zenon, <1>2, <2>4, <2>6, <2>7 DEF MouseOK
  <2>10. r.count > 0 /\ r.active < r.count BY ONLY <1>1, <2>2, <2>6 DEF Legal, MaxLevels
  <2>11. Own(drv, r) BY Zenon, <2>2, <2>6, <2>8, <2>9, <2>10, MouseEdit
  <2> QED BY <2>11 DEF r
<1>13. opt # "higheff"
  <2>1. "higheff" \notin drv.caps BY ONLY <1>4 DEF HasSteps
  <2> QED BY ONLY Zenon, <2>1, option_available(opt) DEF option_available
<1> QED BY <1>7, <1>8, <1>9, <1>10, <1>11, <1>12, <1>13 DEF Options

\* the edits of the session
LEMMA SyncOwn ==
    ASSUME NEW d \in Driver, NEW c, Own(d, c), NEW z \in Zones(d),
           NEW e, DOMAIN e = Fields, SameMouse(c, e), e.polling = c.polling, e.bright = c.bright,
           e.color \in [Zones(d) -> Colours],
           e.fx \in [Zones(d) -> Bytes], e.param \in [Zones(d) -> Bytes],
           ~(d.fx > 1) => e.fx = c.fx /\ e.param = c.param
    PROVE  Own(d, sync_global_fx(d, e, z))
<1>1. Config(d, c) /\ Unprinted(d, c) BY DEF Own
<1>2. c.polling \in Words /\ c.bright \in 0..100
  <2>1. DevOK(d, c) BY ONLY <1>1 DEF Config
  <2> QED BY ONLY Zenon, <2>1 DEF DevOK
<1>3. CASE "global" \notin d.caps
  <2>1. sync_global_fx(d, e, z) = e BY ONLY Zenon, <1>3 DEF sync_global_fx
  <2>2. e.polling \in Words /\ e.bright \in 0..100 BY <1>2
  <2>3. Own(d, e) BY Zenon, <1>3, <2>2, DevEdit
  <2> QED BY ONLY <2>1, <2>3
<1>4. CASE "global" \in d.caps
  <2> DEFINE fx == Same(d, e.fx[z])
             col == Same(d, e.color[z])
             prm == Same(d, e.param[z])
             r == [e EXCEPT !.fx = fx, !.color = col, !.param = prm]
  <2>1. sync_global_fx(d, e, z) = r BY ONLY Zenon, <1>4 DEF sync_global_fx
  <2>2. /\ fx \in [Zones(d) -> Bytes] /\ col \in [Zones(d) -> Colours] /\ prm \in [Zones(d) -> Bytes]
        /\ \A x, y \in Zones(d) : fx[x] = fx[y] /\ prm[x] = prm[y]
    BY DEF Same
  <2>3. ~(d.fx > 1) => fx = c.fx /\ prm = c.param
    <3>1. SUFFICES ASSUME ~(d.fx > 1) PROVE fx = c.fx /\ prm = c.param OBVIOUS
    <3>2. /\ c.fx = Same(d, 0) /\ c.param = Same(d, 5) BY Zenon, <1>1, <3>1 DEF Unprinted
    <3>3. e.fx[z] = 0 /\ e.param[z] = 5 BY <3>1, <3>2 DEF Same
    <3> QED BY ONLY <3>2, <3>3
  <2> HIDE DEF fx, col, prm
  <2>4. /\ DOMAIN r = Fields /\ r.fx = fx /\ r.color = col /\ r.param = prm
        /\ r.polling = e.polling /\ r.bright = e.bright
    BY ONLY DOMAIN e = Fields DEF Fields
  <2>5. SameMouse(e, r) BY ONLY DOMAIN e = Fields DEF SameMouse, Fields
  <2> HIDE DEF r
  <2>6. SameMouse(c, r) BY ONLY Zenon, SameMouse(c, e), <2>5 DEF SameMouse
  <2>7. r.polling \in Words /\ r.bright \in 0..100 /\ r.polling = c.polling /\ r.bright = c.bright BY <1>2, <2>4
  <2>8. /\ r.fx \in [Zones(d) -> Bytes] /\ r.color \in [Zones(d) -> Colours] /\ r.param \in [Zones(d) -> Bytes]
        /\ \A x, y \in Zones(d) : r.fx[x] = r.fx[y] /\ r.param[x] = r.param[y]
        /\ ~(d.fx > 1) => r.fx = c.fx /\ r.param = c.param
    BY ONLY Zenon, <2>2, <2>3, <2>4
  <2>9. Own(d, r) BY Zenon, <2>4, <2>6, <2>7, <2>8, DevEdit
  <2> QED BY ONLY <2>1, <2>9
<1> QED BY <1>3, <1>4

LEMMA ZoneOwn ==
    ASSUME drv \in Driver, Own(drv, cfg), EditZone
    PROVE  Own(drv, cfg')
<1>1. PICK z \in Ends(drv.zones) :
        \/ "color" \in drv.caps /\ Edit(sync_global_fx(drv, [cfg EXCEPT !.color[z] = 5], z), <<"colors">>)
        \/ \E e \in {1, drv.fx - 1} : /\ drv.fx > 1
              /\ Edit(sync_global_fx(drv, [cfg EXCEPT !.fx[z] = e], z), <<"colors">>)
        \/ "speed" \in drv.caps /\ Edit(sync_global_fx(drv, [cfg EXCEPT !.param[z] = 2], z), <<"colors">>)
  BY DEF EditZone
<1>2. z \in Zones(drv) BY DEF Ends, Zones
<1>3. DOMAIN cfg = Fields /\ DevOK(drv, cfg) BY DEF Own, Config
<1>4. /\ cfg.color \in [Zones(drv) -> Colours]
      /\ cfg.fx \in [Zones(drv) -> Bytes] /\ cfg.param \in [Zones(drv) -> Bytes]
  BY ONLY Zenon, <1>3 DEF DevOK
<1>5. Fits(drv) /\ HasSteps(drv) BY DriverAssumption
<1>6. CASE Edit(sync_global_fx(drv, [cfg EXCEPT !.color[z] = 5], z), <<"colors">>)
  <2> DEFINE col == [cfg.color EXCEPT ![z] = 5]
             e == [cfg EXCEPT !.color = col]
  <2>1. cfg' = sync_global_fx(drv, e, z) BY <1>6 DEF Edit
  <2>2. col \in [Zones(drv) -> Colours]
    <3>1. 5 \in Colours BY Widths DEF Colours
    <3> QED BY ONLY <1>4, <3>1
  <2> HIDE DEF col
  <2>3. /\ DOMAIN e = Fields /\ e.color = col /\ e.fx = cfg.fx /\ e.param = cfg.param
        /\ e.polling = cfg.polling /\ e.bright = cfg.bright
    BY ONLY <1>3 DEF Fields
  <2>4. SameMouse(cfg, e) BY ONLY <1>3 DEF SameMouse, Fields
  <2> HIDE DEF e
  <2>5. /\ e.color \in [Zones(drv) -> Colours]
        /\ e.fx \in [Zones(drv) -> Bytes] /\ e.param \in [Zones(drv) -> Bytes]
    BY ONLY Zenon, <1>4, <2>2, <2>3
  <2>6. Own(drv, sync_global_fx(drv, e, z)) BY Zenon, <1>2, <2>3, <2>4, <2>5, SyncOwn
  <2> QED BY ONLY <2>1, <2>6
<1>7. ASSUME NEW n \in {1, drv.fx - 1}, drv.fx > 1,
             Edit(sync_global_fx(drv, [cfg EXCEPT !.fx[z] = n], z), <<"colors">>)
      PROVE  Own(drv, cfg')
  <2> DEFINE fx == [cfg.fx EXCEPT ![z] = n]
             e == [cfg EXCEPT !.fx = fx]
  <2>1. cfg' = sync_global_fx(drv, e, z) BY <1>7 DEF Edit
  <2>2. fx \in [Zones(drv) -> Bytes]
    <3>1. drv.fx \in 0..256 BY ONLY <1>5 DEF Fits
    <3>2. n \in Bytes BY ONLY <1>7, <3>1 DEF Bytes
    <3> QED BY ONLY <1>4, <3>2
  <2> HIDE DEF fx
  <2>3. /\ DOMAIN e = Fields /\ e.fx = fx /\ e.color = cfg.color /\ e.param = cfg.param
        /\ e.polling = cfg.polling /\ e.bright = cfg.bright
    BY ONLY <1>3 DEF Fields
  <2>4. SameMouse(cfg, e) BY ONLY <1>3 DEF SameMouse, Fields
  <2> HIDE DEF e
  <2>5. /\ e.color \in [Zones(drv) -> Colours]
        /\ e.fx \in [Zones(drv) -> Bytes] /\ e.param \in [Zones(drv) -> Bytes]
    BY ONLY Zenon, <1>4, <2>2, <2>3
  <2>6. Own(drv, sync_global_fx(drv, e, z)) BY Zenon, <1>2, <1>7, <2>3, <2>4, <2>5, SyncOwn
  <2> QED BY ONLY <2>1, <2>6
<1>8. CASE "speed" \in drv.caps /\ Edit(sync_global_fx(drv, [cfg EXCEPT !.param[z] = 2], z), <<"colors">>)
  <2> DEFINE prm == [cfg.param EXCEPT ![z] = 2]
             e == [cfg EXCEPT !.param = prm]
  <2>1. cfg' = sync_global_fx(drv, e, z) BY <1>8 DEF Edit
  <2>2. prm \in [Zones(drv) -> Bytes]
    <3>1. 2 \in Bytes BY DEF Bytes
    <3> QED BY ONLY <1>4, <3>1
  <2> HIDE DEF prm
  <2>3. /\ DOMAIN e = Fields /\ e.param = prm /\ e.color = cfg.color /\ e.fx = cfg.fx
        /\ e.polling = cfg.polling /\ e.bright = cfg.bright
    BY ONLY <1>3 DEF Fields
  <2>4. SameMouse(cfg, e) BY ONLY <1>3 DEF SameMouse, Fields
  <2> HIDE DEF e
  <2>5. /\ e.color \in [Zones(drv) -> Colours]
        /\ e.fx \in [Zones(drv) -> Bytes] /\ e.param \in [Zones(drv) -> Bytes]
    BY ONLY Zenon, <1>4, <2>2, <2>3
  <2>6. drv.fx > 1 BY ONLY <1>5, <1>8 DEF HasSteps
  <2>7. Own(drv, sync_global_fx(drv, e, z)) BY Zenon, <1>2, <2>3, <2>4, <2>5, <2>6, SyncOwn
  <2> QED BY ONLY <2>1, <2>7
<1> QED BY <1>1, <1>6, <1>7, <1>8

LEMMA GridDown ==
    ASSUME NEW n \in Nat, NEW g \in Nat \ {0}
    PROVE  (n \div g) * g \in Nat /\ (n \div g) * g <= n
<1>1. n \div g \in Int OBVIOUS
<1>2. n \div g >= 0 BY Z3
<1>3. (n \div g) * g <= n BY Z3
<1>4. n \div g \in Nat BY ONLY <1>1, <1>2
<1>5. (n \div g) * g \in Nat BY ONLY <1>4, g \in Nat \ {0}
<1> QED BY ONLY <1>3, <1>5

LEMMA SnappedOK ==
    ASSUME drv \in Driver, NEW x \in Int
    PROVE  Snapped(x) \in Words
<1> DEFINE c == Clamp(x, drv.lo, drv.hi)
           g == drv.grid
<1>1. drv.lo \in Nat /\ drv.hi \in drv.lo..(Word - 1) /\ g \in Nat \ {0}
  BY DriverAssumption DEF Fits
<1>2. c \in Nat /\ c < Word BY ONLY <1>1, x \in Int, Widths DEF Clamp
<1> HIDE DEF c, g
<1>3. (c \div g) * g \in Nat /\ (c \div g) * g <= c BY ONLY <1>1, <1>2, GridDown
<1> DEFINE s == (c \div g) * g
<1>4. s \in Nat /\ s <= c BY ONLY <1>3
<1> HIDE DEF s
<1>5. s \in Words BY ONLY <1>2, <1>4, Widths DEF Words
<1> QED BY ONLY <1>5 DEF Snapped, c, g, s

LEMMA LightOwn ==
    ASSUME drv \in Driver, Own(drv, cfg), EditBrightness \/ EditRate
    PROVE  Own(drv, cfg')
<1>1. DOMAIN cfg = Fields /\ DevOK(drv, cfg) /\ Legal(drv, cfg) BY DEF Own, Config
<1>2. /\ cfg.polling \in Words /\ cfg.bright \in 0..100 /\ cfg.color \in [Zones(drv) -> Colours]
      /\ cfg.fx \in [Zones(drv) -> Bytes] /\ cfg.param \in [Zones(drv) -> Bytes]
  BY ONLY Zenon, <1>1 DEF DevOK
<1>3. "global" \in drv.caps => \A y, z \in Zones(drv) : cfg.fx[y] = cfg.fx[z] /\ cfg.param[y] = cfg.param[z]
  BY ONLY <1>1 DEF Legal
<1>4. CASE EditBrightness
  <2> DEFINE r == [cfg EXCEPT !.bright = 37]
  <2>1. cfg' = r /\ "brightness" \in drv.caps BY ONLY <1>4 DEF EditBrightness, Edit
  <2>2. /\ DOMAIN r = Fields /\ r.bright = 37 /\ r.polling = cfg.polling /\ r.color = cfg.color
        /\ r.fx = cfg.fx /\ r.param = cfg.param
    BY ONLY <1>1 DEF Fields
  <2>3. SameMouse(cfg, r) BY ONLY <1>1 DEF SameMouse, Fields
  <2> HIDE DEF r
  <2>4. r.bright \in 0..100 BY ONLY <2>2
  <2>5. /\ r.polling \in Words /\ r.color \in [Zones(drv) -> Colours]
        /\ r.fx \in [Zones(drv) -> Bytes] /\ r.param \in [Zones(drv) -> Bytes]
    BY ONLY Zenon, <1>2, <2>2
  <2>6. "global" \in drv.caps => \A y, z \in Zones(drv) : r.fx[y] = r.fx[z] /\ r.param[y] = r.param[z]
    BY ONLY <1>3, <2>2
  <2>7. Own(drv, r) BY Zenon, <2>1, <2>2, <2>3, <2>4, <2>5, <2>6, DevEdit
  <2> QED BY ONLY <2>1, <2>7
<1>5. CASE EditRate
  <2>1. PICK hz \in Range(drv.rates) : cfg' = [cfg EXCEPT !.polling = hz] BY ONLY <1>5 DEF EditRate, Edit
  <2> DEFINE r == [cfg EXCEPT !.polling = hz]
  <2>2. hz \in Words /\ drv.rates # <<>>
    <3>1. drv.rates \in Seq(Words) BY DriverAssumption DEF Fits, Words
    <3>2. hz \in Words BY ONLY <3>1, RangeIn, hz \in Range(drv.rates)
    <3>3. drv.rates # <<>> BY ONLY hz \in Range(drv.rates) DEF Range
    <3> QED BY ONLY <3>2, <3>3
  <2>3. /\ DOMAIN r = Fields /\ r.polling = hz /\ r.bright = cfg.bright /\ r.color = cfg.color
        /\ r.fx = cfg.fx /\ r.param = cfg.param
    BY ONLY <1>1 DEF Fields
  <2>4. SameMouse(cfg, r) BY ONLY <1>1 DEF SameMouse, Fields
  <2> HIDE DEF r
  <2>5. /\ r.polling \in Words /\ r.bright \in 0..100 /\ r.color \in [Zones(drv) -> Colours]
        /\ r.fx \in [Zones(drv) -> Bytes] /\ r.param \in [Zones(drv) -> Bytes]
    BY ONLY Zenon, <1>2, <2>2, <2>3
  <2>6. "global" \in drv.caps => \A y, z \in Zones(drv) : r.fx[y] = r.fx[z] /\ r.param[y] = r.param[z]
    BY ONLY <1>3, <2>3
  <2>7. Own(drv, r) BY Zenon, <2>2, <2>3, <2>4, <2>5, <2>6, DevEdit
  <2> QED BY ONLY <2>1, <2>7 DEF r
<1> QED BY <1>4, <1>5

\* only a mouse has levels, buttons, a battery and a transform
LEMMA MouseOnly ==
    ASSUME drv \in Driver, Own(drv, cfg)
    PROVE  /\ cfg.count \in 0..MaxLevels /\ (cfg.count > 0 => drv.kind = "mouse")
           /\ drv.buttons # <<>> => drv.kind = "mouse"
           /\ drv.caps \cap ({"dpi", "battery"} \cup Transform) # {} => drv.kind = "mouse"
           /\ drv.kind = "mouse" => cfg.count > 0 /\ cfg.active < cfg.count
<1>1. KeepsKind(drv) BY DriverAssumption
<1>2. Unprinted(drv, cfg) /\ Legal(drv, cfg) /\ LevelsOK(cfg) BY DEF Own, Config
<1>3. cfg.count \in 0..MaxLevels BY ONLY <1>2 DEF LevelsOK
<1>4. drv.kind # "mouse" => cfg.count = 0
  <2>1. SUFFICES ASSUME drv.kind # "mouse" PROVE cfg.count = 0 OBVIOUS
  <2>2. SameMouse(config_defaults(drv), cfg) BY ONLY Zenon, <1>2, <2>1 DEF Unprinted
  <2>3. cfg.count = config_defaults(drv).count BY ONLY Zenon, <2>2 DEF SameMouse
  <2>4. config_defaults(drv).count = Len(drv.levels) BY ONLY SMT DEF config_defaults
  <2>5. drv.levels = <<>> BY ONLY <1>1, <2>1 DEF KeepsKind
  <2>6. Len(drv.levels) = 0 BY ONLY <2>5
  <2> QED BY ONLY <2>3, <2>4, <2>6
<1>5. /\ drv.buttons # <<>> => drv.kind = "mouse"
      /\ drv.caps \cap ({"dpi", "battery"} \cup Transform) # {} => drv.kind = "mouse"
  BY ONLY <1>1 DEF KeepsKind
<1>6. drv.kind = "mouse" => cfg.count > 0 /\ cfg.active < cfg.count BY ONLY <1>2 DEF Legal, MaxLevels
<1> QED BY ONLY <1>3, <1>4, <1>5, <1>6 DEF MaxLevels

\* one part of what mouse.c keeps at a time
LEMMA LevelEdit ==
    ASSUME NEW d \in Driver, NEW c, Own(d, c), d.kind = "mouse",
           NEW n \in 1..MaxLevels, NEW a \in 0..(n - 1), NEW t \in [1..MaxLevels -> Pair],
           NEW r, DOMAIN r = Fields, \A k \in Fields \ {"count", "active", "dpi"} : r[k] = c[k],
           r.count = n, r.active = a, r.dpi = t
    PROVE  Own(d, r)
<1>1. MouseOK(d, c) BY DEF Own, Config
<1>2. /\ SameDev(c, r) /\ r.reacts = c.reacts /\ r.flash = c.flash
      /\ r.startup = c.startup /\ r.smart = c.smart /\ r.dim = c.dim /\ r.sleep = c.sleep
      /\ r.buttons = c.buttons /\ r.acceleration = c.acceleration /\ r.deceleration = c.deceleration
      /\ r.snapping = c.snapping /\ r.accel = c.accel
  BY ONLY Zenon, \A k \in Fields \ {"count", "active", "dpi"} : r[k] = c[k] DEF Fields, SameDev
<1>3. MouseOK(d, r) BY ONLY Zenon, <1>1, <1>2 DEF MouseOK
<1>4. LevelsOK(r) /\ r.count > 0 /\ r.active < r.count BY DEF LevelsOK, MaxLevels
<1> QED BY Zenon, <1>2, <1>3, <1>4, MouseEdit

LEMMA DpiOwn ==
    ASSUME drv \in Driver, Own(drv, cfg), dpi_set \/ dpi_create \/ dpi_activate
    PROVE  Own(drv, cfg')
<1>1. DOMAIN cfg = Fields /\ LevelsOK(cfg) BY DEF Own, Config
<1>2. cfg.dpi \in [1..MaxLevels -> Pair] BY ONLY Zenon, <1>1 DEF LevelsOK
<1>3. CASE dpi_set
  <2>1. PICK cpi \in Tried : \E i \in 1..cfg.count :
          Edit([cfg EXCEPT !.dpi[i] = <<Snapped(cpi), Snapped(cpi)>>], <<"dpi">>)
    BY ONLY <1>3 DEF dpi_set
  <2>2. PICK i \in 1..cfg.count : Edit([cfg EXCEPT !.dpi[i] = <<Snapped(cpi), Snapped(cpi)>>], <<"dpi">>)
    BY ONLY <2>1
  <2> DEFINE v == <<Snapped(cpi), Snapped(cpi)>>
             t == [cfg.dpi EXCEPT ![i] = v]
             r == [cfg EXCEPT !.dpi = t]
  <2>3. cfg' = r BY ONLY <2>2 DEF Edit
  <2>4. t \in [1..MaxLevels -> Pair]
    <3>1. drv.lo \in Int /\ drv.hi \in Int BY DriverAssumption, Widths DEF Fits
    <3>2. cpi \in Int BY ONLY SMT, <3>1, cpi \in Tried DEF Tried
    <3>3. Snapped(cpi) \in Words BY <3>2, SnappedOK
    <3>4. v \in Pair BY ONLY <3>3 DEF Pair
    <3> HIDE DEF v
    <3> QED BY ONLY <1>2, <3>4
  <2> HIDE DEF t
  <2>5. DOMAIN r = Fields /\ r.dpi = t /\ r.count = cfg.count /\ r.active = cfg.active BY ONLY <1>1 DEF Fields
  <2>6. \A k \in Fields \ {"count", "active", "dpi"} : r[k] = cfg[k] BY ONLY <1>1
  <2> HIDE DEF r
  <2>7. drv.kind = "mouse" /\ cfg.count \in 1..MaxLevels /\ cfg.active \in 0..(cfg.count - 1)
    <3>1. cfg.count \in Int /\ cfg.count > 0 BY MouseOnly
    <3>2. drv.kind = "mouse" BY <3>1, MouseOnly
    <3> QED BY <3>1, <3>2 DEF Own, Legal
  <2>8. Own(drv, r) BY <2>4, <2>5, <2>6, <2>7, LevelEdit
  <2> QED BY ONLY <2>3, <2>8
<1>4. CASE dpi_create
  <2> DEFINE v == Snapped(cfg.dpi[cfg.count][1] * 2)
             t == [cfg.dpi EXCEPT ![cfg.count + 1] = <<v, v>>]
             n == cfg.count + 1
             r == [cfg EXCEPT !.dpi = t, !.count = n]
  <2>1. cfg' = r /\ "dpi" \in drv.caps /\ cfg.count < drv.limit BY ONLY <1>4 DEF dpi_create, Edit
  <2>2. drv.kind = "mouse" BY <2>1, MouseOnly
  <2>3. cfg.count \in 1..MaxLevels /\ cfg.active \in 0..(cfg.count - 1) BY <2>2 DEF Own, Legal
  <2>4. n \in 1..MaxLevels /\ cfg.active \in 0..(n - 1)
    <3>1. drv.limit \in 0..MaxLevels BY DriverAssumption DEF Fits
    <3> QED BY ONLY <2>1, <2>3, <3>1 DEF MaxLevels
  <2>5. t \in [1..MaxLevels -> Pair]
    <3>1. cfg.dpi[cfg.count] \in Words \X Words BY ONLY <1>2, <2>3 DEF Pair
    <3>2. cfg.dpi[cfg.count][1] * 2 \in Int BY ONLY <3>1, Widths DEF Words
    <3>3. v \in Words BY <3>2, SnappedOK
    <3>4. <<v, v>> \in Pair BY ONLY <3>3 DEF Pair
    <3> QED BY ONLY <1>2, <3>4
  <2> HIDE DEF t, n
  <2>6. DOMAIN r = Fields /\ r.dpi = t /\ r.count = n /\ r.active = cfg.active BY ONLY <1>1 DEF Fields
  <2>7. \A k \in Fields \ {"count", "active", "dpi"} : r[k] = cfg[k] BY ONLY <1>1
  <2> HIDE DEF r
  <2>8. Own(drv, r) BY Zenon, <2>2, <2>4, <2>5, <2>6, <2>7, LevelEdit
  <2> QED BY ONLY <2>1, <2>8
<1>5. CASE dpi_activate
  <2>1. PICK i \in 1..cfg.count : Edit([cfg EXCEPT !.active = i - 1], <<"dpi">>) BY ONLY <1>5 DEF dpi_activate
  <2> DEFINE a == i - 1
             r == [cfg EXCEPT !.active = a]
  <2>2. cfg' = r BY ONLY <2>1 DEF Edit
  <2>3. drv.kind = "mouse" /\ cfg.count \in 1..MaxLevels /\ a \in 0..(cfg.count - 1)
    <3>1. cfg.count \in Int /\ cfg.count > 0 BY MouseOnly
    <3>2. drv.kind = "mouse" BY <3>1, MouseOnly
    <3>3. cfg.count \in 1..MaxLevels BY <3>2 DEF Own, Legal
    <3>4. a \in 0..(cfg.count - 1) BY ONLY <3>3, i \in 1..cfg.count DEF MaxLevels
    <3> QED BY ONLY <3>2, <3>3, <3>4
  <2> HIDE DEF a
  <2>4. DOMAIN r = Fields /\ r.dpi = cfg.dpi /\ r.count = cfg.count /\ r.active = a BY ONLY <1>1 DEF Fields
  <2>5. \A k \in Fields \ {"count", "active", "dpi"} : r[k] = cfg[k] BY ONLY <1>1
  <2> HIDE DEF r
  <2>6. Own(drv, r) BY Zenon, <1>2, <2>3, <2>4, <2>5, LevelEdit
  <2> QED BY ONLY <2>2, <2>6
<1> QED BY <1>3, <1>4, <1>5

LEMMA KeepEdit ==
    ASSUME NEW d \in Driver, NEW c, Own(d, c), d.kind = "mouse",
           NEW r, DOMAIN r = Fields,
           \A k \in Fields \ {"smart", "dim", "sleep", "buttons", "acceleration"} : r[k] = c[k],
           r.smart \in BOOLEAN, r.dim \in Seconds, r.sleep \in 0..20,
           r.buttons \in [DOMAIN d.buttons -> Action], r.acceleration \in SignedBytes,
           "battery" \notin d.caps => r.smart = c.smart /\ r.dim = c.dim /\ r.sleep = c.sleep
    PROVE  Own(d, r)
<1>1. MouseOK(d, c) /\ LevelsOK(c) BY DEF Own, Config
<1>2. /\ SameDev(c, r) /\ r.reacts = c.reacts /\ r.flash = c.flash /\ r.startup = c.startup
      /\ r.count = c.count /\ r.active = c.active /\ r.dpi = c.dpi
      /\ r.deceleration = c.deceleration /\ r.snapping = c.snapping /\ r.accel = c.accel
  BY ONLY Zenon, \A k \in Fields \ {"smart", "dim", "sleep", "buttons", "acceleration"} : r[k] = c[k]
     DEF Fields, SameDev
<1>3. MouseOK(d, r) BY Zenon, <1>1, <1>2 DEF MouseOK
<1>4. LevelsOK(r) BY ONLY Zenon, <1>1, <1>2 DEF LevelsOK
<1>5. r.count > 0 /\ r.active < r.count
  <2>1. c.count > 0 /\ c.active < c.count BY DEF Own, Legal, MaxLevels
  <2> QED BY ONLY <1>2, <2>1
<1> QED BY Zenon, <1>2, <1>3, <1>4, <1>5, MouseEdit

LEMMA KeepOwn ==
    ASSUME drv \in Driver, Own(drv, cfg), button_activate \/ EditPower \/ accel_set
    PROVE  Own(drv, cfg')
<1> DEFINE Others(v) == \A k \in Fields \ {"smart", "dim", "sleep", "buttons", "acceleration"} : v[k] = cfg[k]
<1>1. DOMAIN cfg = Fields /\ MouseOK(drv, cfg) BY DEF Own, Config
<1>2. /\ cfg.smart \in BOOLEAN /\ cfg.dim \in Seconds /\ cfg.sleep \in 0..20
      /\ cfg.buttons \in [DOMAIN drv.buttons -> Action] /\ cfg.acceleration \in SignedBytes
  BY ONLY Zenon, <1>1 DEF MouseOK
<1>3. CASE button_activate
  <2>1. PICK b \in Ends(drv.buttons), a \in {<<"key", 40>>, <<"disabled", 0>>} :
          Edit([cfg EXCEPT !.buttons[b] = a], <<"buttons">>)
    BY ONLY <1>3 DEF button_activate
  <2> DEFINE t == [cfg.buttons EXCEPT ![b] = a]
             r == [cfg EXCEPT !.buttons = t]
  <2>2. cfg' = r BY ONLY <2>1 DEF Edit
  <2>3. t \in [DOMAIN drv.buttons -> Action]
    <3>1. 40 \in Words /\ 0 \in Words BY ONLY Widths DEF Words
    <3>2. <<"key", 40>> \in Action /\ <<"disabled", 0>> \in Action BY ONLY <3>1 DEF Action, ActionType
    <3>3. a \in Action BY ONLY Zenon, <3>2, a \in {<<"key", 40>>, <<"disabled", 0>>}
    <3> QED BY ONLY <1>2, <3>3
  <2> HIDE DEF t
  <2>4. drv.kind = "mouse"
    <3>1. drv.buttons # <<>> BY ONLY b \in Ends(drv.buttons) DEF Ends
    <3> QED BY <3>1, MouseOnly
  <2>5. /\ DOMAIN r = Fields /\ r.buttons = t /\ r.smart = cfg.smart /\ r.dim = cfg.dim /\ r.sleep = cfg.sleep
        /\ r.acceleration = cfg.acceleration
    BY ONLY <1>1 DEF Fields
  <2>6. Others(r) BY ONLY <1>1
  <2> HIDE DEF r
  <2>7. Own(drv, r) BY Zenon, <1>2, <2>3, <2>4, <2>5, <2>6, KeepEdit
  <2> QED BY ONLY <2>2, <2>7
<1>4. CASE EditPower
  <2>1. "battery" \in drv.caps BY ONLY <1>4 DEF EditPower
  <2>2. drv.kind = "mouse" BY <2>1, MouseOnly
  <2>3. ASSUME NEW m \in {0, 20}, Edit([cfg EXCEPT !.sleep = m], <<"sleep">>) PROVE Own(drv, cfg')
    <3> DEFINE r == [cfg EXCEPT !.sleep = m]
    <3>1. cfg' = r BY ONLY <2>3 DEF Edit
    <3>2. /\ DOMAIN r = Fields /\ r.sleep = m /\ r.smart = cfg.smart /\ r.dim = cfg.dim
          /\ r.buttons = cfg.buttons /\ r.acceleration = cfg.acceleration
      BY ONLY <1>1 DEF Fields
    <3>3. Others(r) BY ONLY <1>1
    <3> HIDE DEF r
    <3>4. r.sleep \in 0..20 BY ONLY <3>2, m \in {0, 20}
    <3>5. Own(drv, r) BY Zenon, <1>2, <2>1, <2>2, <3>2, <3>3, <3>4, KeepEdit
    <3> QED BY ONLY <3>1, <3>5
  <2>4. ASSUME Edit([cfg EXCEPT !.dim = 1200], <<"brightness">>) PROVE Own(drv, cfg')
    <3> DEFINE s == 1200
               r == [cfg EXCEPT !.dim = s]
    <3>1. cfg' = r BY ONLY <2>4 DEF Edit
    <3>2. s \in Seconds BY ONLY SMT DEF Seconds
    <3> HIDE DEF s
    <3>3. /\ DOMAIN r = Fields /\ r.dim = s /\ r.smart = cfg.smart /\ r.sleep = cfg.sleep
          /\ r.buttons = cfg.buttons /\ r.acceleration = cfg.acceleration
      BY ONLY <1>1 DEF Fields
    <3>4. Others(r) BY ONLY <1>1
    <3> HIDE DEF r
    <3>5. Own(drv, r) BY Zenon, <1>2, <2>1, <2>2, <3>2, <3>3, <3>4, KeepEdit
    <3> QED BY ONLY <3>1, <3>5
  <2>5. ASSUME Edit([cfg EXCEPT !.smart = ~@], <<"brightness">>) PROVE Own(drv, cfg')
    <3> DEFINE on == ~cfg.smart
               r == [cfg EXCEPT !.smart = on]
    <3>1. cfg' = r BY ONLY Zenon, <2>5 DEF Edit
    <3>2. on \in BOOLEAN BY ONLY Zenon DEF on
    <3> HIDE DEF on
    <3>3. /\ DOMAIN r = Fields /\ r.smart = on /\ r.dim = cfg.dim /\ r.sleep = cfg.sleep
          /\ r.buttons = cfg.buttons /\ r.acceleration = cfg.acceleration
      BY ONLY Zenon, <1>1 DEF Fields
    <3>4. Others(r)
      BY ONLY Zenon, <1>1
    <3> HIDE DEF r
    <3>5. Own(drv, r) BY Zenon, <1>2, <2>1, <2>2, <3>2, <3>3, <3>4, KeepEdit
    <3> QED BY ONLY <3>1, <3>5
  <2> QED BY <1>4, <2>3, <2>4, <2>5 DEF EditPower
<1>5. CASE accel_set
  <2> DEFINE r == [cfg EXCEPT !.acceleration = 100]
  <2>1. cfg' = r /\ drv.caps \cap Transform # {} BY ONLY <1>5 DEF accel_set, Edit
  <2>2. drv.kind = "mouse" BY <2>1, MouseOnly
  <2>3. /\ DOMAIN r = Fields /\ r.acceleration = 100 /\ r.smart = cfg.smart /\ r.dim = cfg.dim
        /\ r.sleep = cfg.sleep /\ r.buttons = cfg.buttons
    BY ONLY <1>1 DEF Fields
  <2>4. Others(r) BY ONLY <1>1
  <2> HIDE DEF r
  <2>5. r.acceleration \in SignedBytes BY ONLY <2>3 DEF SignedBytes
  <2>6. Own(drv, r) BY Zenon, <1>2, <2>2, <2>3, <2>4, <2>5, KeepEdit
  <2> QED BY ONLY <2>1, <2>6
<1> QED BY <1>3, <1>4, <1>5

LEMMA EditOwn ==
    ASSUME drv \in Driver, Own(drv, cfg), EditAny
    PROVE  Own(drv, cfg')
  BY ZoneOwn, LightOwn, DpiOwn, KeepOwn DEF EditAny

-----------------------------------------------------------------------------
(* The invariant, in parts.                                                    *)

\* every edit pushes steps that the driver has
LEMMA Edits ==
    ASSUME Setting, EditAny
    PROVE  \E c : \E steps \in Seq(Steps) : Edit(c, steps)
<1>0. drv \in Driver /\ Own(drv, cfg) /\ HasSteps(drv) BY DriverAssumption DEF Setting
<1>1. \A s \in Steps : <<s>> \in Seq(Steps) OBVIOUS
<1>2. <<>> \in Seq(Steps) OBVIOUS
<1>3. CASE EditZone
  <2>1. "colors" \in Steps BY ONLY <1>0, <1>3 DEF EditZone, HasSteps, Steps
  <2>2. <<"colors">> \in Seq(Steps) BY ONLY <1>1, <2>1
  <2>3. \E c : Edit(c, <<"colors">>) BY ONLY Zenon, <1>3 DEF EditZone
  <2> QED BY ONLY Zenon, <2>2, <2>3
<1>4. CASE EditBrightness
  <2>1. "brightness" \in Steps BY ONLY <1>0, <1>4 DEF EditBrightness, HasSteps, Steps
  <2>2. <<"brightness">> \in Seq(Steps) BY ONLY <1>1, <2>1
  <2>3. \E c : Edit(c, <<"brightness">>) BY ONLY Zenon, <1>4 DEF EditBrightness
  <2> QED BY ONLY Zenon, <2>2, <2>3
<1>5. CASE EditRate
  <2>1. \E c : Edit(c, <<"polling">>) BY ONLY SMT, <1>5 DEF EditRate
  <2>2. drv.rates # <<>> BY ONLY <1>5 DEF EditRate, Range
  <2>3. "polling" \in Steps BY ONLY <1>0, <2>2 DEF HasSteps, Steps
  <2>4. <<"polling">> \in Seq(Steps) BY ONLY <1>1, <2>3
  <2> QED BY ONLY Zenon, <2>1, <2>4
<1>6. CASE dpi_set \/ dpi_create \/ dpi_activate
  <2>1. \E c : Edit(c, <<"dpi">>) BY ONLY Zenon, <1>6 DEF dpi_set, dpi_create, dpi_activate
  <2>2. drv.kind = "mouse"
    <3>1. dpi_create => "dpi" \in drv.caps BY ONLY SMT DEF dpi_create
    <3>2. dpi_set \/ dpi_activate => \E i \in 1..cfg.count : TRUE BY ONLY Zenon DEF dpi_set, dpi_activate
    <3>3. cfg.count \in Int /\ (cfg.count > 0 => drv.kind = "mouse") BY <1>0, MouseOnly
    <3>4. "dpi" \in drv.caps => drv.kind = "mouse" BY <1>0, MouseOnly
    <3> QED BY ONLY <1>6, <3>1, <3>2, <3>3, <3>4
  <2>3. drv.levels # <<>> BY <1>0, <2>2, DriverAssumption DEF KeepsKind
  <2>4. "dpi" \in Steps BY ONLY <1>0, <2>3 DEF HasSteps, Steps
  <2>5. <<"dpi">> \in Seq(Steps) BY ONLY <1>1, <2>4
  <2> QED BY ONLY Zenon, <2>1, <2>5
<1>7. CASE button_activate
  <2>1. \E c : Edit(c, <<"buttons">>) BY ONLY Zenon, <1>7 DEF button_activate
  <2>2. drv.buttons # <<>> BY ONLY <1>7 DEF button_activate, Ends
  <2>3. "buttons" \in Steps BY ONLY <1>0, <2>2 DEF HasSteps, Steps
  <2>4. <<"buttons">> \in Seq(Steps) BY ONLY <1>1, <2>3
  <2> QED BY ONLY Zenon, <2>1, <2>4
<1>8. CASE EditPower
  <2>1. \E c : Edit(c, <<"sleep">>) \/ Edit(c, <<"brightness">>) BY ONLY SMT, <1>8 DEF EditPower
  <2>2. "battery" \in drv.caps BY ONLY <1>8 DEF EditPower
  <2>3. "sleep" \in Steps /\ "brightness" \in Steps BY ONLY <1>0, <2>2 DEF HasSteps, Steps
  <2>4. <<"sleep">> \in Seq(Steps) /\ <<"brightness">> \in Seq(Steps) BY ONLY <1>1, <2>3
  <2> QED BY ONLY Zenon, <2>1, <2>4
<1>9. CASE accel_set
  <2>1. \E c : Edit(c, <<>>) BY ONLY Zenon, <1>9 DEF accel_set
  <2> QED BY ONLY Zenon, <1>2, <2>1
<1> QED BY ONLY EditAny, <1>3, <1>4, <1>5, <1>6, <1>7, <1>8, <1>9 DEF EditAny

\* and changes nothing else
LEMMA EditOnly ==
    ASSUME Setting, EditAny
    PROVE  /\ pc = "session" /\ queue = <<>> /\ settled' = FALSE
           /\ UNCHANGED <<drv, dev, flash, file, pc, line, args, saves, bound, active, base, failed, code, want,
                          stored, touched, ran, runs, faults>>
           /\ \E steps \in Seq(Steps) : queue' = Push(steps, cfg')
  BY Edits DEF Edit, Idle, device, command

LEMMA SameDriver == ASSUME Setting, [Next]_vars PROVE drv' = drv
<1>1. CASE UNCHANGED vars BY <1>1 DEF vars
<1>2. CASE Start \/ ParseEnds \/ ParseOption \/ ParseSave \/ OpenSession \/ OpenDevice
  BY Zenon, <1>2 DEF Start, ParseEnds, ParseOption, ParseSave, OpenSession, OpenDevice, Exit
<1>3. CASE BindNext \/ BindDone \/ Send \/ SendFails \/ StepDone \/ FinishOneShot
  BY <1>3 DEF BindNext, BindDone, Send, SendFails, StepDone, FinishOneShot, Exit, pushing
<1>4. CASE EditAny
  BY <1>4, EditOnly
<1>5. CASE Save \/ FlashSave \/ Store \/ Quit \/ Leave \/ HandEdit \/ Replug
  BY Zenon, <1>5 DEF Save, FlashSave, Store, Quit, Leave, HandEdit, Replug
<1> QED BY <1>1, <1>2, <1>3, <1>4, <1>5 DEF Next

LEMMA SettingStep == ASSUME Setting, Filed, Command, [Next]_vars PROVE Setting'
<1>0. drv' = drv /\ drv \in Driver /\ Own(drv, cfg) /\ Own(drv, base) BY SameDriver DEF Setting
<1>1. ASSUME UNCHANGED <<cfg, base>> PROVE Setting' BY ONLY <1>0, <1>1 DEF Setting
<1>2. CASE Start
  <2>1. cfg' = config_defaults(drv) /\ base' = config_defaults(drv) BY ONLY <1>2 DEF Start
  <2>2. Own(drv, config_defaults(drv)) BY ONLY <1>0, Defaults
  <2> QED BY ONLY <1>0, <2>1, <2>2 DEF Setting
<1>3. CASE OpenSession
  <2>1. cfg' = alloy_state_load(drv, file) /\ base' = cfg' BY ONLY <1>3 DEF OpenSession
  <2>2. Own(drv, alloy_state_load(drv, file)) BY <1>0, Loaded DEF Filed
  <2> QED BY ONLY <1>0, <2>1, <2>2 DEF Setting
<1>4. CASE BindNext
  <2>1. CASE UNCHANGED <<cfg, base>> BY ONLY <1>1, <2>1
  <2>2. CASE ~(UNCHANGED <<cfg, base>>)
    <3> DEFINE a == args[bound + 1]
    <3>1. /\ bound < Len(args) /\ option_available(a.opt) /\ Parses(a.opt, a.val)
          /\ cfg' = With(cfg, a.opt, a.val) /\ base' = base
      BY ONLY <1>4, <2>2 DEF BindNext, Exit
    <3>2. a \in Arg
      <4>1. args \in Seq(Arg) /\ bound \in 0..Len(args) BY DEF Command
      <4>2. Len(args) \in Nat BY ONLY <4>1, LenProperties
      <4>3. bound + 1 \in 1..Len(args) BY ONLY <3>1, <4>1, <4>2
      <4> QED BY ONLY <4>1, <4>3, ElementOfSeq
    <3> HIDE DEF a
    <3>3. a.opt \in Options /\ a.val \in Value BY ONLY <3>2 DEF Arg
    <3>4. Own(drv, With(cfg, a.opt, a.val)) BY ONLY Zenon, <1>0, <3>1, <3>3, WithOwn
    <3> QED BY ONLY <1>0, <3>1, <3>4 DEF Setting
  <2> QED BY ONLY <2>1, <2>2
<1>5. CASE EditAny
  <2>1. Own(drv, cfg') BY ONLY <1>0, <1>5, EditOwn
  <2>2. base' = base
    BY <1>5, EditOnly
  <2> QED BY ONLY <1>0, <2>1, <2>2 DEF Setting
<1>6. CASE FlashSave
  <2>1. cfg' = cfg /\ base' \in {cfg, base} BY ONLY <1>6 DEF FlashSave
  <2> QED BY ONLY <1>0, <2>1 DEF Setting
<1>7. CASE Quit
  <2>1. cfg' = base /\ base' = base BY ONLY <1>7 DEF Quit
  <2> QED BY ONLY <1>0, <2>1 DEF Setting
<1>8. CASE \/ UNCHANGED vars \/ ParseEnds \/ ParseOption \/ ParseSave \/ OpenDevice
           \/ BindDone \/ Send \/ SendFails \/ StepDone \/ FinishOneShot
           \/ Save \/ Store \/ Leave \/ HandEdit \/ Replug
  <2>1. UNCHANGED <<cfg, base>>
    BY ONLY Zenon, <1>8 DEF vars, ParseEnds, ParseOption, ParseSave, OpenDevice, Exit, BindDone, Send, SendFails,
       StepDone, FinishOneShot, pushing, Save, Store, Leave, HandEdit, Replug
  <2> QED BY ONLY <1>1, <2>1
<1> QED BY <1>2, <1>3, <1>4, <1>5, <1>6, <1>7, <1>8 DEF Next

LEMMA FiledStep == ASSUME Setting, Filed, [Next]_vars PROVE Filed'
<1>0. drv' = drv /\ drv \in Driver /\ Own(drv, cfg) BY SameDriver DEF Setting
<1>1. ASSUME UNCHANGED <<file, stored>> PROVE Filed' BY ONLY <1>0, <1>1, Filed DEF Filed
<1>2. CASE Store
  <2>1. CASE file' = <<state_save(drv, cfg)>> /\ stored' = <<cfg>>
    <3>1. FileOK(drv, state_save(drv, cfg)) BY <1>0, SavedFile DEF Own
    <3> QED BY ONLY <1>0, <2>1, <3>1 DEF Filed
  <2>2. CASE file' = Emptied /\ stored' = <<>>
    <3>1. FileOK(drv, <<>>) BY DEF FileOK
    <3> QED BY ONLY <1>0, <2>2, <3>1 DEF Filed, Emptied
  <2>3. CASE UNCHANGED <<file, stored>> BY ONLY <1>1, <2>3
  <2> QED BY ONLY <1>2, <2>1, <2>2, <2>3 DEF Store
<1>3. CASE HandEdit
  <2>1. PICK k \in DOMAIN file[1] \cap DOMAIN Texts : \E t \in Texts[k] :
          file' = <<IF t = NoLine THEN [x \in DOMAIN file[1] \ {k} |-> file[1][x]]
                                  ELSE [file[1] EXCEPT ![k] = t]>>
    BY ONLY <1>3 DEF HandEdit
  <2>2. PICK t \in Texts[k] :
          file' = <<IF t = NoLine THEN [x \in DOMAIN file[1] \ {k} |-> file[1][x]]
                                  ELSE [file[1] EXCEPT ![k] = t]>>
    BY ONLY <2>1
  <2>3. stored' = <<>> /\ file # NoFile BY ONLY <1>3 DEF HandEdit
  <2>4. PICK g : file = <<g>> /\ FileOK(drv, g) BY <2>3 DEF Filed
  <2> DEFINE h == IF t = NoLine THEN [x \in DOMAIN g \ {k} |-> g[x]] ELSE [g EXCEPT ![k] = t]
  <2>5. file[1] = g BY ONLY <2>4
  <2>6. file' = <<h>> BY ONLY <2>2, <2>5
  <2>7. k \in DOMAIN g /\ (t = NoLine \/ Legible(k, t)) BY ONLY <2>1, <2>2, <2>5, InputAssumption
  <2>8. FileOK(drv, h)
    <3>1. DOMAIN g \subseteq Lines(drv) /\ \A x \in DOMAIN g : Legible(x, g[x]) BY ONLY <2>4 DEF FileOK
    <3>2. CASE t = NoLine
      <4>1. h = [x \in DOMAIN g \ {k} |-> g[x]] BY ONLY <3>2
      <4> HIDE DEF h
      <4>2. DOMAIN h \subseteq DOMAIN g /\ \A x \in DOMAIN h : h[x] = g[x] BY ONLY Zenon, <4>1
      <4> QED BY ONLY <3>1, <4>2 DEF FileOK
    <3>3. CASE t # NoLine
      <4>1. h = [g EXCEPT ![k] = t] BY ONLY <3>3
      <4> HIDE DEF h
      <4>2. DOMAIN h = DOMAIN g /\ h[k] = t /\ \A x \in DOMAIN h \ {k} : h[x] = g[x]
        BY ONLY Zenon, <2>7, <4>1
      <4>3. \A x \in DOMAIN h : Legible(x, h[x]) BY ONLY Zenon, <2>7, <3>1, <3>3, <4>2
      <4> QED BY ONLY <3>1, <4>2, <4>3 DEF FileOK
    <3> QED BY ONLY <3>2, <3>3
  <2> HIDE DEF h
  <2> QED BY ONLY <1>0, <2>3, <2>6, <2>8 DEF Filed
<1>4. CASE EditAny
  <2>1. UNCHANGED <<file, stored>>
    BY <1>4, EditOnly
  <2> QED BY ONLY <1>1, <2>1
<1>5. CASE \/ UNCHANGED vars \/ Start \/ ParseEnds \/ ParseOption \/ ParseSave \/ OpenSession \/ OpenDevice
           \/ BindNext \/ BindDone \/ Send \/ SendFails \/ StepDone \/ FinishOneShot
           \/ Save \/ FlashSave \/ Quit \/ Leave \/ Replug
  <2>1. UNCHANGED <<file, stored>>
    BY ONLY Zenon, <1>5 DEF vars, Start, ParseEnds, ParseOption, ParseSave, OpenSession, OpenDevice, Exit, BindNext,
       BindDone, Send, SendFails, StepDone, FinishOneShot, pushing, Save, FlashSave, Quit, Leave, Replug, history
  <2> QED BY ONLY <1>1, <2>1
<1> QED BY <1>2, <1>3, <1>4, <1>5 DEF Next

LEMMA Pushed ==
    ASSUME NEW steps \in Seq(Steps), NEW c
    PROVE  /\ Queued(Push(steps, c)) /\ DOMAIN Push(steps, c) = DOMAIN steps
           /\ \A i \in DOMAIN steps : Push(steps, c)[i].step = steps[i]
           /\ steps = <<>> => Push(steps, c) = <<>>
<1> DEFINE q == Push(steps, c)
           p(i) == Packets(drv, steps[i], c)
           S == {[step |-> steps[i], left |-> p(i), nack |-> FALSE] : i \in DOMAIN steps}
<1>1. q = [i \in DOMAIN steps |-> [step |-> steps[i], left |-> p(i), nack |-> FALSE]] BY ONLY SMT DEF Push
<1> HIDE DEF p
<1>2. DOMAIN steps = 1..Len(steps) /\ Len(steps) \in Nat BY ONLY LenProperties, steps \in Seq(Steps)
<1>3. \A i \in DOMAIN steps : steps[i] \in Steps BY ONLY <1>2, ElementOfSeq, steps \in Seq(Steps)
<1>4. q \in Seq(S)
  <2>1. q \in [1..Len(steps) -> S] BY ONLY <1>1, <1>2
  <2> HIDE DEF S, q
  <2> QED BY ONLY <1>2, <2>1, SeqDef
<1>5. \A e \in S : DOMAIN e = Entry /\ e.step \in Steps BY ONLY <1>3 DEF Entry
<1>6. Queued(q) BY ONLY Zenon, <1>4, <1>5 DEF Queued
<1>7. DOMAIN q = DOMAIN steps /\ \A i \in DOMAIN steps : q[i].step = steps[i] BY ONLY <1>1
<1>8. steps = <<>> => q = <<>>
  <2>1. SUFFICES ASSUME steps = <<>> PROVE q = <<>> OBVIOUS
  <2> HIDE DEF q, S
  <2>2. Len(q) = 0
    <3>1. DOMAIN q = 1..0 BY ONLY <1>2, <1>7, <2>1
    <3>2. DOMAIN q = 1..Len(q) /\ Len(q) \in Nat BY ONLY <1>4, LenProperties
    <3> QED BY ONLY <3>1, <3>2
  <2> QED BY ONLY <1>4, <2>2, EmptySeq
<1> QED BY ONLY <1>6, <1>7, <1>8 DEF q

LEMMA QueueTail ==
    ASSUME NEW q, Queued(q), q # <<>>
    PROVE  /\ Queued(Tail(q)) /\ q[1].step \in Steps /\ DOMAIN q[1] = Entry /\ Len(q) \in Nat \ {0} /\ DOMAIN q = 1..Len(q)
           /\ \A i \in 2..Len(q) : i - 1 \in DOMAIN Tail(q) /\ Tail(q)[i - 1] = q[i]
<1>1. PICK S : q \in Seq(S) /\ \A e \in S : DOMAIN e = Entry /\ e.step \in Steps BY DEF Queued
<1>2. Len(q) \in Nat \ {0} BY ONLY <1>1, EmptySeq, q # <<>>
<1>3. /\ Tail(q) \in Seq(S) /\ Len(Tail(q)) = Len(q) - 1
      /\ \A i \in 1..Len(Tail(q)) : Tail(q)[i] = q[i + 1]
  BY ONLY <1>1, HeadTailProperties, q # <<>>
<1>4. q[1] \in S BY ONLY <1>1, <1>2, ElementOfSeq
<1>5. DOMAIN Tail(q) = 1..Len(Tail(q)) /\ DOMAIN q = 1..Len(q) BY ONLY <1>1, <1>3, LenProperties
<1>6. ASSUME NEW i \in 2..Len(q) PROVE i - 1 \in DOMAIN Tail(q) /\ Tail(q)[i - 1] = q[i]
  <2>1. i - 1 \in 1..Len(Tail(q)) /\ (i - 1) + 1 = i BY ONLY <1>2, <1>3, i \in 2..Len(q)
  <2> QED BY ONLY <1>3, <1>5, <2>1
<1>7. Queued(Tail(q)) BY ONLY Zenon, <1>1, <1>3 DEF Queued
<1>8. q[1].step \in Steps /\ DOMAIN q[1] = Entry BY ONLY <1>1, <1>4
<1> QED BY ONLY <1>2, <1>5, <1>6, <1>7, <1>8

LEMMA QueueHead ==
    ASSUME NEW q, Queued(q), q # <<>>, NEW e, DOMAIN e = Entry, e.step = q[1].step
    PROVE  /\ Queued([q EXCEPT ![1] = e]) /\ DOMAIN [q EXCEPT ![1] = e] = DOMAIN q
           /\ [q EXCEPT ![1] = e] # <<>>
           /\ \A i \in DOMAIN q : [q EXCEPT ![1] = e][i].step = q[i].step
<1> DEFINE r == [q EXCEPT ![1] = e]
<1>1. PICK S : q \in Seq(S) /\ \A x \in S : DOMAIN x = Entry /\ x.step \in Steps BY DEF Queued
<1> DEFINE T == S \cup {e}
<1>2. Len(q) \in Nat \ {0} /\ q[1].step \in Steps BY QueueTail
<1>3. q \in Seq(T) BY ONLY <1>1, SeqMonotonic
<1>4. e \in T /\ 1 \in 1..Len(q) BY ONLY <1>2
<1>5. r \in Seq(T) /\ Len(r) = Len(q) /\ \A i \in 1..Len(q) : r[i] = IF i = 1 THEN e ELSE q[i]
  BY ONLY <1>3, <1>4, ExceptSeq
<1>6. \A x \in T : DOMAIN x = Entry /\ x.step \in Steps
  BY ONLY <1>1, <1>2, DOMAIN e = Entry, e.step = q[1].step
<1> HIDE DEF T, r
<1>7. Queued(r) BY ONLY Zenon, <1>5, <1>6 DEF Queued
<1>8. DOMAIN q = 1..Len(q) /\ DOMAIN r = 1..Len(r) BY ONLY <1>3, <1>5, LenProperties
<1>9. r # <<>> BY ONLY <1>2, <1>5, EmptySeq
<1>10. \A i \in DOMAIN q : r[i].step = q[i].step BY ONLY <1>5, <1>8, e.step = q[1].step
<1> QED BY ONLY <1>5, <1>7, <1>8, <1>9, <1>10 DEF r

\* the table of a driver, with and without its CPI step
LEMMA StepTables ==
    ASSUME drv \in Driver
    PROVE  drv.steps \in Seq(Steps) /\ SyncSteps \in Seq(Steps)
<1>1. drv.steps \in Seq(Steps) BY DriverAssumption DEF HasSteps, Steps
<1>2. ASSUME NEW i \in DOMAIN drv.steps PROVE RemoveAt(drv.steps, i) \in Seq(Steps)
  <2> DEFINE s == drv.steps
  <2>1. DOMAIN s = 1..Len(s) /\ Len(s) \in Nat BY ONLY <1>1, LenProperties
  <2>2. \A j \in 1..Len(s) : s[j] \in Steps BY ONLY <1>1, ElementOfSeq
  <2> HIDE DEF s
  <2>3. i \in 1..Len(s) BY ONLY <2>1, i \in DOMAIN drv.steps DEF s
  <2>4. (\A j \in 1..(i - 1) : s[j] \in Steps) /\ (\A j \in (i + 1)..Len(s) : s[j] \in Steps)
    BY ONLY <2>1, <2>2, <2>3
  <2>5. SubSeq(s, 1, i - 1) \in Seq(Steps)
    <3>1. 1 \in Int /\ i - 1 \in Int BY ONLY <2>3
    <3> QED BY ONLY <2>4, <3>1, SubSeqProperties
  <2>6. SubSeq(s, i + 1, Len(s)) \in Seq(Steps)
    <3>1. i + 1 \in Int /\ Len(s) \in Int BY ONLY <2>1, <2>3
    <3> QED BY ONLY <2>4, <3>1, SubSeqProperties
  <2>7. SubSeq(s, 1, i - 1) \o SubSeq(s, i + 1, Len(s)) \in Seq(Steps) BY ONLY <2>5, <2>6, ConcatProperties
  <2> QED BY ONLY <2>7 DEF s, RemoveAt
<1>3. SyncSteps \in Seq(Steps)
  <2> DEFINE dpi == {i \in DOMAIN drv.steps : drv.steps[i] = "dpi"}
  <2>1. SyncSteps = IF dpi = {} THEN drv.steps ELSE RemoveAt(drv.steps, CHOOSE i \in dpi : TRUE)
    BY ONLY SMT DEF SyncSteps
  <2>2. dpi # {} => (CHOOSE i \in dpi : TRUE) \in dpi BY ONLY Zenon
  <2>3. dpi \subseteq DOMAIN drv.steps BY ONLY SMT
  <2> HIDE DEF dpi
  <2>4. dpi # {} => (CHOOSE i \in dpi : TRUE) \in DOMAIN drv.steps BY ONLY <2>2, <2>3
  <2> QED BY ONLY Zenon, <1>1, <1>2, <2>1, <2>4
<1> QED BY ONLY <1>1, <1>3

LEMMA CommandStep == ASSUME Setting, Command, [Next]_vars PROVE Command'
<1>0. line \in Seq(WordRec) /\ args \in Seq(Arg) /\ bound \in 0..Len(args) /\ Len(args) \in Nat
  BY LenProperties DEF Command
<1>1. ASSUME UNCHANGED <<line, args, bound>> PROVE Command' BY ONLY <1>0, <1>1 DEF Command
<1>2. CASE Start
  <2>1. line' \in CommandLine /\ args' = <<>> /\ bound' = 0 BY ONLY <1>2 DEF Start
  <2>2. line' \in Seq(WordRec) BY ONLY <2>1, InputAssumption DEF WordRec
  <2>3. <<>> \in Seq(Arg) /\ Len(<<>>) = 0 BY ONLY EmptySeq
  <2> QED BY ONLY <2>1, <2>2, <2>3 DEF Command
<1>3. CASE ParseOption
  <2> DEFINE opt == Option(Head(line).w)
             arity == option_arity(opt)
             takes == arity = 1 \/ (arity = 2 /\ Len(line) > 1 /\ line[2].w = "")
             v == IF takes THEN line[2] ELSE NoVal
             a == [opt |-> opt, val |-> v]
  <2>1. /\ line # <<>> /\ arity > 0 /\ (arity = 1 => Len(line) > 1)
        /\ args' = Append(args, a) /\ line' = (IF takes THEN Tail(Tail(line)) ELSE Tail(line))
        /\ bound' = bound
    BY ONLY Zenon, <1>3 DEF ParseOption
  <2>2. opt \in Options
    <3>1. opt \in Options \cup {"unknown"} BY ONLY Zenon DEF Option, Options
    <3>2. opt = "unknown" => arity = -1 BY ONLY Zenon DEF option_arity
    <3> HIDE DEF opt, arity
    <3>3. arity > 0 BY ONLY Zenon, <2>1
    <3>4. -1 > 0 => FALSE OBVIOUS
    <3>5. opt # "unknown" BY ONLY Zenon, <3>2, <3>3, <3>4
    <3> QED BY ONLY Zenon, <3>1, <3>5
  <2>3. Len(line) \in Nat BY ONLY <1>0, LenProperties
  <2>4. takes => Len(line) > 1 BY ONLY Zenon, <2>1
  <2>5. v \in Value
    <3>1. Len(line) > 1 => 2 \in 1..Len(line) BY ONLY <2>3
    <3>2. Len(line) > 1 => line[2] \in WordRec BY ONLY <1>0, <3>1, ElementOfSeq
    <3> HIDE DEF takes
    <3> QED BY ONLY Zenon, <2>4, <3>2 DEF v, Value
  <2>6. Tail(line) \in Seq(WordRec) /\ Len(Tail(line)) = Len(line) - 1 BY ONLY Zenon, <1>0, <2>1, HeadTailProperties
  <2>7. takes => Tail(Tail(line)) \in Seq(WordRec)
    <3>1. Len(line) > 1 => Len(Tail(line)) # 0 BY ONLY SMT, <2>3, <2>6
    <3>2. Len(line) > 1 => Tail(line) # <<>> BY ONLY <2>6, <3>1, EmptySeq
    <3> HIDE DEF takes
    <3> QED BY ONLY <2>4, <2>6, <3>2, HeadTailProperties
  <2> HIDE DEF opt, takes, v
  <2>8. a \in Arg BY ONLY <2>2, <2>5 DEF Arg
  <2> HIDE DEF a
  <2>9. Append(args, a) \in Seq(Arg) /\ Len(Append(args, a)) = Len(args) + 1
    BY ONLY <1>0, <2>8, AppendProperties
  <2>10. line' \in Seq(WordRec) BY ONLY <2>1, <2>6, <2>7
  <2>11. bound' \in 0..Len(args') BY ONLY <1>0, <2>1, <2>9
  <2> QED BY ONLY <2>1, <2>9, <2>10, <2>11 DEF Command
<1>4. CASE ParseSave
  <2>1. line # <<>> /\ line' = Tail(line) /\ args' = args /\ bound' = bound BY ONLY <1>4 DEF ParseSave
  <2>2. Tail(line) \in Seq(WordRec) BY ONLY <1>0, <2>1, HeadTailProperties
  <2> QED BY ONLY <1>0, <2>1, <2>2 DEF Command
<1>5. CASE BindNext
  <2>1. bound < Len(args) /\ bound' \in {bound, bound + 1} /\ UNCHANGED <<line, args>>
    BY ONLY <1>5 DEF BindNext
  <2>2. bound' \in 0..Len(args') BY ONLY <1>0, <2>1
  <2> QED BY ONLY <1>0, <2>1, <2>2 DEF Command
<1>6. CASE EditAny BY <1>1, <1>6, EditOnly
<1>7. CASE \/ UNCHANGED vars \/ ParseEnds \/ OpenSession \/ OpenDevice
           \/ BindDone \/ Send \/ SendFails \/ StepDone \/ FinishOneShot
           \/ Save \/ FlashSave \/ Store \/ Quit \/ Leave \/ HandEdit \/ Replug
  <2>1. UNCHANGED <<line, args, bound>>
    BY ONLY Zenon, <1>7 DEF vars, command, ParseEnds, OpenSession, OpenDevice, BindDone,
       Send, SendFails, StepDone, FinishOneShot, pushing, Save, FlashSave, Store, Quit, Leave, HandEdit, Replug
  <2> QED BY ONLY <1>1, <2>1
<1> QED BY <1>2, <1>3, <1>4, <1>5, <1>6, <1>7 DEF Next

\* the next flag, when it is accepted
LEMMA Accepted ==
    ASSUME Setting, Command, bound < Len(args),
           option_available(args[bound + 1].opt), Parses(args[bound + 1].opt, args[bound + 1].val)
    PROVE  apply_step(args[bound + 1].opt) \in Seq(Steps)
<1> DEFINE opt == args[bound + 1].opt
<1>1. HasSteps(drv) /\ KeepsKind(drv) BY DriverAssumption DEF Setting
<1>2. \A s \in Steps : <<s>> \in Seq(Steps) OBVIOUS
<1>3. CASE opt \in {"color", "fx"}
  <2>1. "color" \in drv.caps \/ drv.fx > 1 BY ONLY Zenon, <1>3, option_available(opt) DEF option_available
  <2>2. "colors" \in Steps BY ONLY <1>1, <2>1 DEF HasSteps, Steps
  <2>3. apply_step(opt) = <<"colors">> BY ONLY Zenon, <1>3 DEF apply_step
  <2> QED BY ONLY <1>2, <2>2, <2>3
<1>4. CASE opt = "brightness"
  <2>1. "brightness" \in drv.caps BY ONLY Zenon, <1>4, option_available(opt) DEF option_available
  <2>2. "brightness" \in Steps BY ONLY <1>1, <2>1 DEF HasSteps, Steps
  <2>3. apply_step(opt) = <<"brightness">> BY ONLY Zenon, <1>4 DEF apply_step
  <2> QED BY ONLY <1>2, <2>2, <2>3
<1>5. CASE opt = "polling"
  <2>1. drv.rates # <<>> BY ONLY Zenon, <1>5, option_available(opt) DEF option_available
  <2>2. "polling" \in Steps BY ONLY <1>1, <2>1 DEF HasSteps, Steps
  <2>3. apply_step(opt) = <<"polling">> BY ONLY Zenon, <1>5 DEF apply_step
  <2> QED BY ONLY <1>2, <2>2, <2>3
<1>6. CASE opt = "dpi"
  <2>1. "dpi" \in drv.caps BY ONLY Zenon, <1>6, option_available(opt) DEF option_available
  <2>2. drv.levels # <<>> BY ONLY <1>1, <2>1 DEF KeepsKind
  <2>3. "dpi" \in Steps BY ONLY <1>1, <2>2 DEF HasSteps, Steps
  <2>4. apply_step(opt) = <<"dpi">> BY ONLY Zenon, <1>6 DEF apply_step
  <2> QED BY ONLY <1>2, <2>3, <2>4
<1>7. CASE opt \notin {"color", "fx", "brightness", "polling", "dpi"}
  <2>1. apply_step(opt) = <<>> BY ONLY Zenon, <1>7 DEF apply_step
  <2> QED BY ONLY <2>1, EmptySeq
<1> QED BY ONLY <1>3, <1>4, <1>5, <1>6, <1>7

LEMMA NothingQueued == Queued(<<>>) /\ <<>> \in Seq(Steps) /\ DOMAIN <<>> \subseteq Steps
<1> DEFINE N == {}
<1>1. <<>> \in Seq(N) BY ONLY EmptySeq
<1>2. \A e \in N : DOMAIN e = Entry /\ e.step \in Steps OBVIOUS
<1> HIDE DEF N
<1>3. Queued(<<>>) BY ONLY Zenon, <1>1, <1>2 DEF Queued
<1>4. <<>> \in Seq(Steps) /\ Len(<<>>) = 0 BY ONLY EmptySeq
<1>5. DOMAIN <<>> = {} BY ONLY <1>4, LenProperties
<1> QED BY ONLY <1>3, <1>4, <1>5

LEMMA QueueingStep == ASSUME Setting, Command, Queueing, [Next]_vars PROVE Queueing'
<1>0. /\ Queued(queue) /\ active \in Seq(Steps) /\ DOMAIN want \subseteq Steps
      /\ queue # <<>> => pc \in {"apply", "session", "saving", "leaving"}
  BY DEF Queueing
<1>1. drv' = drv /\ Steps' = Steps BY SameDriver DEF Steps
<1>2. Queueing' = (/\ Queued(queue') /\ active' \in Seq(Steps) /\ DOMAIN want' \subseteq Steps
                   /\ queue' # <<>> => pc' \in {"apply", "session", "saving", "leaving"})
  BY ONLY Zenon, <1>1 DEF Queueing, Queued
<1>3. Queued(<<>>) /\ <<>> \in Seq(Steps) /\ DOMAIN <<>> \subseteq Steps BY NothingQueued
<1>4. ASSUME UNCHANGED <<queue, active, want>>, queue # <<>> => pc' \in {"apply", "session", "saving", "leaving"}
      PROVE  Queueing'
  BY ONLY Zenon, <1>0, <1>2, <1>4
<1>5. CASE Start
  <2>1. queue' = <<>> /\ active' = <<>> /\ want' = <<>> BY ONLY <1>5 DEF Start
  <2> QED BY ONLY <1>2, <1>3, <2>1
<1>6. CASE OpenSession
  <2>1. queue' = Push(SyncSteps, cfg') /\ active' = active /\ want' = want /\ pc' = "session"
    BY ONLY <1>6 DEF OpenSession, command, history
  <2>2. Queued(Push(SyncSteps, cfg')) BY StepTables, Pushed DEF Setting
  <2> QED BY ONLY <1>0, <1>2, <2>1, <2>2
<1>7. CASE BindNext
  <2>1. queue = <<>> BY ONLY <1>0, <1>7 DEF BindNext
  <2>2. CASE active' = active
    <3>1. UNCHANGED <<queue, active, want>> BY ONLY <1>7, <2>2 DEF BindNext, Exit, history
    <3> QED BY ONLY <1>4, <2>1, <3>1
  <2>3. CASE active' # active
    <3> DEFINE s == apply_step(args[bound + 1].opt)
    <3>1. /\ bound < Len(args) /\ option_available(args[bound + 1].opt)
          /\ Parses(args[bound + 1].opt, args[bound + 1].val)
          /\ active' = active \o s /\ queue' = queue /\ want' = want
      BY ONLY <1>7, <2>3 DEF BindNext, history
    <3>2. s \in Seq(Steps) BY <3>1, Accepted
    <3> HIDE DEF s
    <3>3. active \o s \in Seq(Steps) BY ONLY <1>0, <3>2, ConcatProperties
    <3> QED BY ONLY <1>0, <1>2, <2>1, <3>1, <3>3
  <2> QED BY ONLY <2>2, <2>3
<1>8. CASE BindDone
  <2>1. queue = <<>> /\ active' = active /\ want' = want BY ONLY <1>0, <1>8 DEF BindDone, Exit, command, history
  <2>2. CASE pc' = "apply"
    <3>1. queue' = Push(active, cfg) BY ONLY <1>8, <2>2 DEF BindDone, Exit
    <3>2. Queued(Push(active, cfg)) BY <1>0, Pushed
    <3> QED BY ONLY <1>0, <1>2, <2>1, <2>2, <3>1, <3>2
  <2>3. CASE pc' # "apply"
    <3>1. queue' = queue BY ONLY <1>8, <2>3 DEF BindDone, Exit
    <3> QED BY ONLY <1>0, <1>2, <2>1, <3>1
  <2> QED BY ONLY <2>2, <2>3
<1>9. ASSUME queue # <<>>, NEW e, DOMAIN e = Entry, e.step = queue[1].step,
             queue' = [queue EXCEPT ![1] = e], UNCHANGED <<pc, active, want>>
      PROVE  Queueing'
  <2>1. Queued(queue') BY ONLY <1>0, <1>9, QueueHead
  <2> QED BY ONLY <1>0, <1>2, <1>9, <2>1
<1>10. CASE Send
  <2> DEFINE e == [queue[1] EXCEPT !.left = Tail(@)]
  <2>1. queue # <<>> /\ queue' = [queue EXCEPT ![1] = e] /\ UNCHANGED <<pc, active, want>>
    BY ONLY <1>10 DEF Send, pushing, command
  <2>2. DOMAIN queue[1] = Entry BY ONLY <1>0, <2>1, QueueTail
  <2>3. DOMAIN e = Entry /\ e.step = queue[1].step BY ONLY <2>2 DEF Entry
  <2> HIDE DEF e
  <2> QED BY ONLY <1>9, <2>1, <2>3
<1>11. CASE SendFails
  <2> DEFINE e == [queue[1] EXCEPT !.left = IF GivesUp THEN <<>> ELSE Tail(@), !.nack = TRUE]
  <2>1. queue # <<>> /\ UNCHANGED <<pc, active, want>>
    BY ONLY <1>11 DEF SendFails, pushing, command
  <2>2. DOMAIN queue[1] = Entry BY ONLY <1>0, <2>1, QueueTail
  <2>3. DOMAIN e = Entry /\ e.step = queue[1].step BY ONLY <2>2 DEF Entry
  <2>4. queue' = [queue EXCEPT ![1] = e]
    <3>1. queue' = [queue EXCEPT ![1].left = IF GivesUp THEN <<>> ELSE Tail(@), ![1].nack = TRUE]
      BY ONLY <1>11 DEF SendFails
    <3>2. 1 \in DOMAIN queue BY ONLY <1>0, <2>1, QueueTail
    <3> QED BY ONLY <2>2, <3>1, <3>2 DEF Entry
  <2> HIDE DEF e
  <2> QED BY ONLY <1>9, <2>1, <2>3, <2>4
<1>12. CASE StepDone
  <2> DEFINE s == queue[1].step
             lost == IF s \in Lighting THEN Lighting ELSE {s}
  <2>1. /\ queue # <<>> /\ queue' = Tail(queue) /\ UNCHANGED <<pc, active>>
        /\ want' = IF queue[1].nack THEN [x \in DOMAIN want \ lost |-> want[x]]
                                    ELSE [x \in DOMAIN want \cup {s} |-> IF x = s THEN cfg ELSE want[x]]
    BY ONLY <1>12 DEF StepDone, pushing, command
  <2>2. Queued(Tail(queue)) /\ s \in Steps BY ONLY <1>0, <2>1, QueueTail
  <2> HIDE DEF s, lost
  <2>3. DOMAIN want' \subseteq Steps BY ONLY Zenon, <1>0, <2>1, <2>2
  <2> QED BY ONLY <1>0, <1>2, <2>1, <2>2, <2>3
<1>13. CASE EditAny
  <2>1. pc' = "session" /\ active' = active /\ want' = want /\ \E steps \in Seq(Steps) : queue' = Push(steps, cfg')
    BY <1>13, EditOnly
  <2>2. Queued(queue') BY ONLY <2>1, Pushed
  <2> QED BY ONLY <1>0, <1>2, <2>1, <2>2
<1>14. CASE Save
  <2>1. queue' = Push(drv.steps, cfg) /\ active' = active /\ want' = want /\ pc' = "saving"
    BY ONLY <1>14 DEF Save, command, history
  <2>2. Queued(Push(drv.steps, cfg)) BY StepTables, Pushed DEF Setting
  <2> QED BY ONLY <1>0, <1>2, <2>1, <2>2
<1>15. CASE Quit
  <2>1. /\ queue' \in {<<>>, Push(drv.steps, base)} /\ active' = active /\ want' = want
        /\ queue' = <<>> \/ pc' = "leaving"
    BY ONLY <1>15 DEF Quit, command, history
  <2>2. Queued(Push(drv.steps, base)) BY StepTables, Pushed DEF Setting
  <2> QED BY ONLY <1>0, <1>2, <1>3, <2>1, <2>2
<1>16. CASE Replug
  <2>1. queue = <<>> /\ queue' = queue /\ active' = active /\ want' = <<>>
    BY ONLY Zenon, <1>0, <1>16 DEF Replug, command
  <2> QED BY ONLY <1>0, <1>2, <1>3, <2>1
<1>17. CASE ParseEnds \/ ParseOption \/ ParseSave \/ OpenDevice \/ HandEdit \/ Store
  <2>1. queue = <<>> /\ UNCHANGED <<queue, active, want>>
    BY ONLY Zenon, <1>0, <1>17 DEF ParseEnds, Exit, ParseOption, ParseSave, OpenDevice, HandEdit, Store, command, history
  <2> QED BY ONLY <1>4, <2>1
<1>18. CASE FinishOneShot \/ FlashSave \/ Leave
  <2>1. queue = <<>> /\ UNCHANGED <<queue, active, want>>
    BY ONLY <1>18 DEF FinishOneShot, FlashSave, Leave, command, history
  <2> QED BY ONLY <1>4, <2>1
<1>19. CASE UNCHANGED vars
  <2>1. UNCHANGED <<queue, active, want, pc>> BY ONLY <1>19 DEF vars
  <2> QED BY ONLY <1>0, <1>4, <2>1
<1> QED BY <1>5, <1>6, <1>7, <1>8, <1>10, <1>11, <1>12, <1>13, <1>14, <1>15, <1>16, <1>17, <1>18, <1>19 DEF Next

LEMMA StatusStep == ASSUME Setting, Queueing, Status, [Next]_vars PROVE Status'
<1>1. CASE Start
  <2>1. pc' = "parse" /\ ran' = "nothing" /\ code' = code BY ONLY <1>1 DEF Start
  <2> QED BY <2>1 DEF Status
<1>2. CASE ParseEnds
  <2>1. pc' = "shell" BY ONLY Zenon, <1>2 DEF ParseEnds, Exit
  <2>2. code' = 0 \/ code' = 1 BY ONLY <1>2 DEF ParseEnds, Exit
  <2> QED BY ONLY <2>1, <2>2 DEF Status
<1>3. CASE OpenSession
  <2>1. pc' = "session" /\ ran' = "session" /\ code' = code BY ONLY <1>3 DEF OpenSession
  <2> QED BY <2>1 DEF Status
<1>4. CASE OpenDevice
  <2>1. pc' = "bind" /\ ran' = "one-shot" /\ code' = code BY ONLY <1>4 DEF OpenDevice
  <2> QED BY <2>1 DEF Status
<1>5. CASE BindNext
  <2>1. pc = "bind" /\ (UNCHANGED <<pc, ran, code>> \/ (pc' = "shell" /\ code' = 1))
    BY ONLY Zenon, <1>5 DEF BindNext, Exit
  <2> QED BY <2>1 DEF Status
<1>6. CASE BindDone
  <2>1. pc = "bind" /\ ((pc' = "apply" /\ UNCHANGED <<ran, code>>) \/ (pc' = "shell" /\ code' = 1))
    BY ONLY Zenon, <1>6 DEF BindDone, Exit
  <2> QED BY <2>1 DEF Status
<1>7. CASE FinishOneShot
  <2>1. pc' = "shell" /\ (code' = 0 \/ code' = 1) BY ONLY <1>7 DEF FinishOneShot
  <2> QED BY ONLY <2>1 DEF Status
<1>8. CASE Save
  <2>1. pc = "session" /\ pc' = "saving" /\ UNCHANGED <<ran, code>> BY ONLY <1>8 DEF Save, Idle
  <2> QED BY <2>1 DEF Status
<1>9. CASE FlashSave
  <2>1. pc = "saving" /\ pc' \in {"storing", "session"} /\ UNCHANGED <<ran, code>> BY ONLY <1>9 DEF FlashSave
  <2> QED BY <2>1 DEF Status
<1>10. CASE Store
  <2>1. pc = "storing" /\ pc' \in {"session", "shell"} /\ UNCHANGED <<ran, code>> BY ONLY <1>10 DEF Store
  <2> QED BY <2>1 DEF Status
<1>11. CASE Quit
  <2>1. pc = "session" /\ pc' \in {"leaving", "shell"} /\ ran' = ran /\ code' = 0 BY ONLY <1>11 DEF Quit, Idle, counts
  <2> QED BY <2>1 DEF Status
<1>12. CASE Leave
  <2>1. pc' = "shell" /\ code' = code BY ONLY <1>12 DEF Leave
  <2> QED BY <2>1 DEF Status
<1>13. CASE HandEdit \/ Replug
  <2>1. pc = "shell" /\ UNCHANGED <<pc, code>> BY ONLY Zenon, <1>13 DEF HandEdit, Replug
  <2> QED BY <2>1 DEF Status
<1>14. CASE EditAny
  <2>1. UNCHANGED <<pc, ran, code>> BY <1>14, EditOnly
  <2> QED BY ONLY Zenon, <2>1, Status DEF Status
<1>15. CASE UNCHANGED vars \/ ParseOption \/ ParseSave \/ Send \/ SendFails \/ StepDone
  <2>1. UNCHANGED <<pc, ran, code>> BY ONLY Zenon, <1>15 DEF vars, ParseOption, ParseSave, Send, SendFails, StepDone, pushing
  <2> QED BY ONLY Zenon, <2>1, Status DEF Status
<1> QED BY <1>1, <1>2, <1>3, <1>4, <1>5, <1>6, <1>7, <1>8, <1>9, <1>10, <1>11, <1>12, <1>13, <1>14, <1>15 DEF Next

LEMMA InitReady == Init => Ready
<1> SUFFICES ASSUME Init PROVE Ready OBVIOUS
<1>1. Setting
  <2>1. drv \in Driver /\ cfg = config_defaults(drv) /\ base = cfg BY DEF Init
  <2>2. Own(drv, config_defaults(drv)) BY ONLY <2>1, Defaults
  <2> QED BY ONLY <2>1, <2>2 DEF Setting
<1>2. Filed BY DEF Init, Filed
<1>3. Command
  <2>1. line = <<>> /\ args = <<>> /\ bound = 0 BY DEF Init
  <2>2. <<>> \in Seq(WordRec) /\ <<>> \in Seq(Arg) /\ Len(<<>>) = 0 BY ONLY EmptySeq
  <2> QED BY ONLY <2>1, <2>2 DEF Command
<1>4. Queueing
  <2>1. queue = <<>> /\ active = <<>> /\ want = <<>> BY ONLY Init DEF Init
  <2> QED BY ONLY <2>1, NothingQueued DEF Queueing
<1>5. Status BY ONLY Init DEF Init, Status
<1> QED BY ONLY <1>1, <1>2, <1>3, <1>4, <1>5 DEF Ready

\* Whatever is run, edited and lost: the settings in use are the driver's own, a stored
\* file is what was printed of such settings, and only steps of the driver are pushed.
THEOREM Inv == Spec => []Ready
<1>1. Ready /\ [Next]_vars => Ready'
  <2> SUFFICES ASSUME Ready, [Next]_vars PROVE Ready' OBVIOUS
  <2>1. Setting /\ Filed /\ Command /\ Queueing /\ Status BY ONLY Ready DEF Ready
  <2>2. Setting' BY <2>1, SettingStep
  <2>3. Filed' BY <2>1, FiledStep
  <2>4. Command' BY <2>1, CommandStep
  <2>5. Queueing' BY <2>1, QueueingStep
  <2>6. Status' BY <2>1, StatusStep
  <2> QED BY ONLY <2>2, <2>3, <2>4, <2>5, <2>6 DEF Ready
<1> QED BY <1>1, InitReady, PTL DEF Spec

\* Whatever was parsed, edited or read from a file, the settings of a run are ones its
\* driver can have, and what is pushed are steps it has (state_done, bind_options).
THEOREM InvTyping == Spec => []InvTypeOK
<1>1. Ready => InvTypeOK
  <2> SUFFICES ASSUME Ready PROVE InvTypeOK OBVIOUS
  <2>1. Status /\ bound \in 0..Len(args) /\ DOMAIN want \subseteq Range(drv.steps)
    BY DEF Ready, Command, Queueing, Steps
  <2>2. Legal(drv, cfg) /\ Legal(drv, base) BY DEF Ready, Setting, Own
  <2>3. pc \in {"bind", "apply"} <=> (ran = "one-shot" /\ pc # "shell") BY ONLY <2>1 DEF Status
  <2>4. pc \in {"shell", "parse", "bind", "apply", "session", "saving", "storing", "leaving"} /\ code \in {0, 1}
    BY ONLY <2>1 DEF Status
  <2> QED BY ONLY Zenon, <2>1, <2>2, <2>3, <2>4 DEF InvTypeOK
<1> QED BY <1>1, Inv, PTL

\* What a session stores is what the next one loads, for every driver and all settings
\* it can have, while nobody edits the file (state_save, state_load, state_done).
THEOREM SavedLoads == Spec => []SavedIsLoaded
<1>1. Ready => SavedIsLoaded
  <2> SUFFICES ASSUME Ready, stored # <<>> PROVE Stored(alloy_state_load(drv, file)) = Stored(stored[1])
    BY DEF SavedIsLoaded
  <2>1. PICK c : stored = <<c>> /\ Own(drv, c) /\ file = <<state_save(drv, c)>> BY DEF Ready, Filed
  <2>2. drv \in Driver BY DEF Ready, Setting
  <2>3. Stored(alloy_state_load(drv, <<state_save(drv, c)>>)) = Stored(c) BY ONLY <2>1, <2>2, RoundTrip
  <2>4. stored[1] = c BY ONLY <2>1
  <2> QED BY ONLY <2>1, <2>3, <2>4
<1> QED BY <1>1, Inv, PTL

-----------------------------------------------------------------------------
(* Exit status 0: what each flag left in the configuration, and what of it was *)
(* pushed and acknowledged.                                                    *)

LEMMA SetField ==
    ASSUME NEW c, IsRecord(c), NEW k \in Fields, NEW x, NEW r, r = [c EXCEPT ![k] = x]
    PROVE  Sets(c, k, x, r)
<1>1. DOMAIN c = Fields BY ONLY Zenon, IsRecord(c) DEF IsRecord
<1>2. r = [y \in Fields |-> IF y = k THEN x ELSE c[y]] BY ONLY Zenon, <1>1, r = [c EXCEPT ![k] = x]
<1>3. \A y \in Fields : r[y] = IF y = k THEN x ELSE c[y] BY ONLY Zenon, <1>2
<1>4. r = [y \in Fields |-> r[y]] BY ONLY Zenon, <1>2, <1>3
<1> QED BY ONLY Zenon, <1>3, <1>4, k \in Fields DEF IsRecord, Sets

\* two records are the same if their fields are
LEMMA SameRecord ==
    ASSUME NEW c, NEW r, IsRecord(c), IsRecord(r), \A k \in Fields : r[k] = c[k]
    PROVE  r = c
<1>1. [k \in Fields |-> r[k]] = [k \in Fields |-> c[k]] OBVIOUS
<1> QED BY ONLY Zenon, <1>1, IsRecord(c), IsRecord(r) DEF IsRecord

\* With() makes of a configuration exactly those changes.
LEMMA WithChanges ==
    ASSUME NEW c, IsRecord(c), NEW opt \in Flags, NEW v, NEW r, r = With(c, opt, v)
    PROVE  Changes(c, opt, v, r)
<1>0. {"bright", "polling", "color", "fx", "dpi", "acceleration", "deceleration", "snapping"} \subseteq Fields BY DEF Fields
<1>a. ASSUME NEW f \in Fields, NEW x, r = [c EXCEPT ![f] = x]
      PROVE  Sets(c, f, x, r)
  BY ONLY Zenon, <1>a, SetField, IsRecord(c)
<1>b. ASSUME NEW f \in Fields, NEW x, r = [[c EXCEPT ![f] = x] EXCEPT !["accel"] = TRUE]
      PROVE  \E m : Sets(c, f, x, m) /\ Sets(m, "accel", TRUE, r)
  <2> DEFINE m == [c EXCEPT ![f] = x]
             g == "accel"
             on == TRUE
  <2>1. g \in Fields /\ r = [m EXCEPT ![g] = on] BY ONLY <1>b DEF Fields
  <2>2. m = [c EXCEPT ![f] = x] OBVIOUS
  <2> HIDE DEF g, on, m
  <2>3. Sets(c, f, x, m) BY ONLY Zenon, <2>2, f \in Fields, SetField, IsRecord(c)
  <2>4. IsRecord(m) BY ONLY <2>3 DEF Sets
  <2>5. Sets(m, g, on, r) BY ONLY Zenon, <2>1, <2>4, SetField
  <2> QED BY ONLY <2>3, <2>5 DEF g, on
<1>1. CASE opt = "brightness"
  <2> DEFINE x == v.n
  <2>1. r = [c EXCEPT !.bright = x] BY ONLY Zenon, <1>1, r = With(c, opt, v) DEF With
  <2> HIDE DEF x
  <2>2. Sets(c, "bright", x, r) BY ONLY Zenon, <1>0, <2>1, <1>a
  <2> QED BY ONLY <1>1, <2>2 DEF Changes, Sets, Fields, x
<1>2. CASE opt = "polling"
  <2> DEFINE x == v.n % Word
  <2>1. r = [c EXCEPT !.polling = x] BY ONLY Zenon, <1>2, r = With(c, opt, v) DEF With
  <2> HIDE DEF x
  <2>2. Sets(c, "polling", x, r) BY ONLY Zenon, <1>0, <2>1, <1>a
  <2> QED BY ONLY <1>2, <2>2 DEF Changes, Sets, Fields, x
<1>3. CASE opt = "color"
  <2> DEFINE x == [z \in DOMAIN c.color |-> IF v.z \in {-1, z - 1} THEN Rgb(v.n) ELSE c.color[z]]
  <2>1. r = [c EXCEPT !.color = x] BY ONLY Zenon, <1>3, r = With(c, opt, v) DEF With
  <2> HIDE DEF x
  <2>2. Sets(c, "color", x, r) BY ONLY Zenon, <1>0, <2>1, <1>a
  <2> QED BY ONLY <1>3, <2>2 DEF Changes, Sets, Fields, x
<1>4. CASE opt = "fx"
  <2> DEFINE x == [z \in DOMAIN c.fx |-> v.n]
  <2>1. r = [c EXCEPT !.fx = x] BY ONLY Zenon, <1>4, r = With(c, opt, v) DEF With
  <2> HIDE DEF x
  <2>2. Sets(c, "fx", x, r) BY ONLY Zenon, <1>0, <2>1, <1>a
  <2> QED BY ONLY <1>4, <2>2 DEF Changes, Sets, Fields, x
<1>5. CASE opt = "dpi"
  <2> DEFINE x == [i \in DOMAIN c.dpi |-> <<v.n, v.n>>]
  <2>1. r = [c EXCEPT !.dpi = x] BY ONLY Zenon, <1>5, r = With(c, opt, v) DEF With
  <2> HIDE DEF x
  <2>2. Sets(c, "dpi", x, r) BY ONLY Zenon, <1>0, <2>1, <1>a
  <2> QED BY ONLY <1>5, <2>2 DEF Changes, Sets, Fields, x
<1>6. CASE opt = "accel"
  <2>1. r = [c EXCEPT !.acceleration = v.n, !.accel = TRUE] BY ONLY Zenon, <1>6, r = With(c, opt, v) DEF With
  <2>2. \E m : Sets(c, "acceleration", v.n, m) /\ Sets(m, "accel", TRUE, r) BY ONLY Zenon, <1>0, <2>1, <1>b
  <2> QED BY ONLY <1>6, <2>2 DEF Changes, Sets, Fields
<1>7. CASE opt = "decel"
  <2>1. r = [c EXCEPT !.deceleration = v.n, !.accel = TRUE] BY ONLY Zenon, <1>7, r = With(c, opt, v) DEF With
  <2>2. \E m : Sets(c, "deceleration", v.n, m) /\ Sets(m, "accel", TRUE, r) BY ONLY Zenon, <1>0, <2>1, <1>b
  <2> QED BY ONLY <1>7, <2>2 DEF Changes, Sets, Fields
<1>8. CASE opt = "snap"
  <2>1. r = [c EXCEPT !.snapping = v.n, !.accel = TRUE] BY ONLY Zenon, <1>8, r = With(c, opt, v) DEF With
  <2>2. \E m : Sets(c, "snapping", v.n, m) /\ Sets(m, "accel", TRUE, r) BY ONLY Zenon, <1>0, <2>1, <1>b
  <2> QED BY ONLY <1>8, <2>2 DEF Changes, Sets, Fields
<1> QED BY ONLY opt \in Flags, <1>1, <1>2, <1>3, <1>4, <1>5, <1>6, <1>7, <1>8 DEF Flags, Options

\* what an option sets it holds,
LEMMA WithHolds ==
    ASSUME NEW c, IsRecord(c), NEW opt \in Flags, NEW v
    PROVE  IsRecord(With(c, opt, v)) /\ Holds(With(c, opt, v), opt, v)
<1> DEFINE r == With(c, opt, v)
<1>0. r = With(c, opt, v) OBVIOUS
<1> HIDE DEF r
<1>1. Changes(c, opt, v, r) BY ONLY Zenon, <1>0, WithChanges, IsRecord(c), opt \in Flags
<1>2. IsRecord(r) BY ONLY Zenon, <1>1 DEF Changes
<1>3. opt = "brightness" => r.bright = v.n BY ONLY SMT, <1>1 DEF Changes
<1>4. opt = "polling" => r.polling = v.n % Word BY ONLY SMT, <1>1 DEF Changes
<1>5. opt = "color" => \A z \in DOMAIN r.color : v.z \in {-1, z - 1} => r.color[z] = Rgb(v.n)
  BY ONLY SMT, <1>1 DEF Changes
<1>6. opt = "fx" => \A z \in DOMAIN r.fx : r.fx[z] = v.n BY ONLY SMT, <1>1 DEF Changes
<1>7. opt = "dpi" => \A i \in DOMAIN r.dpi : r.dpi[i] = <<v.n, v.n>> BY ONLY SMT, <1>1 DEF Changes
<1>8. opt = "accel" => r.acceleration = v.n BY ONLY SMT, <1>1 DEF Changes
<1>9. opt = "decel" => r.deceleration = v.n BY ONLY SMT, <1>1 DEF Changes
<1>10. opt = "snap" => r.snapping = v.n BY ONLY SMT, <1>1 DEF Changes
<1>11. opt \in {"accel", "decel", "snap"} => r.accel = TRUE BY ONLY Zenon, <1>1 DEF Changes
<1>12. Holds(r, opt, v)
  BY ONLY Zenon, <1>3, <1>4, <1>5, <1>6, <1>7, <1>8, <1>9, <1>10, <1>11 DEF Holds
<1> QED BY ONLY Zenon, <1>2, <1>12 DEF r

\* a second time it changes nothing,
LEMMA HoldsSame ==
    ASSUME NEW d, NEW c, IsRecord(c), Config(d, c), NEW opt \in Flags, NEW v, Holds(c, opt, v)
    PROVE  With(c, opt, v) = c
<1> DEFINE r == With(c, opt, v)
           K == {"bright", "polling", "color", "fx", "dpi", "acceleration", "deceleration", "snapping", "accel"}
<1>0. r = With(c, opt, v) OBVIOUS
<1> HIDE DEF r
<1>1. Changes(c, opt, v, r) BY ONLY Zenon, <1>0, WithChanges, IsRecord(c), opt \in Flags
<1>2. opt = "brightness" => c.bright = v.n BY ONLY Zenon, Holds(c, opt, v) DEF Holds
<1>3. opt = "polling" => c.polling = v.n % Word BY ONLY Zenon, Holds(c, opt, v) DEF Holds
<1>4. opt = "color" => \A z \in DOMAIN c.color : v.z \in {-1, z - 1} => c.color[z] = Rgb(v.n)
  BY ONLY Zenon, Holds(c, opt, v) DEF Holds
<1>5. opt = "fx" => \A z \in DOMAIN c.fx : c.fx[z] = v.n BY ONLY Zenon, Holds(c, opt, v) DEF Holds
<1>6. opt = "dpi" => \A i \in DOMAIN c.dpi : c.dpi[i] = <<v.n, v.n>> BY ONLY Zenon, Holds(c, opt, v) DEF Holds
<1>7. opt = "accel" => c.acceleration = v.n BY ONLY Zenon, Holds(c, opt, v) DEF Holds
<1>8. opt = "decel" => c.deceleration = v.n BY ONLY Zenon, Holds(c, opt, v) DEF Holds
<1>9. opt = "snap" => c.snapping = v.n BY ONLY Zenon, Holds(c, opt, v) DEF Holds
<1>10. opt \in {"accel", "decel", "snap"} => c.accel = TRUE BY ONLY Zenon, Holds(c, opt, v) DEF Holds
<1>11. /\ r.bright = c.bright /\ r.polling = c.polling /\ r.acceleration = c.acceleration
       /\ r.deceleration = c.deceleration /\ r.snapping = c.snapping
  BY ONLY SMT, <1>1, <1>2, <1>3, <1>7, <1>8, <1>9 DEF Changes
<1>12. r.accel = c.accel BY ONLY Zenon, <1>1, <1>10 DEF Changes
<1>13. c.color \in [Zones(d) -> Colours] /\ c.fx \in [Zones(d) -> Bytes] /\ c.dpi \in [1..MaxLevels -> Pair]
  BY ONLY Zenon, Config(d, c) DEF Config, DevOK, LevelsOK
<1>14. r.color = c.color
  <2>1. CASE opt = "color"
    <3>1. r.color = [z \in DOMAIN c.color |-> IF v.z \in {-1, z - 1} THEN Rgb(v.n) ELSE c.color[z]]
      BY ONLY SMT, <1>1, <2>1 DEF Changes
    <3>2. \A z \in Zones(d) : (IF v.z \in {-1, z - 1} THEN Rgb(v.n) ELSE c.color[z]) = c.color[z]
      BY ONLY SMT, <1>4, <1>13, <2>1
    <3> QED BY ONLY Zenon, <1>13, <3>1, <3>2
  <2>2. CASE opt # "color" BY ONLY Zenon, <1>1, <2>2 DEF Changes
  <2> QED BY ONLY <2>1, <2>2
<1>15. r.fx = c.fx
  <2>1. CASE opt = "fx"
    <3>1. r.fx = [z \in DOMAIN c.fx |-> v.n] BY ONLY SMT, <1>1, <2>1 DEF Changes
    <3> QED BY ONLY Zenon, <1>5, <1>13, <2>1, <3>1
  <2>2. CASE opt # "fx" BY ONLY Zenon, <1>1, <2>2 DEF Changes
  <2> QED BY ONLY <2>1, <2>2
<1>16. r.dpi = c.dpi
  <2>1. CASE opt = "dpi"
    <3>1. r.dpi = [i \in DOMAIN c.dpi |-> <<v.n, v.n>>] BY ONLY SMT, <1>1, <2>1 DEF Changes
    <3> QED BY ONLY Zenon, <1>6, <1>13, <2>1, <3>1
  <2>2. CASE opt # "dpi" BY ONLY Zenon, <1>1, <2>2 DEF Changes
  <2> QED BY ONLY <2>1, <2>2
<1>17. \A k \in Fields \ K : r[k] = c[k] BY ONLY Zenon, <1>1 DEF Changes
<1>18. \A k \in K : r[k] = c[k] BY ONLY SMT, <1>11, <1>12, <1>14, <1>15, <1>16
<1>19. IsRecord(r) BY ONLY Zenon, <1>1 DEF Changes
<1> HIDE DEF K
<1>20. \A k \in Fields : r[k] = c[k] BY ONLY Zenon, <1>17, <1>18
<1> QED BY ONLY Zenon, <1>0, <1>19, <1>20, SameRecord, IsRecord(c)

\* and no other option changes it.
LEMMA WithKeeps ==
    ASSUME NEW c, IsRecord(c), NEW opt \in Flags, NEW v,
           NEW other \in Flags \ {opt}, NEW w, Holds(c, other, w)
    PROVE  Holds(With(c, opt, v), other, w)
<1> DEFINE r == With(c, opt, v)
<1>0. r = With(c, opt, v) OBVIOUS
<1> HIDE DEF r
<1>1. Changes(c, opt, v, r) BY ONLY Zenon, <1>0, WithChanges, IsRecord(c), opt \in Flags
<1>2. other # opt OBVIOUS
<1>3. other = "brightness" => r.bright = w.n BY ONLY SMT, <1>1, <1>2, Holds(c, other, w) DEF Changes, Holds
<1>4. other = "polling" => r.polling = w.n % Word BY ONLY SMT, <1>1, <1>2, Holds(c, other, w) DEF Changes, Holds
<1>5. other = "color" => \A z \in DOMAIN r.color : w.z \in {-1, z - 1} => r.color[z] = Rgb(w.n)
  <2>1. other = "color" => r.color = c.color BY ONLY SMT, <1>1, <1>2 DEF Changes
  <2>2. other = "color" => \A z \in DOMAIN c.color : w.z \in {-1, z - 1} => c.color[z] = Rgb(w.n)
    BY ONLY Zenon, Holds(c, other, w) DEF Holds
  <2> QED BY ONLY SMT, <2>1, <2>2
<1>6. other = "fx" => \A z \in DOMAIN r.fx : r.fx[z] = w.n
  <2>1. other = "fx" => r.fx = c.fx BY ONLY SMT, <1>1, <1>2 DEF Changes
  <2>2. other = "fx" => \A z \in DOMAIN c.fx : c.fx[z] = w.n BY ONLY Zenon, Holds(c, other, w) DEF Holds
  <2> QED BY ONLY SMT, <2>1, <2>2
<1>7. other = "dpi" => \A i \in DOMAIN r.dpi : r.dpi[i] = <<w.n, w.n>>
  <2>1. other = "dpi" => r.dpi = c.dpi BY ONLY SMT, <1>1, <1>2 DEF Changes
  <2>2. other = "dpi" => \A i \in DOMAIN c.dpi : c.dpi[i] = <<w.n, w.n>> BY ONLY Zenon, Holds(c, other, w) DEF Holds
  <2> QED BY ONLY SMT, <2>1, <2>2
<1>8. other = "accel" => r.acceleration = w.n BY ONLY SMT, <1>1, <1>2, Holds(c, other, w) DEF Changes, Holds
<1>9. other = "decel" => r.deceleration = w.n BY ONLY SMT, <1>1, <1>2, Holds(c, other, w) DEF Changes, Holds
<1>10. other = "snap" => r.snapping = w.n BY ONLY SMT, <1>1, <1>2, Holds(c, other, w) DEF Changes, Holds
<1>11. other \in {"accel", "decel", "snap"} => r.accel = TRUE
  BY ONLY Zenon, <1>1, Holds(c, other, w) DEF Changes, Holds
<1>12. Holds(r, other, w)
  BY ONLY Zenon, <1>3, <1>4, <1>5, <1>6, <1>7, <1>8, <1>9, <1>10, <1>11 DEF Holds
<1> QED BY ONLY Zenon, <1>0, <1>12

\* (what two lists offer together)
LEMMA RangeConcat ==
    ASSUME NEW S, NEW s \in Seq(S), NEW t \in Seq(S)
    PROVE  Range(s) \subseteq Range(s \o t) /\ Range(t) \subseteq Range(s \o t)
<1> DEFINE u == s \o t
<1>1. /\ u \in Seq(S) /\ Len(u) = Len(s) + Len(t) /\ Len(s) \in Nat /\ Len(t) \in Nat
      /\ \A i \in 1..Len(s) + Len(t) : u[i] = IF i <= Len(s) THEN s[i] ELSE t[i - Len(s)]
  BY ConcatProperties, LenProperties
<1> HIDE DEF u
<1>2. DOMAIN u = 1..(Len(s) + Len(t)) /\ DOMAIN s = 1..Len(s) /\ DOMAIN t = 1..Len(t) BY <1>1, LenProperties
<1>3. ASSUME NEW i \in DOMAIN s PROVE i \in DOMAIN u /\ u[i] = s[i] BY ONLY <1>1, <1>2, i \in DOMAIN s
<1>4. ASSUME NEW i \in DOMAIN t PROVE i + Len(s) \in DOMAIN u /\ u[i + Len(s)] = t[i]
  <2>1. i + Len(s) \in 1..(Len(s) + Len(t)) /\ ~(i + Len(s) <= Len(s)) /\ (i + Len(s)) - Len(s) = i
    BY ONLY <1>1, <1>2, i \in DOMAIN t
  <2> QED BY ONLY <1>1, <1>2, <2>1
<1>5. Range(s) \subseteq Range(u) /\ Range(t) \subseteq Range(u) BY ONLY SMT, <1>3, <1>4 DEF Range
<1> QED BY ONLY <1>5 DEF u

\* Taking one more flag.
LEMMA TakenNext ==
    ASSUME Setting, Command, Queueing, Taken, IsRecord(cfg), BindNext, bound' = bound + 1
    PROVE  Taken' /\ IsRecord(cfg)'
<1> DEFINE n == bound + 1
           opt == args[bound + 1].opt
           v == args[bound + 1].val
<1>1. /\ bound < Len(args) /\ option_available(opt) /\ Parses(opt, v) /\ cfg' = With(cfg, opt, v)
      /\ active' = active \o apply_step(opt) /\ args' = args
  <2>1. bound \in Nat /\ bound # bound + 1 BY DEF Command
  <2> QED BY ONLY <2>1, BindNext, bound' = bound + 1 DEF BindNext
<1>2. bound \in Nat /\ args \in Seq(Arg) /\ Len(args) \in Nat BY LenProperties DEF Command
<1>3. opt \in Flags
  <2>1. args[n] \in Arg
    <3>1. n \in 1..Len(args) BY ONLY <1>1, <1>2
    <3> QED BY ONLY <1>2, <3>1, ElementOfSeq
  <2>2. opt \in Options BY ONLY <2>1 DEF Arg
  <2>3. "higheff" \notin drv.caps BY DriverAssumption DEF Setting, HasSteps
  <2>4. opt = "higheff" => "higheff" \in drv.caps BY ONLY Zenon, <1>1 DEF option_available
  <2> HIDE DEF opt
  <2> QED BY ONLY <2>2, <2>3, <2>4 DEF Flags
<1>4. apply_step(opt) \in Seq(Steps) BY <1>1, Accepted
<1>5. active \in Seq(Steps) BY DEF Queueing
<1>6. args[n].opt = opt /\ args[n].val = v OBVIOUS
<1> HIDE DEF opt, v
<1>7. IsRecord(cfg') /\ Holds(cfg', opt, v) BY ONLY Zenon, <1>1, <1>3, WithHolds, IsRecord(cfg)
<1>8. Range(active) \subseteq Range(active') /\ Range(apply_step(opt)) \subseteq Range(active')
  BY ONLY <1>1, <1>4, <1>5, RangeConcat
<1>9. /\ \A i \in 1..bound : args[i].opt \in Flags /\ Range(apply_step(args[i].opt)) \subseteq Range(active)
      /\ \A i \in 1..bound : (\A j \in (i + 1)..bound : args[j].opt # args[i].opt)
                                 => Holds(cfg, args[i].opt, args[i].val)
  BY ONLY Zenon, Taken DEF Taken
<1>10. \A i \in 1..n : args[i].opt \in Flags /\ Range(apply_step(args[i].opt)) \subseteq Range(active')
  <2>1. \A i \in 1..bound : args[i].opt \in Flags /\ Range(apply_step(args[i].opt)) \subseteq Range(active')
    BY ONLY Zenon, <1>8, <1>9
  <2>2. \A i \in 1..n : i \in 1..bound \/ i = n BY ONLY <1>2
  <2> HIDE DEF n
  <2> QED BY ONLY Zenon, <1>3, <1>6, <1>8, <2>1, <2>2
<1>11. ASSUME NEW i \in 1..n, \A j \in (i + 1)..n : args[j].opt # args[i].opt
       PROVE  Holds(cfg', args[i].opt, args[i].val)
  <2>1. CASE i = n
    <3> HIDE DEF n
    <3> QED BY ONLY <1>6, <1>7, <2>1
  <2>2. CASE i # n
    <3>1. i \in 1..bound /\ n \in (i + 1)..n /\ \A j \in (i + 1)..bound : j \in (i + 1)..n BY ONLY <1>2, <2>2, i \in 1..n
    <3>2. opt # args[i].opt BY ONLY <1>6, <1>11, <3>1
    <3>3. \A j \in (i + 1)..bound : args[j].opt # args[i].opt BY ONLY Zenon, <1>11, <3>1
    <3>4. Holds(cfg, args[i].opt, args[i].val) /\ args[i].opt \in Flags BY ONLY Zenon, <1>9, <3>1, <3>3
    <3>5. args[i].opt \in Flags \ {opt} BY ONLY <3>2, <3>4
    <3>6. Holds(With(cfg, opt, v), args[i].opt, args[i].val)
      BY ONLY Zenon, <1>3, <3>4, <3>5, WithKeeps, IsRecord(cfg)
    <3> QED BY ONLY <1>1, <3>6
  <2> QED BY ONLY <2>1, <2>2
<1>12. Taken'
  <2>1. bound' = n /\ args' = args BY <1>1
  <2> HIDE DEF n
  <2> QED BY ONLY Zenon, <1>10, <1>11, <2>1 DEF Taken
<1> QED BY ONLY <1>7, <1>12

\* What a run does outside a one-shot says nothing about exit status 0,
LEMMA Elsewhere ==
    ASSUME pc' \in {"session", "saving", "storing", "leaving"}
           \/ (pc' = "shell" /\ ran' \notin {"rejected", "list", "command", "one-shot"})
    PROVE  Honest'
  BY DEF Honest, Parsing, Silent, Taking, OneShot, Pushing, Finished

\* and a run that is turned down has sent nothing.
LEMMA TurnedDown ==
    ASSUME Honest, pc \in {"parse", "bind"}, pc' = "shell", ran' \in {"rejected", "list", "command"},
           touched' = touched
    PROVE  Honest'
<1>1. ~touched BY DEF Honest, Silent
<1> QED BY <1>1 DEF Honest, Parsing, Silent, Taking, OneShot, Pushing, Finished

\* a run starts with a whole configuration, whatever the driver
LEMMA DefaultsRecord == ASSUME NEW d PROVE IsRecord(config_defaults(d))
<1> DEFINE hz == IF d.rates = <<>> THEN 0 ELSE d.rates[1]
           color == d.zones
           fx == Same(d, 0)
           param == Same(d, 5)
           count == Len(d.levels)
           dpi == [i \in 1..MaxLevels |-> IF i <= Len(d.levels) THEN <<d.levels[i], d.levels[i]>> ELSE <<0, 0>>]
           white == Colour - 1
           startup == IF "rainbow" \in d.caps THEN 2 ELSE 0
           sleep == IF "battery" \in d.caps THEN 5 ELSE 0
           buttons == d.buttons
           off == FALSE
           r == [polling |-> hz, bright |-> 100, color |-> color, fx |-> fx, param |-> param,
                 count |-> count, active |-> 0, dpi |-> dpi, reacts |-> off, flash |-> white,
                 startup |-> startup, smart |-> off, dim |-> 0, sleep |-> sleep, buttons |-> buttons,
                 acceleration |-> 0, deceleration |-> 0, snapping |-> 0, accel |-> off]
<1>1. config_defaults(d) = r BY ONLY Zenon DEF config_defaults
<1> HIDE DEF hz, color, fx, param, count, dpi, white, startup, sleep, buttons, off
<1>2. IsRecord(r) BY ONLY SMT DEF IsRecord, Fields
<1> QED BY ONLY Zenon, <1>1, <1>2

\* From the shell through the command line.
LEMMA HonestParse ==
    ASSUME Ready, Honest, Start \/ ParseEnds \/ ParseOption \/ ParseSave \/ OpenSession \/ OpenDevice
    PROVE  Honest'
<1>1. CASE Start
  <2>1. /\ pc' = "parse" /\ bound' = 0 /\ touched' = FALSE /\ cfg' = config_defaults(drv)
    BY ONLY <1>1 DEF Start
  <2>2. IsRecord(config_defaults(drv)) BY ONLY DefaultsRecord
  <2>3. Parsing' BY ONLY <2>1, <2>2 DEF Parsing, IsRecord
  <2> QED BY ONLY <2>1, <2>3 DEF Honest, Silent, Taking, OneShot, Pushing, Finished
<1>2. CASE ParseEnds
  <2>1. /\ pc = "parse" /\ pc' = "shell" /\ ran' \in {"rejected", "list", "command"} /\ touched' = touched
    BY ONLY Zenon, <1>2 DEF ParseEnds, Exit, history
  <2> QED BY <2>1, TurnedDown
<1>3. CASE ParseOption \/ ParseSave
  <2>1. pc = "parse" /\ UNCHANGED <<pc, bound, cfg, touched>> BY ONLY Zenon, <1>3 DEF ParseOption, ParseSave, history
  <2>2. bound = 0 /\ IsRecord(cfg) /\ ~touched BY <2>1 DEF Honest, Parsing, Silent
  <2>3. Parsing' BY ONLY <2>1, <2>2 DEF Parsing, IsRecord
  <2> QED BY ONLY <2>1, <2>2, <2>3 DEF Honest, Silent, Taking, OneShot, Pushing, Finished
<1>4. CASE OpenSession
  <2>1. pc' = "session" BY ONLY <1>4 DEF OpenSession
  <2> QED BY ONLY <2>1, Elsewhere
<1>5. CASE OpenDevice
  <2>1. pc = "parse" /\ pc' = "bind" /\ UNCHANGED <<bound, cfg, touched>> BY ONLY <1>5 DEF OpenDevice, command, history
  <2>2. bound = 0 /\ IsRecord(cfg) /\ ~touched BY <2>1 DEF Honest, Parsing, Silent
  <2>3. Taken' /\ IsRecord(cfg)' BY ONLY <2>1, <2>2 DEF Taken, IsRecord
  <2> QED BY ONLY <2>1, <2>2, <2>3 DEF Honest, Parsing, Silent, Taking, OneShot, Pushing, Finished
<1> QED BY <1>1, <1>2, <1>3, <1>4, <1>5

\* what was taken stays taken
LEMMA StillTaken ==
    ASSUME UNCHANGED <<args, bound, active, cfg>>
    PROVE  (Taken /\ IsRecord(cfg)) = (Taken' /\ IsRecord(cfg)')
  BY DEF Taken, IsRecord

\* flag by flag
LEMMA HonestBind ==
    ASSUME Ready, Honest, BindNext \/ BindDone
    PROVE  Honest'
<1>1. pc = "bind" BY DEF BindNext, BindDone
<1>2. ~touched /\ Taken /\ IsRecord(cfg) BY <1>1 DEF Honest, Silent, Taking, OneShot
<1>3. Setting /\ Command /\ Queueing BY DEF Ready
<1>4. bound \in Nat BY <1>3 DEF Command
<1>5. CASE BindNext /\ bound' = bound + 1
  <2>1. pc' = "bind" /\ touched' = touched
    <3>1. bound # bound + 1 BY ONLY <1>4
    <3> QED BY ONLY <1>1, <1>5, <3>1 DEF BindNext, history
  <2>2. Taken' /\ IsRecord(cfg)' BY <1>2, <1>3, <1>5, TakenNext
  <2> QED BY ONLY <1>2, <2>1, <2>2 DEF Honest, Parsing, Silent, Taking, OneShot, Pushing, Finished
<1>6. CASE BindNext /\ bound' # bound + 1
  <2>1. pc' = "shell" /\ ran' = "rejected" /\ touched' = touched BY ONLY Zenon, <1>6 DEF BindNext, Exit, history
  <2> QED BY <1>1, <2>1, TurnedDown
<1>7. CASE BindDone /\ pc' = "apply"
  <2>1. bound = Len(args) /\ queue' = Push(active, cfg) /\ UNCHANGED <<args, bound, active, cfg>>
    BY ONLY <1>7 DEF BindDone, Exit, command
  <2>2. active \in Seq(Steps) BY <1>3 DEF Queueing
  <2>3. \A s \in Range(active) : \E i \in DOMAIN Push(active, cfg) : Push(active, cfg)[i].step = s
    BY <2>2, Pushed DEF Range
  <2>4. Taken' /\ IsRecord(cfg)' BY ONLY <1>2, <2>1, StillTaken
  <2>5. Pushing'
    <3>1. bound' = Len(args') /\ \A s \in Range(active') : \E i \in DOMAIN queue' : queue'[i].step = s
      BY ONLY <2>1, <2>3
    <3> QED BY ONLY Zenon, <3>1 DEF Pushing
  <2> QED BY ONLY <1>7, <2>4, <2>5 DEF Honest, Parsing, Silent, Taking, OneShot, Finished
<1>8. CASE BindDone /\ pc' # "apply"
  <2>1. pc' = "shell" /\ ran' = "rejected" /\ touched' = touched BY ONLY Zenon, <1>8 DEF BindDone, Exit, history
  <2> QED BY <1>1, <2>1, TurnedDown
<1> QED BY <1>5, <1>6, <1>7, <1>8

\* packet by packet
LEMMA HonestSend ==
    ASSUME Ready, Honest, Send \/ SendFails \/ StepDone
    PROVE  Honest'
<1>1. queue # <<>> /\ UNCHANGED <<pc, args, bound, active, cfg, code, ran, saves>>
  BY DEF Send, SendFails, StepDone, pushing, command
<1>2. pc \in {"apply", "session", "saving", "leaving"} /\ Queued(queue) BY <1>1 DEF Ready, Queueing
<1>3. CASE pc # "apply" BY ONLY <1>1, <1>2, <1>3, Elsewhere
<1>4. CASE pc = "apply"
  <2>1. Taken' /\ IsRecord(cfg)'
    <3>1. Taken /\ IsRecord(cfg) BY <1>4 DEF Honest, Taking, OneShot
    <3> QED BY ONLY <1>1, <3>1, StillTaken
  <2>2. /\ bound = Len(args)
        /\ ~failed => \A s \in Range(active) : Acked(s) \/ \E i \in DOMAIN queue : queue[i].step = s
    BY <1>4 DEF Honest, Pushing
  <2>3. \A s : UNCHANGED want => (Acked(s) = Acked(s)')
    BY ONLY Zenon, <1>1 DEF Acked
  <2>4. Pushing'
    <3>1. ASSUME UNCHANGED <<want, failed>>, NEW e, DOMAIN e = Entry, e.step = queue[1].step,
                 queue' = [queue EXCEPT ![1] = e]
          PROVE  Pushing'
      <4>1. DOMAIN queue' = DOMAIN queue /\ \A i \in DOMAIN queue : queue'[i].step = queue[i].step
        BY ONLY <1>1, <1>2, <3>1, QueueHead
      <4>2. ASSUME ~failed', NEW s \in Range(active')
            PROVE  Acked(s)' \/ \E i \in DOMAIN queue' : queue'[i].step = s
        <5>1. Acked(s) \/ \E i \in DOMAIN queue : queue[i].step = s BY ONLY <1>1, <2>2, <3>1, <4>2
        <5>2. Acked(s) => Acked(s)' BY ONLY Zenon, <1>1, <3>1 DEF Acked
        <5> QED BY ONLY Zenon, <4>1, <5>1, <5>2
      <4>3. bound' = Len(args') BY ONLY <1>1, <2>2
      <4> QED BY ONLY Zenon, <4>2, <4>3 DEF Pushing
    <3>2. CASE Send
      <4> DEFINE e == [queue[1] EXCEPT !.left = Tail(@)]
      <4>1. queue' = [queue EXCEPT ![1] = e] /\ UNCHANGED <<want, failed>> BY ONLY <3>2 DEF Send
      <4>2. DOMAIN queue[1] = Entry BY ONLY <1>1, <1>2, QueueTail
      <4>3. DOMAIN e = Entry /\ e.step = queue[1].step BY ONLY <4>2 DEF Entry
      <4> HIDE DEF e
      <4> QED BY ONLY <3>1, <4>1, <4>3
    <3>3. CASE SendFails
      <4> DEFINE e == [queue[1] EXCEPT !.left = IF GivesUp THEN <<>> ELSE Tail(@), !.nack = TRUE]
      <4>1. UNCHANGED <<want, failed>> BY ONLY <3>3 DEF SendFails
      <4>2. DOMAIN queue[1] = Entry BY ONLY <1>1, <1>2, QueueTail
      <4>3. DOMAIN e = Entry /\ e.step = queue[1].step BY ONLY <4>2 DEF Entry
      <4>4. queue' = [queue EXCEPT ![1] = e]
        <5>1. queue' = [queue EXCEPT ![1].left = IF GivesUp THEN <<>> ELSE Tail(@), ![1].nack = TRUE]
          BY ONLY <3>3 DEF SendFails
        <5>2. 1 \in DOMAIN queue BY ONLY <1>1, <1>2, QueueTail
        <5> QED BY ONLY <4>2, <5>1, <5>2 DEF Entry
      <4> HIDE DEF e
      <4> QED BY ONLY <3>1, <4>1, <4>3, <4>4
    <3>4. CASE StepDone
      <4> DEFINE h == queue[1].step
                 lost == IF h \in Lighting THEN Lighting ELSE {h}
      <4>1. /\ queue' = Tail(queue) /\ failed' = (failed \/ queue[1].nack)
            /\ want' = IF queue[1].nack THEN [x \in DOMAIN want \ lost |-> want[x]]
                       ELSE [x \in DOMAIN want \cup {h} |-> IF x = h THEN cfg ELSE want[x]]
        BY ONLY <3>4 DEF StepDone
      <4> HIDE DEF h, lost
      <4>2. bound' = Len(args') BY ONLY <1>1, <2>2
      <4>3. ASSUME ~failed', NEW s \in Range(active')
            PROVE  Acked(s)' \/ \E i \in DOMAIN queue' : queue'[i].step = s
        <5>1. ~failed /\ want' = [x \in DOMAIN want \cup {h} |-> IF x = h THEN cfg ELSE want[x]]
          BY ONLY Zenon, <4>1, <4>3
        <5>2. Acked(s) \/ \E i \in DOMAIN queue : queue[i].step = s BY ONLY <1>1, <2>2, <4>3, <5>1
        <5>3. CASE Acked(s) \/ s = h
          <6>1. s \in DOMAIN want' /\ want'[s] = cfg BY ONLY Zenon, <5>1, <5>3 DEF Acked
          <6> QED BY ONLY Zenon, <1>1, <6>1 DEF Acked
        <5>4. CASE s # h /\ \E i \in DOMAIN queue : queue[i].step = s
          <6>1. PICK i \in DOMAIN queue : queue[i].step = s BY ONLY <5>4
          <6>2. /\ Len(queue) \in Nat \ {0} /\ DOMAIN queue = 1..Len(queue)
                /\ \A k \in 2..Len(queue) : k - 1 \in DOMAIN Tail(queue) /\ Tail(queue)[k - 1] = queue[k]
            BY ONLY <1>1, <1>2, QueueTail
          <6>3. i # 1 BY ONLY <5>4, <6>1 DEF h
          <6>4. i \in 2..Len(queue) BY ONLY <6>1, <6>2, <6>3
          <6>5. i - 1 \in DOMAIN Tail(queue) /\ Tail(queue)[i - 1].step = s BY ONLY <6>1, <6>2, <6>4
          <6> QED BY ONLY Zenon, <4>1, <6>5
        <5> QED BY ONLY Zenon, <5>2, <5>3, <5>4
      <4> QED BY ONLY Zenon, <4>2, <4>3 DEF Pushing
    <3> QED BY ONLY Send \/ SendFails \/ StepDone, <3>2, <3>3, <3>4
  <2> QED BY ONLY <1>1, <1>4, <2>1, <2>4 DEF Honest, Parsing, Silent, Taking, OneShot, Finished
<1> QED BY ONLY <1>3, <1>4

\* to the exit status,
LEMMA HonestFinish ==
    ASSUME Ready, Honest, FinishOneShot
    PROVE  Honest'
<1>1. /\ pc = "apply" /\ queue = <<>> /\ pc' = "shell" /\ UNCHANGED <<args, saves, bound, active, cfg, dev, want, ran>>
      /\ code' = 0 => ~failed /\ (saves => flash' = dev)
  BY DEF FinishOneShot, SaveFlash, command, history
<1>2. ran = "one-shot" BY <1>1 DEF Ready, Status
<1>3. Taken' /\ IsRecord(cfg)'
  <2>1. Taken /\ IsRecord(cfg) BY <1>1 DEF Honest, Taking, OneShot
  <2> QED BY ONLY <1>1, <2>1, StillTaken
<1>4. Finished'
  <2>1. /\ bound = Len(args)
        /\ ~failed => \A s \in Range(active) : Acked(s) \/ \E i \in DOMAIN queue : queue[i].step = s
    BY <1>1 DEF Honest, Pushing
  <2>2. DOMAIN queue = {} BY ONLY <1>1
  <2>3. ~failed => \A s \in Range(active) : Acked(s) BY ONLY Zenon, <2>1, <2>2
  <2>4. \A s : Acked(s) => Acked(s)' BY ONLY Zenon, <1>1 DEF Acked
  <2>5. code' = 0 => \A s \in Range(active') : Acked(s)' BY ONLY Zenon, <1>1, <2>3, <2>4
  <2>6. bound' = Len(args') /\ (code' = 0 => (saves' => flash' = dev')) BY ONLY <1>1, <2>1
  <2> QED BY ONLY Zenon, <2>5, <2>6 DEF Finished
<1> QED BY ONLY <1>1, <1>2, <1>3, <1>4 DEF Honest, Parsing, Silent, Taking, OneShot, Pushing

\* and everything that is no one-shot leaves it alone.
LEMMA HonestElsewhere ==
    ASSUME Ready, EditAny \/ Save \/ FlashSave \/ Store \/ Quit \/ Leave \/ HandEdit \/ Replug
    PROVE  Honest'
<1>1. pc \in {"session", "saving", "storing", "leaving"} => ran = "session" BY DEF Ready, Status
<1>2. CASE EditAny
  <2>1. pc' = "session" BY <1>2, EditOnly DEF Ready
  <2> QED BY ONLY <2>1, Elsewhere
<1>3. CASE Save \/ FlashSave
  <2>1. pc' \in {"session", "saving", "storing"} BY ONLY <1>3 DEF Save, FlashSave
  <2> QED BY ONLY <2>1, Elsewhere
<1>4. CASE Store
  <2>1. pc = "storing" /\ pc' \in {"session", "shell"} /\ ran' = ran BY ONLY <1>4 DEF Store
  <2> QED BY ONLY <1>1, <2>1, Elsewhere
<1>5. CASE Quit
  <2>1. pc = "session" /\ pc' \in {"leaving", "shell"} /\ ran' = ran BY ONLY <1>5 DEF Quit, Idle
  <2> QED BY ONLY <1>1, <2>1, Elsewhere
<1>6. CASE Leave
  <2>1. pc = "leaving" /\ pc' = "shell" /\ ran' = ran BY ONLY <1>6 DEF Leave
  <2> QED BY ONLY <1>1, <2>1, Elsewhere
<1>7. CASE HandEdit \/ Replug
  <2>1. pc' = "shell" /\ ran' \in {"editor", "power cycle"} BY ONLY Zenon, <1>7 DEF HandEdit, Replug
  <2> QED BY ONLY Zenon, <2>1, Elsewhere
<1> QED BY <1>2, <1>3, <1>4, <1>5, <1>6, <1>7

\* So it is in every run.
LEMMA HonestInv == Spec => []Honest
<1>1. Init => Honest
  <2> SUFFICES ASSUME Init PROVE Honest OBVIOUS
  <2>1. pc = "shell" /\ ran = "nothing" BY ONLY Init DEF Init
  <2> QED BY ONLY <2>1 DEF Honest, Parsing, Silent, Taking, OneShot, Pushing, Finished
<1>2. Ready /\ Honest /\ [Next]_vars => Honest'
  <2> SUFFICES ASSUME Ready, Honest, [Next]_vars PROVE Honest' OBVIOUS
  <2>1. CASE UNCHANGED vars
    <3>1. UNCHANGED <<pc, ran, code, args, bound, active, cfg, queue, failed, want, saves, flash, dev, touched>>
      BY ONLY <2>1 DEF vars
    <3> QED BY ONLY Zenon, <3>1, Honest DEF Honest, Parsing, Silent, Taking, OneShot, Taken, IsRecord, Pushing,
                                        Finished, Acked
  <2> QED BY <2>1, HonestParse, HonestBind, HonestSend, HonestFinish, HonestElsewhere DEF Next
<1> QED BY <1>1, <1>2, Inv, PTL DEF Spec

-----------------------------------------------------------------------------
(* What a device shows: packets.                                               *)

LEMMA OverIs ==
    ASSUME NEW p, NEW q
    PROVE  /\ DOMAIN Over(p, q) = DOMAIN p \cup DOMAIN q
           /\ \A r \in DOMAIN p : Over(p, q)[r] = p[r]
           /\ \A r \in DOMAIN q \ DOMAIN p : Over(p, q)[r] = q[r]
  BY DEF Over

LEMMA RegIs ==
    ASSUME NEW name, NEW i, NEW v
    PROVE  /\ DOMAIN At(name, i, v) = {<<name, i>>} /\ At(name, i, v)[<<name, i>>] = v
           /\ Reg(name, v) = At(name, 0, v)
  BY DEF At, Reg

LEMMA SwitchedIs ==
    ASSUME NEW d, NEW x, NEW p, NEW r \in DOMAIN Switched(d, x, p)
    PROVE  r[1] = "lamp"
  BY DEF Switched, Lamps

LEMMA EnrolledIs ==
    ASSUME NEW x, NEW p
    PROVE  /\ \A r \in DOMAIN Enrolled(x, p) : r[1] = "lamp" /\ Enrolled(x, p)[r] = Rainbow
           /\ Engine \in DOMAIN x /\ x[Engine] = TRUE => \A z \in p[Mask] : Lamp(z) \in DOMAIN Enrolled(x, p)
<1>1. \A r \in DOMAIN Enrolled(x, p) : r[1] = "lamp" /\ Enrolled(x, p)[r] = Rainbow BY DEF Enrolled, Lamps
<1>2. ASSUME Engine \in DOMAIN x, x[Engine] = TRUE, NEW z \in p[Mask]
      PROVE  Lamp(z) \in DOMAIN Enrolled(x, p)
  <2>1. Running(x) BY <1>2 DEF Running, Engine
  <2> QED BY <1>2, <2>1 DEF Enrolled, Lamps, If, Lamp
<1> QED BY ONLY <1>1, <1>2

LEMMA TakeEngine ==
    ASSUME NEW d, NEW x, NEW p, Engine \in DOMAIN p, Mask \notin DOMAIN p
    PROVE  Take(d, x, p) = Over(p, Over(Switched(d, x, p), x))
  BY Zenon DEF Take, Engine, Mask, Switched

LEMMA TakeMask ==
    ASSUME NEW d, NEW x, NEW p, Engine \notin DOMAIN p, Mask \in DOMAIN p
    PROVE  Take(d, x, p) = Over(Enrolled(x, p), x)
  BY Zenon DEF Take, Engine, Mask, Enrolled

LEMMA TakePlain ==
    ASSUME NEW d, NEW x, NEW p, Engine \notin DOMAIN p, Mask \notin DOMAIN p
    PROVE  Take(d, x, p) = Over(p, x)
  BY Zenon DEF Take, Engine, Mask

\* What it says is there, unless it is a mask,
LEMMA TakeWrites ==
    ASSUME NEW d, NEW x, NEW p, Mask \notin DOMAIN p, NEW r \in DOMAIN p
    PROVE  r \in DOMAIN Take(d, x, p) /\ Take(d, x, p)[r] = p[r]
<1>1. \A m : r \in DOMAIN Over(p, m) /\ Over(p, m)[r] = p[r] BY DEF Over
<1>2. CASE Engine \in DOMAIN p /\ Mask \notin DOMAIN p BY <1>1, <1>2, TakeEngine
<1>3. CASE Engine \notin DOMAIN p /\ Mask \notin DOMAIN p BY Zenon, <1>1, <1>3, TakePlain
<1> QED BY ONLY <1>2, <1>3, Mask \notin DOMAIN p

\* what it does not speak of stays, but the lamps are the engine's,
LEMMA TakeRests ==
    ASSUME NEW d, NEW x, NEW p, NEW r \in DOMAIN x, r \notin DOMAIN p, Mask \notin DOMAIN p \/ Engine \notin DOMAIN p,
           r[1] # "lamp" \/ (Engine \notin DOMAIN p /\ Mask \notin DOMAIN p)
    PROVE  Take(d, x, p)[r] = x[r]
<1>1. \A m : r \notin DOMAIN m => Over(m, x)[r] = x[r] /\ r \in DOMAIN Over(m, x) BY ONLY r \in DOMAIN x DEF Over
<1>2. CASE Engine \in DOMAIN p /\ Mask \notin DOMAIN p
  <2>1. r \notin DOMAIN Switched(d, x, p) BY ONLY <1>2, SwitchedIs, r[1] # "lamp" \/ (Engine \notin DOMAIN p /\ Mask \notin DOMAIN p)
  <2> DEFINE m == Over(Switched(d, x, p), x)
  <2>2. m[r] = x[r] /\ r \in DOMAIN m BY Zenon, <1>1, <2>1
  <2> HIDE DEF m
  <2>3. Over(p, m)[r] = m[r] BY ONLY <2>2, r \notin DOMAIN p DEF Over
  <2> QED BY Zenon, <1>2, <2>2, <2>3, TakeEngine DEF m
<1>3. CASE Engine \notin DOMAIN p /\ Mask \in DOMAIN p
  <2>1. r \notin DOMAIN Enrolled(x, p) BY ONLY <1>3, EnrolledIs, r[1] # "lamp" \/ (Engine \notin DOMAIN p /\ Mask \notin DOMAIN p)
  <2> QED BY Zenon, <1>1, <1>3, <2>1, TakeMask
<1>4. CASE Engine \notin DOMAIN p /\ Mask \notin DOMAIN p BY <1>1, <1>4, TakePlain
<1> QED BY ONLY <1>2, <1>3, <1>4, Mask \notin DOMAIN p \/ Engine \notin DOMAIN p

LEMMA TakeKeeps ==
    ASSUME NEW d, NEW x, NEW p, NEW r \in DOMAIN x, Mask \notin DOMAIN p \/ Engine \notin DOMAIN p
    PROVE  r \in DOMAIN Take(d, x, p)
<1>1. \A m, y : r \in DOMAIN y => r \in DOMAIN Over(m, y) BY DEF Over
<1>2. CASE Engine \in DOMAIN p /\ Mask \notin DOMAIN p BY <1>1, <1>2, TakeEngine
<1>3. CASE Engine \notin DOMAIN p /\ Mask \in DOMAIN p BY <1>1, <1>3, TakeMask
<1>4. CASE Engine \notin DOMAIN p /\ Mask \notin DOMAIN p BY <1>1, <1>4, TakePlain
<1> QED BY ONLY <1>2, <1>3, <1>4, Mask \notin DOMAIN p \/ Engine \notin DOMAIN p

\* and what the mask enrolls cycles while the engine runs.
LEMMA TakeEnrolls ==
    ASSUME NEW d, NEW x, NEW p, Engine \notin DOMAIN p, Mask \in DOMAIN p,
           Engine \in DOMAIN x, x[Engine] = TRUE, NEW z \in p[Mask]
    PROVE  Lamp(z) \in DOMAIN Take(d, x, p) /\ Take(d, x, p)[Lamp(z)] = Rainbow
<1>0. Lamp(z) \in DOMAIN Enrolled(x, p) BY EnrolledIs
<1>a. \A r \in DOMAIN Enrolled(x, p) : Enrolled(x, p)[r] = Rainbow BY ONLY SMT DEF Enrolled, Lamps
<1>1. Lamp(z) \in DOMAIN Enrolled(x, p) /\ Enrolled(x, p)[Lamp(z)] = Rainbow BY ONLY Zenon, <1>0, <1>a
<1>2. \A m : Lamp(z) \in DOMAIN m => Lamp(z) \in DOMAIN Over(m, x) /\ Over(m, x)[Lamp(z)] = m[Lamp(z)] BY DEF Over
<1> QED BY Zenon, <1>1, <1>2, TakeMask

\* One packet more.
LEMMA ReachedNext ==
    ASSUME NEW d, NEW p, Orderly(p), NEW k \in 0..(Len(p) - 1), NEW x, Reached(p, k, x)
    PROVE  Reached(p, k + 1, Take(d, x, p[k + 1]))
<1> DEFINE q == p[k + 1]
           y == Take(d, x, q)
<1>e. Engine \in DOMAIN q => k + 1 = 1 /\ \A r \in DOMAIN q : r[1] \in {"engine", "overlay"}
  BY k + 1 \in DOMAIN p DEF Orderly
<1>m. Mask \notin DOMAIN q \/ Engine \notin DOMAIN q
  BY ONLY <1>e DEF Mask
<1>t. /\ \A r \in DOMAIN q : Mask \notin DOMAIN q => r \in DOMAIN y /\ y[r] = q[r]
      /\ \A r \in DOMAIN x : r \in DOMAIN y
      /\ \A r \in DOMAIN x : r \notin DOMAIN q /\ (r[1] # "lamp" \/ (Engine \notin DOMAIN q /\ Mask \notin DOMAIN q))
            => y[r] = x[r]
      /\ Engine \notin DOMAIN q /\ Mask \in DOMAIN q /\ Engine \in DOMAIN x /\ x[Engine] = TRUE =>
            \A z \in q[Mask] : Lamp(z) \in DOMAIN y /\ y[Lamp(z)] = Rainbow
  <2> HIDE DEF q
  <2>1. \A r \in DOMAIN q : Mask \notin DOMAIN q => r \in DOMAIN y /\ y[r] = q[r] BY TakeWrites
  <2>2. \A r \in DOMAIN x : r \in DOMAIN y BY <1>m, TakeKeeps
  <2>3. \A r \in DOMAIN x : r \notin DOMAIN q /\ (r[1] # "lamp" \/ (Engine \notin DOMAIN q /\ Mask \notin DOMAIN q))
            => y[r] = x[r] BY <1>m, TakeRests
  <2>4. Engine \notin DOMAIN q /\ Mask \in DOMAIN q /\ Engine \in DOMAIN x /\ x[Engine] = TRUE =>
            \A z \in q[Mask] : Lamp(z) \in DOMAIN y /\ y[Lamp(z)] = Rainbow BY TakeEnrolls
  <2> QED BY ONLY <2>1, <2>2, <2>3, <2>4
<1>1. /\ Len(p) \in Nat /\ k + 1 \in DOMAIN p /\ 1..(k + 1) \subseteq DOMAIN p /\ k + 1 \in 1..(k + 1)
      /\ \A i \in 1..(k + 1) : i = k + 1 \/ i \in 1..k
  BY DEF Orderly
<1> HIDE DEF y
<1>2. ASSUME NEW i \in 1..(k + 1), NEW r \in DOMAIN p[i], r # Mask,
             \A j \in (i + 1)..(k + 1) : r \notin DOMAIN p[j]
      PROVE  r \in DOMAIN y /\ y[r] = p[i][r]
  <2>1. CASE i = k + 1
    <3>1. Mask \notin DOMAIN q
      <4>1. ASSUME Mask \in DOMAIN q PROVE FALSE
        <5>1. k + 1 = 2 /\ DOMAIN p[2] = {Mask} BY <1>1, <4>1 DEF Orderly, q
        <5> QED BY ONLY <1>2, <2>1, <5>1 DEF q
      <4> QED BY ONLY <4>1
    <3>2. \A s \in DOMAIN q : s \in DOMAIN y /\ y[s] = q[s] BY ONLY <3>1, <1>t
    <3> QED BY ONLY <1>2, <2>1, <3>2 DEF q
  <2>2. CASE i \in 1..k
    <3>1. r \notin DOMAIN q BY <1>1, <1>2, <2>2 DEF q
    <3>2. \A j \in (i + 1)..k : r \notin DOMAIN p[j] BY <1>2
    <3>3. r \in DOMAIN x /\ x[r] = p[i][r] BY <1>2, <2>2, <3>2 DEF Reached
    <3>4. r \in DOMAIN y BY ONLY <3>3, <1>t
    <3> HIDE DEF q
    <3>5. CASE Engine \in DOMAIN q
      <4>1. k + 1 = 1 BY <1>e, <3>5
      <4> QED BY ONLY <2>2, <4>1, k \in 0..(Len(p) - 1), <1>1
    <3>6. CASE Engine \notin DOMAIN q /\ Mask \in DOMAIN q
      <4>1. k + 1 = 2 /\ Engine \in DOMAIN p[1] BY <1>1, <3>6 DEF Orderly, q
      <4>2. i = 1 BY ONLY <2>2, <4>1, k \in 0..(Len(p) - 1), <1>1
      <4>3. r[1] \in {"engine", "overlay"} BY <1>1, <1>2, <4>1, <4>2 DEF Orderly
      <4>4. y[r] = x[r] BY ONLY <3>1, <3>3, <4>3, <1>t
      <4> QED BY ONLY <3>3, <3>4, <4>4
    <3>7. CASE Engine \notin DOMAIN q /\ Mask \notin DOMAIN q
      <4>1. y[r] = x[r] BY ONLY <3>1, <3>3, <3>7, <1>t
      <4> QED BY ONLY <3>3, <3>4, <4>1
    <3> QED BY ONLY <3>5, <3>6, <3>7
  <2> QED BY ONLY <1>1, <1>2, <2>1, <2>2
<1>3. ASSUME NEW i \in 1..(k + 1), Mask \in DOMAIN p[i], NEW z \in p[i][Mask]
      PROVE  Lamp(z) \in DOMAIN y /\ y[Lamp(z)] = Rainbow
  <2>1. i = 2 /\ DOMAIN p[2] = {Mask} /\ Engine \in DOMAIN p[1] /\ p[1][Engine] = TRUE BY <1>1, <1>3 DEF Orderly
  <2>2. CASE i = k + 1
    <3>1. k = 1 BY ONLY <2>1, <2>2, k \in 0..(Len(p) - 1), <1>1
    <3>2. \A j \in 2..1 : Engine \notin DOMAIN p[j] OBVIOUS
    <3>3. Engine \in DOMAIN x /\ x[Engine] = TRUE BY <2>1, <3>1, <3>2 DEF Reached, Engine, Mask
    <3>4. Engine \notin DOMAIN q /\ Mask \in DOMAIN q BY <2>1, <3>1 DEF Engine, Mask, q
    <3>5. p[i] = q BY ONLY <2>2 DEF q
    <3> QED BY ONLY Zenon, <1>3, <3>3, <3>4, <3>5, <1>t
  <2>3. CASE i \in 1..k
    <3>1. Lamp(z) \in DOMAIN x /\ x[Lamp(z)] = Rainbow BY <1>3, <2>3 DEF Reached
    <3>2. k + 1 \in 3..Len(p) BY <1>1, <2>1, <2>3
    <3>3. Lamp(z) \notin DOMAIN q BY <1>1, <1>3, <2>1, <3>2 DEF Orderly, q
    <3>4. Engine \notin DOMAIN q /\ Mask \notin DOMAIN q BY <1>1, <3>2 DEF Orderly, q
    <3> QED BY ONLY <3>1, <3>3, <3>4, <1>t
  <2> QED BY ONLY <1>1, <1>3, <2>2, <2>3
<1> QED BY ONLY <1>2, <1>3 DEF Reached, y, q

-----------------------------------------------------------------------------
(* Wire values and what they mean.                                             *)

LEMMA ClampIs ==
    ASSUME NEW v \in Int, NEW lo \in Int, NEW hi \in Int, lo <= hi
    PROVE  Clamp(v, lo, hi) \in Int /\ lo <= Clamp(v, lo, hi) /\ Clamp(v, lo, hi) <= hi
  BY DEF Clamp

LEMMA AbsIs ==
    ASSUME NEW v \in Int, NEW m \in Int, -m < v, v < m
    PROVE  Abs(v) < m
  BY DEF Abs

LEMMA Tables84 ==
    /\ \A i \in Int : 1 <= i /\ i <= 84 => i \in DOMAIN r3_dpi_table
    /\ \A i, j \in DOMAIN r3_dpi_table : r3_dpi_table[i] = r3_dpi_table[j] => i = j
<1>1. DOMAIN r3_dpi_table = 1..84 BY SMT DEF r3_dpi_table
<1>2. ASSUME NEW i \in Int, 1 <= i, i <= 84 PROVE i \in DOMAIN r3_dpi_table BY SMT, <1>1, <1>2
<1>3. ASSUME NEW i \in DOMAIN r3_dpi_table PROVE i \in Int /\ 1 <= i /\ i <= 84 BY SMT, <1>1, <1>3
<1>4. ASSUME NEW i \in Int, 1 <= i, i <= 84, NEW j \in Int, 1 <= j, j <= 84, i < j
      PROVE  r3_dpi_table[i] # r3_dpi_table[j]
  BY SMTT(60), <1>4 DEF r3_dpi_table
<1>5. \A i, j \in DOMAIN r3_dpi_table : i < j => r3_dpi_table[i] # r3_dpi_table[j] BY ONLY SMT, <1>3, <1>4
<1>6. \A i, j \in DOMAIN r3_dpi_table : i < j \/ j < i \/ i = j BY ONLY SMT, <1>3
<1> QED BY ONLY SMT, <1>2, <1>5, <1>6
LEMMA Tables180 ==
    /\ \A i \in Int : 1 <= i /\ i <= 180 => i \in DOMAIN a3wl_dpi_table
    /\ \A i, j \in DOMAIN a3wl_dpi_table : a3wl_dpi_table[i] = a3wl_dpi_table[j] => i = j
<1>1. DOMAIN a3wl_dpi_table = 1..180 BY SMT DEF a3wl_dpi_table
<1>2. ASSUME NEW i \in Int, 1 <= i, i <= 180 PROVE i \in DOMAIN a3wl_dpi_table BY SMT, <1>1, <1>2
<1>3. ASSUME NEW i \in DOMAIN a3wl_dpi_table PROVE i \in Int /\ 1 <= i /\ i <= 180 BY SMT, <1>1, <1>3
<1>4. ASSUME NEW i \in Int, 1 <= i, i <= 180, NEW j \in Int, 1 <= j, j <= 180, i < j
      PROVE  a3wl_dpi_table[i] # a3wl_dpi_table[j]
  BY SMTT(60), <1>4 DEF a3wl_dpi_table
<1>5. \A i, j \in DOMAIN a3wl_dpi_table : i < j => a3wl_dpi_table[i] # a3wl_dpi_table[j] BY ONLY SMT, <1>3, <1>4
<1>6. \A i, j \in DOMAIN a3wl_dpi_table : i < j \/ j < i \/ i = j BY ONLY SMT, <1>3
<1> QED BY ONLY SMT, <1>2, <1>5, <1>6

\* a table of distinct values is read back
LEMMA InTableIs ==
    ASSUME NEW t, NEW i \in DOMAIN t, \A j, k \in DOMAIN t : t[j] = t[k] => j = k
    PROVE  InTable(t, t[i]) = i - 1
  BY DEF InTable

LEMMA R3Level ==
    ASSUME NEW v \in Nat
    PROVE  \E cpi \in Int :
              /\ cpi = 200 + 100 * InTable(r3_dpi_table, r3_dpi_table[(Floor(v, 200, 8500, 100) - 200) \div 100 + 1])
              /\ 200 <= cpi /\ cpi <= 8500 /\ Abs(cpi - Clamp(v, 200, 8500)) < 100
<1> DEFINE k == Clamp(v, 200, 8500)
           q == k \div 100
           i == q - 1
<1>1. k \in Int /\ 200 <= k /\ k <= 8500 BY ClampIs
<1> HIDE DEF k
<1>2. q \in Int /\ 2 <= q /\ q <= 85 /\ q * 100 <= k /\ k < q * 100 + 100 BY ONLY SMT, <1>1
<1> HIDE DEF q
<1>3. (q * 100 - 200) \div 100 + 1 = i BY ONLY SMT, <1>2 DEF i
<1>4. i \in Int /\ 1 <= i /\ i <= 84 BY ONLY SMT, <1>2 DEF i
<1>5. i \in DOMAIN r3_dpi_table BY ONLY SMT, <1>4, Tables84
<1>6. InTable(r3_dpi_table, r3_dpi_table[i]) = i - 1 BY Zenon, <1>5, Tables84, InTableIs
<1>7. 200 + 100 * (i - 1) = q * 100 BY ONLY SMT, <1>2 DEF i
<1>8. 200 <= q * 100 /\ q * 100 <= 8500 /\ q * 100 - k \in Int /\ -100 < q * 100 - k /\ q * 100 - k < 100 /\ 100 \in Int
  BY ONLY SMT, <1>1, <1>2
<1>9. Abs(q * 100 - k) < 100 BY <1>8, AbsIs
<1>10. Floor(v, 200, 8500, 100) = q * 100 BY ONLY SMT DEF Floor, q, k
<1>11. (Floor(v, 200, 8500, 100) - 200) \div 100 + 1 = i BY ONLY SMT, <1>3, <1>10
<1> HIDE DEF i
<1>12. q * 100 \in Int BY ONLY SMT, <1>2
<1>13. q * 100 = 200 + 100 * InTable(r3_dpi_table, r3_dpi_table[(Floor(v, 200, 8500, 100) - 200) \div 100 + 1])
  BY ONLY SMT, <1>6, <1>7, <1>11
<1> QED BY ONLY SMT, <1>8, <1>9, <1>12, <1>13 DEF k

LEMMA A3Level ==
    ASSUME NEW v \in Nat
    PROVE  \E cpi \in Int :
              /\ cpi = 100 + 100 * InTable(a3wl_dpi_table, a3wl_dpi_table[(Floor(v, 100, 18000, 100) - 100) \div 100 + 1])
              /\ 100 <= cpi /\ cpi <= 18000 /\ Abs(cpi - Clamp(v, 100, 18000)) < 100
<1> DEFINE k == Clamp(v, 100, 18000)
           q == k \div 100
           i == q - 0
<1>1. k \in Int /\ 100 <= k /\ k <= 18000 BY ClampIs
<1> HIDE DEF k
<1>2. q \in Int /\ 1 <= q /\ q <= 180 /\ q * 100 <= k /\ k < q * 100 + 100 BY ONLY SMT, <1>1
<1> HIDE DEF q
<1>3. (q * 100 - 100) \div 100 + 1 = i BY ONLY SMT, <1>2 DEF i
<1>4. i \in Int /\ 1 <= i /\ i <= 180 BY ONLY SMT, <1>2 DEF i
<1>5. i \in DOMAIN a3wl_dpi_table BY ONLY SMT, <1>4, Tables180
<1>6. InTable(a3wl_dpi_table, a3wl_dpi_table[i]) = i - 1 BY Zenon, <1>5, Tables180, InTableIs
<1>7. 100 + 100 * (i - 1) = q * 100 BY ONLY SMT, <1>2 DEF i
<1>8. 100 <= q * 100 /\ q * 100 <= 18000 /\ q * 100 - k \in Int /\ -100 < q * 100 - k /\ q * 100 - k < 100 /\ 100 \in Int
  BY ONLY SMT, <1>1, <1>2
<1>9. Abs(q * 100 - k) < 100 BY <1>8, AbsIs
<1>10. Floor(v, 100, 18000, 100) = q * 100 BY ONLY SMT DEF Floor, q, k
<1>11. (Floor(v, 100, 18000, 100) - 100) \div 100 + 1 = i BY ONLY SMT, <1>3, <1>10
<1> HIDE DEF i
<1>12. q * 100 \in Int BY ONLY SMT, <1>2
<1>13. q * 100 = 100 + 100 * InTable(a3wl_dpi_table, a3wl_dpi_table[(Floor(v, 100, 18000, 100) - 100) \div 100 + 1])
  BY ONLY SMT, <1>6, <1>7, <1>11
<1> QED BY ONLY SMT, <1>8, <1>9, <1>12, <1>13 DEF k

LEMMA R600Level ==
    ASSUME NEW v \in Nat
    PROVE  \E cpi \in Int :
              /\ cpi = 100 + 100 * r600_dpi_to_wire(v)
              /\ 100 <= cpi /\ cpi <= 12000 /\ Abs(cpi - Clamp(v, 100, 12000)) < 100
<1> DEFINE k == Clamp(v, 100, 12000)
           q == (k - 100 + 100 \div 2) \div 100
           m == q * 100 + 100
           f == Clamp(m, 100, 12000)
<1>1. k \in Int /\ 100 <= k /\ k <= 12000 BY ClampIs
<1> HIDE DEF k
<1>2. q \in Int /\ 0 <= q /\ q <= 119 /\ q * 100 <= k - 50 /\ k - 50 < q * 100 + 100 BY ONLY SMT, <1>1
<1> HIDE DEF q
<1>3. f = m BY SMT, <1>2 DEF Clamp
<1>4. (m - 100) \div 100 = q BY ONLY SMT, <1>2
<1>5. 100 <= m /\ m <= 12000 /\ m - k \in Int /\ -100 < m - k /\ m - k < 100 /\ m \in Int BY ONLY SMT, <1>1, <1>2
<1>6. Abs(m - k) < 100 BY <1>5, AbsIs
<1>7. m = 100 + 100 * q BY ONLY SMT, <1>2
<1>8. r600_dpi_to_wire(v) = (f - 100) \div 100 BY ONLY SMT DEF r600_dpi_to_wire, Nearest, f, m, q, k
<1> HIDE DEF m, f
<1>9. m = 100 + 100 * r600_dpi_to_wire(v) BY ONLY SMT, <1>3, <1>4, <1>7, <1>8
<1> QED BY ONLY SMT, <1>5, <1>6, <1>9 DEF k

LEMMA PrimeLevel ==
    ASSUME NEW v \in Nat
    PROVE  \E cpi \in Int :
              /\ cpi = 50 * ((prime_dpi_to_wire(v) % 256) + 256 * (prime_dpi_to_wire(v) \div 256))
              /\ 50 <= cpi /\ cpi <= 18000 /\ Abs(cpi - Clamp(v, 50, 18000)) < 50
<1> DEFINE k == Clamp(v, 50, 18000)
           q == (k - 50 + 50 \div 2) \div 50
           m == q * 50 + 50
           f == Clamp(m, 50, 18000)
           w == prime_dpi_to_wire(v)
<1>1. k \in Int /\ 50 <= k /\ k <= 18000 BY ClampIs
<1> HIDE DEF k
<1>2. q \in Int /\ 0 <= q /\ q <= 359 /\ q * 50 <= k - 25 /\ k - 25 < q * 50 + 50 BY ONLY SMT, <1>1
<1> HIDE DEF q
<1>3. f = m BY SMT, <1>2 DEF Clamp
<1>4. m \div 50 = q + 1 BY ONLY SMT, <1>2
<1>5. 50 <= m /\ m <= 18000 /\ m - k \in Int /\ -50 < m - k /\ m - k < 50 /\ m \in Int BY ONLY SMT, <1>1, <1>2
<1>6. Abs(m - k) < 50 BY <1>5, AbsIs
<1>7. m = 50 * (q + 1) BY ONLY SMT, <1>2
<1>8. w = f \div 50 BY ONLY SMT DEF prime_dpi_to_wire, Nearest, f, m, q, k, w
<1>9. w = q + 1 BY ONLY SMT, <1>3, <1>4, <1>8
<1> HIDE DEF m, f, w
<1>10. m = 50 * ((w % 256) + 256 * (w \div 256)) BY ONLY SMT, <1>2, <1>7, <1>9
<1> QED BY ONLY SMT, <1>5, <1>6, <1>10 DEF k, w

LEMMA RateCases ==
    ASSUME NEW r, NEW hz, hz = 125 => r = 3, hz = 250 => r = 2, hz = 500 => r = 1,
           hz \notin {500, 250, 125} => r = 0
    PROVE  r \in 0..3 /\ 1000 \div (2^r) = IF hz \in {1000, 500, 250, 125} THEN hz ELSE 1000
<1>1. 2^0 = 1 /\ 2^1 = 2 /\ 2^2 = 4 /\ 2^3 = 8 BY SMT
<1>2. 1000 \div 1 = 1000 /\ 1000 \div 2 = 500 /\ 1000 \div 4 = 250 /\ 1000 \div 8 = 125 BY SMT
<1>3. r = 3 => 1000 \div (2^r) = 125 BY ONLY <1>1, <1>2
<1>4. r = 2 => 1000 \div (2^r) = 250 BY ONLY <1>1, <1>2
<1>5. r = 1 => 1000 \div (2^r) = 500 BY ONLY <1>1, <1>2
<1>6. r = 0 => 1000 \div (2^r) = 1000 BY ONLY <1>1, <1>2
<1> DEFINE v == 1000 \div (2^r)
<1> HIDE DEF v
<1>7. /\ hz = 125 => v = 125
      /\ hz = 250 => v = 250
      /\ hz = 500 => v = 500
      /\ hz \notin {500, 250, 125} => v = 1000
  BY <1>3, <1>4, <1>5, <1>6 DEF v
<1>8. v = IF hz \in {1000, 500, 250, 125} THEN hz ELSE 1000 BY ONLY <1>7
<1>9. r \in 0..3 OBVIOUS
<1> QED BY ONLY <1>8, <1>9 DEF v

LEMMA RateIs ==
    ASSUME NEW hz
    PROVE  /\ RateStep(hz) \in 0..3
           /\ 1000 \div (2^RateStep(hz)) = IF hz \in {1000, 500, 250, 125} THEN hz ELSE 1000
<1>1. hz = 125 => RateStep(hz) = 3
  <2>1. RateStep(125) = 3 BY SMT DEF RateStep
  <2> QED BY <2>1
<1>2. hz = 250 => RateStep(hz) = 2
  <2>1. RateStep(250) = 2 BY SMT DEF RateStep
  <2> QED BY <2>1
<1>3. hz = 500 => RateStep(hz) = 1
  <2>1. RateStep(500) = 1 BY SMT DEF RateStep
  <2> QED BY <2>1
<1>4. hz \notin {500, 250, 125} => RateStep(hz) = 0 BY Zenon DEF RateStep
<1> QED BY <1>1, <1>2, <1>3, <1>4, RateCases

LEMMA Little3Is ==
    ASSUME NEW v \in Nat, v < Colour
    PROVE  Number3(Little3(v)) = v
<1>1. v < 256 * 256 * 256 BY SMT DEF Colour, Word
<1>2. (v % 256) + 256 * ((v \div 256) % 256) + 65536 * ((v \div 65536) % 256) = v BY ONLY SMT, <1>1, v \in Nat
<1> QED BY SMT, <1>2 DEF Number3, Little3

LEMMA BrightIs ==
    ASSUME NEW b \in 0..100
    PROVE  /\ LET w == (b * 256 + 50) \div 100
              IN Abs(((w % 256) + 256 * (w \div 256)) * 100 - b * 256) <= 128
           /\ Abs(a3wl_brightness_to_wire(b) * 100 - b * 15) <= 50
           /\ Clamp(b, 0, 100) = b
<1> DEFINE w == (b * 256 + 50) \div 100
           u == (b * 15 + 50) \div 100
<1>1. b \in Int /\ 0 <= b /\ b <= 100 BY SMT
<1>2. w \in Nat /\ w * 100 - b * 256 <= 50 /\ -50 < w * 100 - b * 256 BY ONLY SMT, <1>1
<1>3. u \in Nat /\ u * 100 - b * 15 <= 50 /\ -50 < u * 100 - b * 15 BY ONLY SMT, <1>1
<1> HIDE DEF w, u
<1>4. (w % 256) + 256 * (w \div 256) = w BY ONLY SMT, <1>2
<1>5. Abs(w * 100 - b * 256) <= 128 BY ONLY SMT, <1>1, <1>2 DEF Abs
<1>6. Abs(u * 100 - b * 15) <= 50 BY ONLY SMT, <1>1, <1>3 DEF Abs
<1>7. Clamp(b, 0, 100) = b BY ONLY SMT, <1>1 DEF Clamp
<1>8. a3wl_brightness_to_wire(b) = u BY ONLY Zenon, <1>7 DEF a3wl_brightness_to_wire, u
<1> QED BY ONLY ZenonT(30), <1>4, <1>5, <1>6, <1>7, <1>8 DEF w

LEMMA ActionIs ==
    ASSUME NEW d, NEW a, NEW key, NEW media, a[2] \in 0..255,
           key = IF d.name = "rival3" THEN 51 ELSE 81, media = IF d.name = "rival3" THEN 52 ELSE 97
    PROVE  ShowsAction(d, a, ActionBytes(a, key, media))
<1>1. a[2] % 256 = a[2] BY SMT
<1>2. CASE a[1] = "mouse" BY SMT, <1>1, <1>2 DEF ActionBytes, ShowsAction
<1>3. CASE a[1] = "dpi" BY SMT, <1>1, <1>3 DEF ActionBytes, ShowsAction
<1>4. CASE a[1] = "scrollup" BY SMT, <1>1, <1>4 DEF ActionBytes, ShowsAction
<1>5. CASE a[1] = "scrolldown" BY SMT, <1>1, <1>5 DEF ActionBytes, ShowsAction
<1>6. CASE a[1] = "key" BY SMT, <1>1, <1>6 DEF ActionBytes, ShowsAction
<1>7. CASE a[1] = "media" BY SMT, <1>1, <1>7 DEF ActionBytes, ShowsAction
<1>8. CASE a[1] \notin {"mouse", "dpi", "scrollup", "scrolldown", "key", "media"}
  <2>1. ActionBytes(a, key, media) = <<0, 0>> BY Zenon, <1>8 DEF ActionBytes
  <2>2. ShowsAction(d, a, <<0, 0>>) = (<<0, 0>> = <<0, 0>>) BY Zenon, <1>8 DEF ShowsAction
  <2> QED BY ONLY Zenon, <2>1, <2>2
<1> QED BY ONLY <1>2, <1>3, <1>4, <1>5, <1>6, <1>7, <1>8

-----------------------------------------------------------------------------
(* The drivers, step by step.                                                  *)

LEMMA CatIs ==
    ASSUME NEW S, NEW s \in Seq(S), NEW t \in Seq(S)
    PROVE  /\ s \o t \in Seq(S) /\ Len(s \o t) = Len(s) + Len(t)
           /\ \A i \in 1..Len(s) : (s \o t)[i] = s[i]
           /\ \A i \in 1..Len(t) : (s \o t)[Len(s) + i] = t[i]
<1>1. Len(s) \in Nat /\ Len(t) \in Nat BY LenProperties
<1> QED BY <1>1, ConcatProperties

LEMMA CatRange ==
    ASSUME NEW S, NEW s \in Seq(S), NEW t \in Seq(S)
    PROVE  Range(s \o t) = Range(s) \cup Range(t)
<1>1. Len(s) \in Nat /\ Len(t) \in Nat /\ DOMAIN s = 1..Len(s) /\ DOMAIN t = 1..Len(t) BY LenProperties
<1>2. s \o t \in Seq(S) /\ Len(s \o t) = Len(s) + Len(t) BY CatIs
<1>3. DOMAIN (s \o t) = 1..(Len(s) + Len(t)) BY <1>2, LenProperties
<1>4. ASSUME NEW i \in DOMAIN (s \o t) PROVE (s \o t)[i] \in Range(s) \cup Range(t)
  <2>1. i \in 1..Len(s) \/ i - Len(s) \in 1..Len(t) BY <1>1, <1>3, <1>4
  <2>2. Len(s) + (i - Len(s)) = i BY <1>1, <1>3, <1>4
  <2> QED BY <1>1, <2>1, <2>2, CatIs DEF Range
<1>5. \A i \in DOMAIN s : i \in DOMAIN (s \o t) /\ (s \o t)[i] = s[i] BY <1>1, <1>3, CatIs
<1>6. \A i \in DOMAIN t : Len(s) + i \in DOMAIN (s \o t) /\ (s \o t)[Len(s) + i] = t[i] BY <1>1, <1>3, CatIs
<1>7. \A x \in Range(s \o t) : x \in Range(s) \cup Range(t) BY ONLY <1>4 DEF Range
<1>8. \A x \in Range(s) : x \in Range(s \o t) BY ONLY <1>5 DEF Range
<1>9. \A x \in Range(t) : x \in Range(s \o t) BY ONLY <1>6 DEF Range
<1> QED BY ONLY <1>7, <1>8, <1>9

\* What each driver declares.
LEMMA Declares ==
    /\ rival3.name = "rival3" /\ Range(rival3.steps) = MouseStep /\ Zones(rival3) = 1..4
    /\ rival600.name = "rival600" /\ Range(rival600.steps) = {"dpi", "polling", "colors", "buttons"}
    /\ Zones(rival600) = 1..8
    /\ prime.name = "prime" /\ Range(prime.steps) = MouseStep /\ Zones(prime) = {1}
    /\ apex100.name = "apex100" /\ Range(apex100.steps) = {"polling", "colors", "brightness"} /\ Zones(apex100) = {1}
    /\ aerox3.name = "aerox3" /\ Range(aerox3.steps) = MouseStep \cup {"sleep"} /\ Zones(aerox3) = 1..3
    /\ aerox3_bt.name = "aerox3_bt" /\ Range(aerox3_bt.steps) = {"dpi", "sleep", "brightness"}
    /\ rival3_gen2.name = "rival3_gen2" /\ Range(rival3_gen2.steps) = MouseStep /\ Zones(rival3_gen2) = 1..3
<1>1. rival3.name = "rival3" /\ Range(rival3.steps) = MouseStep /\ Zones(rival3) = 1..4
  BY SMT DEF rival3, Range, MouseSteps, MouseStep, Zones
<1>2. rival600.name = "rival600" /\ Range(rival600.steps) = {"dpi", "polling", "colors", "buttons"} /\ Zones(rival600) = 1..8
  BY SMT DEF rival600, Range, Zones
<1>3. prime.name = "prime" /\ Range(prime.steps) = MouseStep /\ Zones(prime) = {1}
  BY SMT DEF prime, Range, MouseSteps, MouseStep, Zones
<1>4. apex100.name = "apex100" /\ Range(apex100.steps) = {"polling", "colors", "brightness"} /\ Zones(apex100) = {1}
  BY SMT DEF apex100, Range, Zones
<1>5. aerox3.name = "aerox3" /\ Zones(aerox3) = 1..3
  BY SMT DEF aerox3, Zones
<1>6. Range(aerox3.steps) = MouseStep \cup {"sleep"}
  <2>1. aerox3.steps = MouseSteps \o <<"sleep">> BY DEF aerox3
  <2> DEFINE S == MouseStep \cup {"sleep"}
  <2>2. MouseSteps \in Seq(S) /\ <<"sleep">> \in Seq(S) BY DEF MouseSteps, MouseStep
  <2>3. Range(MouseSteps) = MouseStep BY DEF Range, MouseSteps, MouseStep
  <2>4. Range(<<"sleep">>) = {"sleep"} BY DEF Range
  <2> DEFINE t == <<"sleep">>
  <2> HIDE DEF S, t
  <2>5. Range(MouseSteps \o t) = Range(MouseSteps) \cup Range(t)
    <3>1. MouseSteps \in Seq(S) /\ t \in Seq(S) BY ONLY <2>2 DEF t
    <3> QED BY ONLY <3>1, CatRange
  <2> QED BY ONLY <2>1, <2>3, <2>4, <2>5 DEF t
<1>7. aerox3_bt.name = "aerox3_bt" /\ Range(aerox3_bt.steps) = {"dpi", "sleep", "brightness"}
  BY SMT DEF aerox3_bt, Range
<1>8. rival3_gen2.name = "rival3_gen2" /\ Range(rival3_gen2.steps) = MouseStep /\ Zones(rival3_gen2) = 1..3
  BY SMT DEF rival3_gen2, Range, MouseSteps, MouseStep, Zones
<1> QED BY ONLY <1>1, <1>2, <1>3, <1>4, <1>5, <1>6, <1>7, <1>8

\* How far each sensor goes, and the rates they all have.
LEMMA Sensors ==
    /\ rival3.lo = 200 /\ rival3.hi = 8500 /\ rival3.grid = 100
    /\ rival600.lo = 100 /\ rival600.hi = 12000 /\ rival600.grid = 100
    /\ prime.lo = 50 /\ prime.hi = 18000 /\ prime.grid = 50
    /\ aerox3.lo = 100 /\ aerox3.hi = 18000 /\ aerox3.grid = 100
    /\ aerox3_bt.lo = 100 /\ aerox3_bt.hi = 18000 /\ aerox3_bt.grid = 100
    /\ rival3_gen2.lo = 200 /\ rival3_gen2.hi = 8500 /\ rival3_gen2.grid = 100
  BY SMT DEF rival3, rival600, prime, aerox3, aerox3_bt, rival3_gen2

LEMMA RatesAre ==
    /\ rival3.rates = Rates /\ rival600.rates = Rates /\ prime.rates = Rates /\ apex100.rates = Rates
    /\ aerox3.rates = Rates /\ rival3_gen2.rates = Rates
    /\ Range(Rates) = {1000, 500, 250, 125}
<1>1. /\ rival3.rates = Rates /\ rival600.rates = Rates /\ prime.rates = Rates /\ apex100.rates = Rates
      /\ aerox3.rates = Rates /\ rival3_gen2.rates = Rates
  BY SMT DEF rival3, rival600, prime, apex100, aerox3, rival3_gen2
<1>2. Range(Rates) = {1000, 500, 250, 125} BY SMT DEF Rates, Range
<1> QED BY ONLY <1>1, <1>2

\* The buttons, the effect the whole device has, and which of them have levels.
LEMMA ButtonsAre ==
    /\ DOMAIN rival3.buttons = 1..8 /\ DOMAIN rival600.buttons = 1..7 /\ DOMAIN prime.buttons = 1..6
    /\ DOMAIN aerox3.buttons = 1..8 /\ DOMAIN rival3_gen2.buttons = 1..8
<1>1. Len(Five) = 5 /\ Five \in Seq(ActionType \X {0, 1, 2, 3, 4, 5})
  BY SMT DEF Five, ActionType, Left, Right, Middle, Back, Forward
<1> DEFINE S == ActionType \X {0, 1, 2, 3, 4, 5}
           e == <<Cycle, <<"scrollup", 0>>, <<"scrolldown", 0>>>>
           f == <<<<"disabled", 0>>, Cycle>>
           g == <<Cycle>>
<1>2. /\ e \in Seq(S) /\ Len(e) = 3
      /\ f \in Seq(S) /\ Len(f) = 2
      /\ g \in Seq(S) /\ Len(g) = 1
  BY SMT DEF Cycle, ActionType
<1>3. /\ rival3.buttons = Five \o e /\ aerox3.buttons = Five \o e /\ rival3_gen2.buttons = Five \o e
      /\ rival600.buttons = Five \o f /\ prime.buttons = Five \o g
  BY SMT DEF rival3, rival600, prime, aerox3, rival3_gen2, Eight
<1> HIDE DEF S, e, f, g
<1>4. Five \in Seq(S) /\ Len(Five) = 5 BY <1>1 DEF S
<1>5. Five \o e \in Seq(S) /\ Len(Five \o e) = 8
  <2>1. Five \o e \in Seq(S) /\ Len(Five \o e) = Len(Five) + Len(e) BY ONLY Zenon, <1>2, <1>4, CatIs
  <2> QED BY ONLY <1>2, <1>4, <2>1
<1>6. Five \o f \in Seq(S) /\ Len(Five \o f) = 7
  <2>1. Five \o f \in Seq(S) /\ Len(Five \o f) = Len(Five) + Len(f) BY ONLY Zenon, <1>2, <1>4, CatIs
  <2> QED BY ONLY <1>2, <1>4, <2>1
<1>7. Five \o g \in Seq(S) /\ Len(Five \o g) = 6
  <2>1. Five \o g \in Seq(S) /\ Len(Five \o g) = Len(Five) + Len(g) BY ONLY Zenon, <1>2, <1>4, CatIs
  <2> QED BY ONLY <1>2, <1>4, <2>1
<1>8. \A t \in Seq(S) : DOMAIN t = 1..Len(t) OBVIOUS
<1> QED BY ONLY <1>3, <1>5, <1>6, <1>7, <1>8

LEMMA CapsAre ==
    /\ rival3.kind = "mouse" /\ rival600.kind = "mouse" /\ prime.kind = "mouse" /\ aerox3.kind = "mouse"
    /\ aerox3_bt.kind = "mouse" /\ rival3_gen2.kind = "mouse"
    /\ "global" \in rival3.caps /\ rival600.limit = 2 /\ rival600.caps \cap {"global", "speed"} = {}
  BY SMT DEF rival3, rival600, prime, aerox3, aerox3_bt, rival3_gen2, Transform

\* All of it by name.
LEMMA Kinds ==
    ASSUME NEW d \in Registry
    PROVE  /\ d.name \in {"rival3", "rival600", "prime", "apex100", "aerox3", "aerox3_bt", "rival3_gen2"}
           /\ d.name # "apex100" => d.kind = "mouse"
           /\ d.name # "aerox3_bt" => Range(d.rates) = {1000, 500, 250, 125}
           /\ d.name = "rival3" =>
                /\ Range(d.steps) = MouseStep /\ Zones(d) = 1..4 /\ DOMAIN d.buttons = 1..8 /\ "global" \in d.caps
                /\ d.lo = 200 /\ d.hi = 8500 /\ d.grid = 100
           /\ d.name = "rival600" =>
                /\ Range(d.steps) = {"dpi", "polling", "colors", "buttons"} /\ Zones(d) = 1..8 /\ DOMAIN d.buttons = 1..7
                /\ d.lo = 100 /\ d.hi = 12000 /\ d.grid = 100
           /\ d.name = "prime" =>
                /\ Range(d.steps) = MouseStep /\ Zones(d) = {1} /\ DOMAIN d.buttons = 1..6
                /\ d.lo = 50 /\ d.hi = 18000 /\ d.grid = 50
           /\ d.name = "apex100" => Range(d.steps) = {"polling", "colors", "brightness"} /\ Zones(d) = {1}
           /\ d.name = "aerox3" =>
                /\ Range(d.steps) = MouseStep \cup {"sleep"} /\ Zones(d) = 1..3 /\ DOMAIN d.buttons = 1..8
                /\ d.lo = 100 /\ d.hi = 18000 /\ d.grid = 100
           /\ d.name = "aerox3_bt" =>
                /\ Range(d.steps) = {"dpi", "sleep", "brightness"} /\ d.lo = 100 /\ d.hi = 18000 /\ d.grid = 100
           /\ d.name = "rival3_gen2" =>
                /\ Range(d.steps) = MouseStep /\ Zones(d) = 1..3 /\ DOMAIN d.buttons = 1..8
                /\ d.lo = 200 /\ d.hi = 8500 /\ d.grid = 100
<1>1. CASE d = rival3 BY ONLY SMT, <1>1, Declares, Sensors, RatesAre, ButtonsAre, CapsAre
<1>2. CASE d = rival600 BY ONLY SMT, <1>2, Declares, Sensors, RatesAre, ButtonsAre, CapsAre
<1>3. CASE d = prime BY ONLY SMT, <1>3, Declares, Sensors, RatesAre, ButtonsAre, CapsAre
<1>4. CASE d = apex100 BY ONLY SMT, <1>4, Declares, RatesAre
<1>5. CASE d = aerox3 BY ONLY SMT, <1>5, Declares, Sensors, RatesAre, ButtonsAre, CapsAre
<1>6. CASE d = aerox3_bt BY ONLY SMT, <1>6, Declares, Sensors, RatesAre, CapsAre
<1>7. CASE d = rival3_gen2 BY ONLY SMT, <1>7, Declares, Sensors, RatesAre, ButtonsAre, CapsAre
<1> QED BY ONLY <1>1, <1>2, <1>3, <1>4, <1>5, <1>6, <1>7, d \in Registry DEF Registry

LEMMA Routed ==
    ASSUME NEW d, NEW s \in Range(d.steps), NEW c
    PROVE  /\ d.name = "rival3" => Packets(d, s, c) = r3_apply(s, c)
           /\ d.name = "rival600" => Packets(d, s, c) = r600_apply(s, c)
           /\ d.name = "prime" => Packets(d, s, c) = prime_apply(s, c)
           /\ d.name = "apex100" => Packets(d, s, c) = apex100_apply(s, c)
           /\ d.name = "aerox3" => Packets(d, s, c) = a3wl_apply(s, c)
           /\ d.name = "aerox3_bt" => Packets(d, s, c) = a3wl_bt_apply(s, c)
           /\ d.name = "rival3_gen2" => Packets(d, s, c) = r3g2_apply(s, c)
<1>1. d.name = "rival3" => Packets(d, s, c) = r3_apply(s, c) BY Zenon DEF Packets
<1>2. d.name = "rival600" => Packets(d, s, c) = r600_apply(s, c) BY Zenon DEF Packets
<1>3. d.name = "prime" => Packets(d, s, c) = prime_apply(s, c) BY Zenon DEF Packets
<1>4. d.name = "apex100" => Packets(d, s, c) = apex100_apply(s, c) BY Zenon DEF Packets
<1>5. d.name = "aerox3" => Packets(d, s, c) = a3wl_apply(s, c) BY Zenon DEF Packets
<1>6. d.name = "aerox3_bt" => Packets(d, s, c) = a3wl_bt_apply(s, c) BY Zenon DEF Packets
<1>7. d.name = "rival3_gen2" => Packets(d, s, c) = r3g2_apply(s, c) BY Zenon DEF Packets
<1> QED BY ONLY <1>1, <1>2, <1>3, <1>4, <1>5, <1>6, <1>7

LEMMA R3Apply ==
    ASSUME NEW c
    PROVE  /\ r3_apply("dpi", c) = <<r3_build_dpi(c)>>
           /\ r3_apply("polling", c) = <<Reg("rate", RateStep(c.polling) + 1)>>
           /\ \A s \in Lighting : r3_apply(s, c) = r3_apply_colors(c)
           /\ r3_apply("buttons", c) = <<Reg("buttons", [b \in 1..8 |-> ActionBytes(c.buttons[b], 51, 52)])>>
<1>1. r3_apply("dpi", c) = <<r3_build_dpi(c)>> BY Zenon DEF r3_apply
<1>2. r3_apply("polling", c) = <<Reg("rate", RateStep(c.polling) + 1)>> BY Zenon DEF r3_apply, r3_build_polling
<1>3. r3_apply("colors", c) = r3_apply_colors(c) BY Zenon DEF r3_apply
<1>4. r3_apply("brightness", c) = r3_apply_colors(c) BY Zenon DEF r3_apply
<1>5. r3_apply("buttons", c) = <<Reg("buttons", [b \in 1..8 |-> ActionBytes(c.buttons[b], 51, 52)])>>
  BY Zenon DEF r3_apply, r3_build_buttons
<1> QED BY ONLY Zenon, <1>1, <1>2, <1>3, <1>4, <1>5 DEF Lighting

LEMMA R600Apply ==
    ASSUME NEW c
    PROVE  /\ r600_apply("dpi", c) = <<At("preset", 1, r600_dpi_to_wire(c.dpi[1][1])),
                                       At("preset", 2, r600_dpi_to_wire(c.dpi[IF c.count > 1 THEN 2 ELSE 1][1]))>>
           /\ r600_apply("polling", c) = <<Reg("rate", RateStep(c.polling) + 1)>>
           /\ r600_apply("colors", c) = [z \in 1..8 |-> r600_build_zone_color(c, z)]
           /\ r600_apply("buttons", c) = <<Reg("buttons", [b \in 1..7 |-> ActionBytes(c.buttons[b], 81, 97)])>>
<1>1. r600_apply("dpi", c) = <<At("preset", 1, r600_dpi_to_wire(c.dpi[1][1])),
                               At("preset", 2, r600_dpi_to_wire(c.dpi[IF c.count > 1 THEN 2 ELSE 1][1]))>>
  BY Zenon DEF r600_apply, r600_build_dpi_preset
<1>2. r600_apply("polling", c) = <<Reg("rate", RateStep(c.polling) + 1)>> BY Zenon DEF r600_apply, r600_build_polling
<1>3. r600_apply("colors", c) = [z \in 1..8 |-> r600_build_zone_color(c, z)] BY Zenon DEF r600_apply
<1>4. r600_apply("buttons", c) = <<Reg("buttons", [b \in 1..7 |-> ActionBytes(c.buttons[b], 81, 97)])>>
  BY Zenon DEF r600_apply, r600_build_buttons, r600_action_first_byte
<1> QED BY ONLY Zenon, <1>1, <1>2, <1>3, <1>4

LEMMA PrimeApply ==
    ASSUME NEW c
    PROVE  /\ prime_apply("dpi", c) = <<prime_build_dpi(c)>>
           /\ prime_apply("polling", c) = <<Reg("rate", RateStep(c.polling) + 1)>>
           /\ prime_apply("colors", c) = <<At("lamp", 1, c.color[1])>>
           /\ prime_apply("brightness", c) = <<prime_build_brightness(c)>>
           /\ prime_apply("buttons", c) = <<Reg("buttons", [b \in 1..6 |-> ActionBytes(c.buttons[b], 81, 97)])>>
<1>1. prime_apply("dpi", c) = <<prime_build_dpi(c)>> BY Zenon DEF prime_apply
<1>2. prime_apply("polling", c) = <<Reg("rate", RateStep(c.polling) + 1)>> BY Zenon DEF prime_apply, prime_build_polling
<1>3. prime_apply("colors", c) = <<At("lamp", 1, c.color[1])>> BY Zenon DEF prime_apply, prime_build_color
<1>4. prime_apply("brightness", c) = <<prime_build_brightness(c)>> BY Zenon DEF prime_apply
<1>5. prime_apply("buttons", c) = <<Reg("buttons", [b \in 1..6 |-> ActionBytes(c.buttons[b], 81, 97)])>>
  BY Zenon DEF prime_apply, prime_build_buttons, prime_action_first_byte
<1> QED BY ONLY Zenon, <1>1, <1>2, <1>3, <1>4, <1>5

LEMMA ApexApply ==
    ASSUME NEW c
    PROVE  /\ apex100_apply("polling", c) = <<Reg("rate", RateStep(c.polling) + 1)>>
           /\ apex100_apply("brightness", c) = <<Reg("bright", Clamp(c.bright, 0, 100))>>
           /\ apex100_apply("colors", c) = <<Reg("bright", Clamp(c.bright, 0, 100)), apex100_build_effect(c)>>
<1>1. apex100_apply("polling", c) = <<Reg("rate", RateStep(c.polling) + 1)>> BY Zenon DEF apex100_apply, apex100_build_polling
<1>2. apex100_apply("brightness", c) = <<Reg("bright", Clamp(c.bright, 0, 100))>> BY Zenon DEF apex100_apply, apex100_build_brightness
<1>3. apex100_apply("colors", c) = <<Reg("bright", Clamp(c.bright, 0, 100)), apex100_build_effect(c)>>
  BY Zenon DEF apex100_apply, apex100_build_brightness
<1> QED BY ONLY Zenon, <1>1, <1>2, <1>3

LEMMA AeroxApply ==
    ASSUME NEW c
    PROVE  /\ a3wl_apply("dpi", c) = <<a3wl_build_dpi(c)>>
           /\ a3wl_apply("polling", c) = <<Reg("rate", RateStep(c.polling))>>
           /\ a3wl_apply("colors", c) = a3wl_apply_colors(c)
           /\ a3wl_apply("brightness", c) = <<a3wl_build_brightness(c)>>
           /\ a3wl_apply("buttons", c) = <<Reg("buttons", [b \in 1..8 |-> ActionBytes(c.buttons[b], 81, 97)])>>
           /\ a3wl_apply("sleep", c) = <<a3wl_build_sleep(c)>>
           /\ a3wl_bt_apply("dpi", c) = <<a3wl_build_dpi(c)>>
           /\ a3wl_bt_apply("sleep", c) = <<a3wl_build_sleep(c)>>
           /\ a3wl_bt_apply("brightness", c) = <<a3wl_build_brightness(c)>>
<1>1. a3wl_apply("dpi", c) = <<a3wl_build_dpi(c)>> BY Zenon DEF a3wl_apply
<1>2. a3wl_apply("polling", c) = <<Reg("rate", RateStep(c.polling))>> BY Zenon DEF a3wl_apply, a3wl_build_polling
<1>3. a3wl_apply("colors", c) = a3wl_apply_colors(c) BY Zenon DEF a3wl_apply
<1>4. a3wl_apply("brightness", c) = <<a3wl_build_brightness(c)>> BY Zenon DEF a3wl_apply
<1>5. a3wl_apply("buttons", c) = <<Reg("buttons", [b \in 1..8 |-> ActionBytes(c.buttons[b], 81, 97)])>>
  BY Zenon DEF a3wl_apply, a3wl_build_buttons
<1>6. a3wl_apply("sleep", c) = <<a3wl_build_sleep(c)>> BY Zenon DEF a3wl_apply
<1>7. a3wl_bt_apply("dpi", c) = <<a3wl_build_dpi(c)>> BY Zenon DEF a3wl_bt_apply
<1>8. a3wl_bt_apply("sleep", c) = <<a3wl_build_sleep(c)>> BY Zenon DEF a3wl_bt_apply
<1>9. a3wl_bt_apply("brightness", c) = <<a3wl_build_brightness(c)>> BY Zenon DEF a3wl_bt_apply
<1> QED BY ONLY Zenon, <1>1, <1>2, <1>3, <1>4, <1>5, <1>6, <1>7, <1>8, <1>9

LEMMA Gen2Apply ==
    ASSUME NEW c
    PROVE  /\ r3g2_apply("dpi", c) = <<r3g2_build_dpi(c)>>
           /\ r3g2_apply("polling", c) = <<Reg("rate", RateStep(c.polling) + 1)>>
           /\ r3g2_apply("colors", c) = r3g2_apply_colors(c)
           /\ r3g2_apply("brightness", c) = <<Reg("bright", Clamp(c.bright, 0, 100))>>
           /\ r3g2_apply("buttons", c) = <<Reg("buttons", [b \in 1..8 |-> ActionBytes(c.buttons[b], 81, 97)])>>
<1>1. r3g2_apply("dpi", c) = <<r3g2_build_dpi(c)>> BY Zenon DEF r3g2_apply
<1>2. r3g2_apply("polling", c) = <<Reg("rate", RateStep(c.polling) + 1)>> BY Zenon DEF r3g2_apply, r3g2_build_polling
<1>3. r3g2_apply("colors", c) = r3g2_apply_colors(c) BY Zenon DEF r3g2_apply
<1>4. r3g2_apply("brightness", c) = <<Reg("bright", Clamp(c.bright, 0, 100))>> BY Zenon DEF r3g2_apply, r3g2_build_brightness
<1>5. r3g2_apply("buttons", c) = <<Reg("buttons", [b \in 1..8 |-> ActionBytes(c.buttons[b], 81, 97)])>>
  BY Zenon DEF r3g2_apply, r3g2_build_buttons
<1> QED BY ONLY Zenon, <1>1, <1>2, <1>3, <1>4, <1>5

LEMMA ShownIs ==
    ASSUME NEW d, NEW s, NEW c, NEW x
    PROVE  Shown(d, s, c, x) <=>
             /\ Registers(d, s) \subseteq DOMAIN x /\ \E r \in DOMAIN x : r[1] = Where(d, s)
             /\ Reads(d, s, c, x)
  BY Zenon DEF Shown, Shows

LEMMA ReadsIs ==
    ASSUME NEW d, NEW c, NEW x
    PROVE  /\ Reads(d, "dpi", c, x) = ShowsLevels(d, c, x)
           /\ Reads(d, "polling", c, x) = ShowsRate(d, c, x)
           /\ Reads(d, "colors", c, x) = ShowsColors(d, c, x)
           /\ Reads(d, "brightness", c, x) = ShowsBrightness(d, c, x)
           /\ Reads(d, "buttons", c, x) = ShowsButtons(d, c, x)
           /\ Reads(d, "sleep", c, x) = (Number3(x[<<"sleep", 0>>]) = c.sleep * 60000)
<1>1. Reads(d, "dpi", c, x) = ShowsLevels(d, c, x) BY SMT DEF Reads
<1>2. Reads(d, "polling", c, x) = ShowsRate(d, c, x) BY SMT DEF Reads
<1>3. Reads(d, "colors", c, x) = ShowsColors(d, c, x) BY SMT DEF Reads
<1>4. Reads(d, "brightness", c, x) = ShowsBrightness(d, c, x) BY SMT DEF Reads
<1>5. Reads(d, "buttons", c, x) = ShowsButtons(d, c, x) BY SMT DEF Reads
<1>6. Reads(d, "sleep", c, x) = (Number3(x[<<"sleep", 0>>]) = c.sleep * 60000) BY SMT DEF Reads
<1> QED BY ONLY <1>1, <1>2, <1>3, <1>4, <1>5, <1>6

LEMMA Single ==
    ASSUME NEW n, NEW i, NEW v, n \notin {"engine", "mask"}
    PROVE  /\ Orderly(<<At(n, i, v)>>) /\ Len(<<At(n, i, v)>>) = 1
           /\ \A x : Reached(<<At(n, i, v)>>, 1, x) => <<n, i>> \in DOMAIN x /\ x[<<n, i>>] = v
<1> DEFINE q == At(n, i, v)
           p == <<q>>
<1>1. DOMAIN q = {<<n, i>>} /\ q[<<n, i>>] = v BY RegIs
<1> HIDE DEF q
<1>2. DOMAIN p = 1..1 /\ Len(p) = 1 /\ p[1] = q OBVIOUS
<1>3. Engine \notin DOMAIN q /\ Mask \notin DOMAIN q BY <1>1 DEF Engine, Mask
<1> HIDE DEF p
<1>4. Orderly(p) BY ONLY <1>2, <1>3 DEF Orderly
<1>5. ASSUME NEW x, Reached(p, 1, x) PROVE <<n, i>> \in DOMAIN x /\ x[<<n, i>>] = v
  <2>1. <<n, i>> # Mask /\ 1 \in 1..1 /\ \A j \in 2..1 : FALSE BY DEF Mask
  <2> QED BY <1>1, <1>2, <1>5, <2>1 DEF Reached
<1> QED BY <1>2, <1>4, <1>5 DEF p, q

LEMMA OneFull ==
    ASSUME NEW d, NEW s, NEW c, NEW n, NEW v, n \notin {"engine", "mask"},
           Packets(d, s, c) = <<Reg(n, v)>>, Registers(d, s) = {<<n, 0>>}, Where(d, s) = n,
           \A x : x[<<n, 0>>] = v => Reads(d, s, c, x)
    PROVE  OneShows(d, s, c)
<1>1. Packets(d, s, c) = <<At(n, 0, v)>> BY RegIs
<1>2. /\ Orderly(<<At(n, 0, v)>>) /\ Len(<<At(n, 0, v)>>) = 1
      /\ \A x : Reached(<<At(n, 0, v)>>, 1, x) => <<n, 0>> \in DOMAIN x /\ x[<<n, 0>>] = v
  BY Single
<1>3. ASSUME NEW x, <<n, 0>> \in DOMAIN x, x[<<n, 0>>] = v PROVE Shown(d, s, c, x)
  <2>1. Reads(d, s, c, x) BY <1>3
  <2>2. <<n, 0>>[1] = n OBVIOUS
  <2> QED BY ONLY <1>3, <2>1, <2>2, ShownIs, Registers(d, s) = {<<n, 0>>}, Where(d, s) = n
<1>4. Full(d, s, c) BY Zenon, <1>1, <1>2, <1>3 DEF Full
<1>5. \E u : Packets(d, s, c) = <<Reg(Where(d, s), u)>> BY Zenon
<1> QED BY ONLY <1>4, <1>5 DEF OneShows

LEMMA PollingFull ==
    ASSUME NEW d, NEW c, Drv(d, c), "polling" \in Range(d.steps)
    PROVE  OneShows(d, "polling", c)
<1> DEFINE b == IF d.name = "aerox3" THEN 0 ELSE 1
<1>1. d \in Registry BY DEF Drv
<1>0. d.name \in {"rival3", "rival600", "prime", "apex100", "aerox3", "rival3_gen2"} /\ Range(d.rates) = {1000, 500, 250, 125}
  <2>1. d.name # "aerox3_bt" BY ONLY SMT, <1>1, Kinds, "polling" \in Range(d.steps)
  <2>2. d.name \in {"rival3", "rival600", "prime", "apex100", "aerox3", "aerox3_bt", "rival3_gen2"} BY ONLY SMT, <1>1, Kinds
  <2>3. Range(d.rates) = {1000, 500, 250, 125} BY ONLY SMT, <1>1, <2>1, Kinds
  <2> QED BY ONLY <2>1, <2>2, <2>3
<1>2. Packets(d, "polling", c) = <<Reg("rate", IF d.name = "aerox3" THEN RateStep(c.polling) ELSE RateStep(c.polling) + 1)>>
  <2> DEFINE p == <<Reg("rate", RateStep(c.polling) + 1)>>
  <2>1. CASE d.name = "aerox3"
    <3>1. Packets(d, "polling", c) = a3wl_apply("polling", c) BY Zenon, <2>1, Routed
    <3>2. a3wl_apply("polling", c) = <<Reg("rate", RateStep(c.polling))>> BY Zenon, AeroxApply
    <3> QED BY Zenon, <2>1, <3>1, <3>2
  <2>2. CASE d.name # "aerox3"
    <3> DEFINE k == Packets(d, "polling", c)
    <3>1. /\ d.name = "rival3" => k = r3_apply("polling", c)
          /\ d.name = "rival600" => k = r600_apply("polling", c)
          /\ d.name = "prime" => k = prime_apply("polling", c)
          /\ d.name = "apex100" => k = apex100_apply("polling", c)
          /\ d.name = "rival3_gen2" => k = r3g2_apply("polling", c)
      BY ONLY Routed, "polling" \in Range(d.steps)
    <3>2. /\ r3_apply("polling", c) = p /\ r600_apply("polling", c) = p /\ prime_apply("polling", c) = p
          /\ apex100_apply("polling", c) = p /\ r3g2_apply("polling", c) = p
      BY Zenon, R3Apply, R600Apply, PrimeApply, ApexApply, Gen2Apply
    <3> QED BY ONLY Zenon, <1>0, <2>2, <3>1, <3>2
  <2> QED BY ONLY Zenon, <2>1, <2>2
<1>3. ASSUME NEW x, x[<<"rate", 0>>] = IF d.name = "aerox3" THEN RateStep(c.polling) ELSE RateStep(c.polling) + 1
      PROVE  Reads(d, "polling", c, x)
  <2>1. RateStep(c.polling) \in 0..3 BY RateIs
  <2>2. x[<<"rate", 0>>] - b = RateStep(c.polling) BY <1>3, <2>1
  <2>3. ShowsRate(d, c, x) <=>
          1000 \div (2^(x[<<"rate", 0>>] - b)) = IF c.polling \in Range(d.rates) THEN c.polling ELSE 1000
    BY ONLY Zenon DEF ShowsRate, b
  <2>4. 1000 \div (2^RateStep(c.polling)) = IF c.polling \in {1000, 500, 250, 125} THEN c.polling ELSE 1000 BY RateIs
  <2>5. ShowsRate(d, c, x) BY ONLY SMT, <1>0, <2>2, <2>3, <2>4
  <2> QED BY ONLY <2>5, ReadsIs
<1>4. Registers(d, "polling") = {<<"rate", 0>>} /\ Where(d, "polling") = "rate" BY Zenon DEF Registers, Where
<1> QED BY ONLY <1>2, <1>3, <1>4, OneFull

LEMMA Sized ==
    ASSUME NEW d, NEW c, Drv(d, c), d.kind = "mouse"
    PROVE  /\ c.count \in 1..MaxLevels /\ c.active \in 0..(c.count - 1)
           /\ \A i \in 1..MaxLevels : c.dpi[i] = <<c.dpi[i][1], c.dpi[i][2]>> /\ c.dpi[i][1] \in Nat /\ c.dpi[i][2] \in Nat
<1>1. c.count \in 1..MaxLevels /\ c.active \in 0..(c.count - 1) BY DEF Drv, Legal
<1>2. c.dpi \in [1..MaxLevels -> Pair] BY DEF Drv, Config, LevelsOK
<1>3. Word \in Nat BY SMT DEF Word
<1>4. \A p \in Pair : p = <<p[1], p[2]>> /\ p[1] \in Nat /\ p[2] \in Nat BY <1>3 DEF Pair, Words
<1> QED BY ONLY <1>1, <1>2, <1>4

LEMMA NearIs ==
    ASSUME NEW d, NEW w, NEW v, NEW cpi \in Int, Cpi(d, w) = cpi,
           NEW lo \in Int, NEW hi \in Int, lo <= cpi, cpi <= hi, NEW g, Abs(cpi - Clamp(v, lo, hi)) < g,
           d.lo = lo, d.hi = hi, d.grid = g
    PROVE  Near(d, w, v)
  BY DEF Near

LEMMA CpiIs ==
    ASSUME NEW d, NEW w
    PROVE  /\ d.name \in {"rival3", "rival3_gen2"} => Cpi(d, w) = 200 + 100 * InTable(r3_dpi_table, w)
           /\ d.name \in {"aerox3", "aerox3_bt"} => Cpi(d, w) = 100 + 100 * InTable(a3wl_dpi_table, w)
           /\ d.name = "rival600" => Cpi(d, w) = 100 + 100 * w
           /\ d.name = "prime" => Cpi(d, w) = 50 * (w[1] + 256 * w[2])
<1>1. d.name = "rival3" => Cpi(d, w) = 200 + 100 * InTable(r3_dpi_table, w) BY SMT DEF Cpi
<1>2. d.name = "rival3_gen2" => Cpi(d, w) = 200 + 100 * InTable(r3_dpi_table, w) BY SMT DEF Cpi
<1>3. d.name = "aerox3" => Cpi(d, w) = 100 + 100 * InTable(a3wl_dpi_table, w) BY SMT DEF Cpi
<1>4. d.name = "aerox3_bt" => Cpi(d, w) = 100 + 100 * InTable(a3wl_dpi_table, w) BY SMT DEF Cpi
<1>5. d.name = "rival600" => Cpi(d, w) = 100 + 100 * w BY SMT DEF Cpi
<1>6. d.name = "prime" => Cpi(d, w) = 50 * (w[1] + 256 * w[2]) BY SMT DEF Cpi
<1> QED BY ONLY <1>1, <1>2, <1>3, <1>4, <1>5, <1>6

\* The wire value of a level is near it.
LEMMA R3Near ==
    ASSUME NEW d \in Registry, d.name \in {"rival3", "rival3_gen2"}, NEW v \in Nat
    PROVE  Near(d, r3_dpi_table[(Floor(v, 200, 8500, 100) - 200) \div 100 + 1], v)
<1> DEFINE w == r3_dpi_table[(Floor(v, 200, 8500, 100) - 200) \div 100 + 1]
<1>1. PICK cpi \in Int : /\ cpi = 200 + 100 * InTable(r3_dpi_table, w)
                         /\ 200 <= cpi /\ cpi <= 8500 /\ Abs(cpi - Clamp(v, 200, 8500)) < 100
  BY R3Level
<1> HIDE DEF w
<1>2. d.lo = 200 /\ d.hi = 8500 /\ d.grid = 100 BY ONLY SMT, Kinds, d \in Registry, d.name \in {"rival3", "rival3_gen2"}
<1>3. Cpi(d, w) = cpi BY ONLY SMT, <1>1, CpiIs, d.name \in {"rival3", "rival3_gen2"}
<1>4. 200 \in Int /\ 8500 \in Int BY SMT
<1>5. Near(d, w, v) BY ONLY SMT, <1>1, <1>2, <1>3, <1>4, NearIs
<1> QED BY ONLY <1>5 DEF w

LEMMA A3Near ==
    ASSUME NEW d \in Registry, d.name \in {"aerox3", "aerox3_bt"}, NEW v \in Nat
    PROVE  Near(d, a3wl_dpi_table[(Floor(v, 100, 18000, 100) - 100) \div 100 + 1], v)
<1> DEFINE w == a3wl_dpi_table[(Floor(v, 100, 18000, 100) - 100) \div 100 + 1]
<1>1. PICK cpi \in Int : /\ cpi = 100 + 100 * InTable(a3wl_dpi_table, w)
                         /\ 100 <= cpi /\ cpi <= 18000 /\ Abs(cpi - Clamp(v, 100, 18000)) < 100
  BY A3Level
<1> HIDE DEF w
<1>2. d.lo = 100 /\ d.hi = 18000 /\ d.grid = 100 BY ONLY SMT, Kinds, d \in Registry, d.name \in {"aerox3", "aerox3_bt"}
<1>3. Cpi(d, w) = cpi BY ONLY SMT, <1>1, CpiIs, d.name \in {"aerox3", "aerox3_bt"}
<1>4. 100 \in Int /\ 18000 \in Int BY SMT
<1>5. Near(d, w, v) BY ONLY SMT, <1>1, <1>2, <1>3, <1>4, NearIs
<1> QED BY ONLY <1>5 DEF w

LEMMA R600Near ==
    ASSUME NEW d \in Registry, d.name = "rival600", NEW v \in Nat
    PROVE  Near(d, r600_dpi_to_wire(v), v)
<1>1. PICK cpi \in Int : /\ cpi = 100 + 100 * r600_dpi_to_wire(v)
                         /\ 100 <= cpi /\ cpi <= 12000 /\ Abs(cpi - Clamp(v, 100, 12000)) < 100
  BY R600Level
<1>2. d.lo = 100 /\ d.hi = 12000 /\ d.grid = 100 BY ONLY SMT, Kinds, d \in Registry, d.name = "rival600"
<1>3. Cpi(d, r600_dpi_to_wire(v)) = cpi BY ONLY SMT, <1>1, CpiIs, d.name = "rival600"
<1>4. 100 \in Int /\ 12000 \in Int BY SMT
<1> QED BY ONLY SMT, <1>1, <1>2, <1>3, <1>4, NearIs

LEMMA PrimeNear ==
    ASSUME NEW d \in Registry, d.name = "prime", NEW v \in Nat
    PROVE  Near(d, <<prime_dpi_to_wire(v) % 256, prime_dpi_to_wire(v) \div 256>>, v)
<1> DEFINE w == <<prime_dpi_to_wire(v) % 256, prime_dpi_to_wire(v) \div 256>>
<1>1. PICK cpi \in Int : /\ cpi = 50 * ((prime_dpi_to_wire(v) % 256) + 256 * (prime_dpi_to_wire(v) \div 256))
                         /\ 50 <= cpi /\ cpi <= 18000 /\ Abs(cpi - Clamp(v, 50, 18000)) < 50
  BY PrimeLevel
<1>2. w[1] = prime_dpi_to_wire(v) % 256 /\ w[2] = prime_dpi_to_wire(v) \div 256 OBVIOUS
<1> HIDE DEF w
<1>3. d.lo = 50 /\ d.hi = 18000 /\ d.grid = 50 BY ONLY SMT, Kinds, d \in Registry, d.name = "prime"
<1>4. Cpi(d, w) = 50 * (w[1] + 256 * w[2]) BY ONLY CpiIs, d.name = "prime"
<1>5. Cpi(d, w) = cpi BY ONLY SMT, <1>1, <1>2, <1>4
<1>6. 50 \in Int /\ 18000 \in Int BY SMT
<1>7. Near(d, w, v) BY ONLY SMT, <1>1, <1>3, <1>5, <1>6, NearIs
<1> QED BY ONLY <1>7 DEF w

\* A table of levels.
LEMMA LevelsRead ==
    ASSUME NEW d, d.name \notin {"rival600", "rival3_gen2"}, NEW c, c.count \in Nat,
           NEW f, f = [i \in 1..c.count |-> f[i]], \A i \in 1..c.count : Near(d, f[i], c.dpi[i][1]),
           NEW x, x[<<"levels", 0>>] = <<c.active, f>>
    PROVE  Reads(d, "dpi", c, x)
<1>1. Len(f) = c.count OBVIOUS
<1> DEFINE l == x[<<"levels", 0>>]
<1>2. l[1] = c.active /\ l[2] = f OBVIOUS
<1> HIDE DEF l
<1>3. ShowsLevels(d, c, x) BY ONLY SMT, <1>1, <1>2, d.name \notin {"rival600", "rival3_gen2"}, \A i \in 1..c.count : Near(d, f[i], c.dpi[i][1]) DEF ShowsLevels, l
<1> QED BY <1>3, ReadsIs

LEMMA AxesRead ==
    ASSUME NEW d, d.name = "rival3_gen2", NEW c, c.count \in Nat,
           NEW f, f = [i \in 1..c.count |-> f[i]], \A i \in 1..c.count : \A a \in 1..2 : Near(d, f[i][a], c.dpi[i][a]),
           NEW x, x[<<"levels", 0>>] = <<c.active, f>>
    PROVE  Reads(d, "dpi", c, x)
<1>1. Len(f) = c.count OBVIOUS
<1> DEFINE l == x[<<"levels", 0>>]
<1>2. l[1] = c.active /\ l[2] = f OBVIOUS
<1> HIDE DEF l
<1>3. ShowsLevels(d, c, x) BY ONLY SMT, <1>1, <1>2, d.name = "rival3_gen2", \A i \in 1..c.count : \A a \in 1..2 : Near(d, f[i][a], c.dpi[i][a]) DEF ShowsLevels, l
<1> QED BY <1>3, ReadsIs

LEMMA DpiFull ==
    ASSUME NEW d, NEW c, Drv(d, c), "dpi" \in Range(d.steps), d.name # "rival600"
    PROVE  OneShows(d, "dpi", c)
<1> DEFINE R3(v) == r3_dpi_table[(Floor(v, 200, 8500, 100) - 200) \div 100 + 1]
           A3(v) == a3wl_dpi_table[(Floor(v, 100, 18000, 100) - 100) \div 100 + 1]
<1>1. d \in Registry BY DEF Drv
<1>2. d.name \in {"rival3", "prime", "aerox3", "aerox3_bt", "rival3_gen2"} /\ d.kind = "mouse"
  BY ONLY SMT, <1>1, Kinds, "dpi" \in Range(d.steps), d.name # "rival600" DEF MouseStep
<1>3. /\ c.count \in 1..MaxLevels /\ c.active \in 0..(c.count - 1) /\ c.count \in Nat
      /\ \A i \in 1..c.count : c.dpi[i][1] \in Nat /\ c.dpi[i][2] \in Nat
  BY <1>2, Sized DEF MaxLevels
<1>4. Registers(d, "dpi") = {<<"levels", 0>>} /\ Where(d, "dpi") = "levels"
  BY Zenon, d.name # "rival600" DEF Registers, Where
<1>5. CASE d.name = "rival3"
  <2> DEFINE f == [i \in 1..c.count |-> R3(c.dpi[i][1])]
  <2>1. Packets(d, "dpi", c) = <<r3_build_dpi(c)>>
    <3>1. Packets(d, "dpi", c) = r3_apply("dpi", c) BY Zenon, <1>5, Routed
    <3> QED BY Zenon, <3>1, R3Apply
  <2>2. r3_build_dpi(c) = Reg("levels", <<c.active, f>>) BY SMT DEF r3_build_dpi, Levels, r3_dpi_to_wire
  <2>3. \A i \in 1..c.count : Near(d, f[i], c.dpi[i][1])
    <3> TAKE i \in 1..c.count
    <3>1. Near(d, R3(c.dpi[i][1]), c.dpi[i][1]) BY <1>1, <1>3, <1>5, R3Near
    <3> QED BY ONLY SMT, <3>1
  <2>4. f = [i \in 1..c.count |-> f[i]] BY SMT
  <2> HIDE DEF f
  <2>5. \A x : x[<<"levels", 0>>] = <<c.active, f>> => Reads(d, "dpi", c, x) BY <1>3, <1>5, <2>3, <2>4, LevelsRead
  <2> QED BY ONLY <1>4, <2>1, <2>2, <2>5, OneFull
<1>6. CASE d.name \in {"aerox3", "aerox3_bt"}
  <2> DEFINE f == [i \in 1..c.count |-> A3(c.dpi[i][1])]
  <2>1. Packets(d, "dpi", c) = <<a3wl_build_dpi(c)>>
    <3>1. Packets(d, "dpi", c) = a3wl_apply("dpi", c) \/ Packets(d, "dpi", c) = a3wl_bt_apply("dpi", c) BY Zenon, <1>6, Routed
    <3> QED BY Zenon, <3>1, AeroxApply
  <2>2. a3wl_build_dpi(c) = Reg("levels", <<c.active, f>>) BY SMT DEF a3wl_build_dpi, Levels, a3wl_dpi_to_wire
  <2>3. \A i \in 1..c.count : Near(d, f[i], c.dpi[i][1])
    <3> TAKE i \in 1..c.count
    <3>1. Near(d, A3(c.dpi[i][1]), c.dpi[i][1]) BY <1>1, <1>3, <1>6, A3Near
    <3> QED BY ONLY SMT, <3>1
  <2>4. f = [i \in 1..c.count |-> f[i]] BY SMT
  <2> HIDE DEF f
  <2>5. \A x : x[<<"levels", 0>>] = <<c.active, f>> => Reads(d, "dpi", c, x) BY <1>3, <1>6, <2>3, <2>4, LevelsRead
  <2> QED BY ONLY <1>4, <2>1, <2>2, <2>5, OneFull
<1>7. CASE d.name = "rival3_gen2"
  <2> DEFINE f == [i \in 1..c.count |-> [a \in 1..2 |-> R3(c.dpi[i][a])]]
  <2>1. Packets(d, "dpi", c) = <<r3g2_build_dpi(c)>>
    <3>1. Packets(d, "dpi", c) = r3g2_apply("dpi", c) BY Zenon, <1>7, Routed
    <3> QED BY Zenon, <3>1, Gen2Apply
  <2>2. r3g2_build_dpi(c) = Reg("levels", <<c.active, f>>) BY SMT DEF r3g2_build_dpi, Levels, r3g2_dpi_to_wire
  <2>3. ASSUME NEW i \in 1..c.count, NEW a \in 1..2 PROVE Near(d, f[i][a], c.dpi[i][a])
    <3>1. c.dpi[i][a] \in Nat BY <1>3
    <3>2. Near(d, R3(c.dpi[i][a]), c.dpi[i][a]) BY <1>1, <3>1, <1>7, R3Near
    <3> QED BY ONLY SMT, <3>2
  <2>4. f = [i \in 1..c.count |-> f[i]] BY SMT
  <2> HIDE DEF f
  <2>5. \A x : x[<<"levels", 0>>] = <<c.active, f>> => Reads(d, "dpi", c, x) BY <1>3, <1>7, <2>3, <2>4, AxesRead
  <2> QED BY ONLY <1>4, <2>1, <2>2, <2>5, OneFull
<1>8. CASE d.name = "prime"
  <2> DEFINE f == [i \in 1..c.count |-> <<prime_dpi_to_wire(c.dpi[i][1]) % 256, prime_dpi_to_wire(c.dpi[i][1]) \div 256>>]
  <2>1. Packets(d, "dpi", c) = <<prime_build_dpi(c)>>
    <3>1. Packets(d, "dpi", c) = prime_apply("dpi", c) BY Zenon, <1>8, Routed
    <3> QED BY Zenon, <3>1, PrimeApply
  <2>2. prime_build_dpi(c) = Reg("levels", <<c.active, f>>)
    <3>1. Clamp(c.count, 1, 5) = c.count /\ c.active < c.count BY <1>3 DEF Clamp, MaxLevels
    <3> DEFINE g == [i \in 1..Clamp(c.count, 1, 5) |-> LET w == prime_dpi_to_wire(c.dpi[i][1]) IN <<w % 256, w \div 256>>]
               a == IF c.active < Clamp(c.count, 1, 5) THEN c.active ELSE 0
    <3>2. prime_build_dpi(c) = Reg("levels", <<a, g>>) BY ONLY Zenon DEF prime_build_dpi, a, g
    <3>3. a = c.active BY ONLY SMT, <3>1 DEF a
    <3>4. g = f BY ONLY SMT, <3>1 DEF g, f
    <3> QED BY ONLY Zenon, <3>2, <3>3, <3>4
  <2>3. \A i \in 1..c.count : Near(d, f[i], c.dpi[i][1])
    <3> TAKE i \in 1..c.count
    <3>1. Near(d, <<prime_dpi_to_wire(c.dpi[i][1]) % 256, prime_dpi_to_wire(c.dpi[i][1]) \div 256>>, c.dpi[i][1]) BY <1>1, <1>3, <1>8, PrimeNear
    <3> QED BY ONLY SMT, <3>1
  <2>4. f = [i \in 1..c.count |-> f[i]] BY SMT
  <2> HIDE DEF f
  <2>5. \A x : x[<<"levels", 0>>] = <<c.active, f>> => Reads(d, "dpi", c, x) BY <1>3, <1>8, <2>3, <2>4, LevelsRead
  <2> QED BY ONLY <1>4, <2>1, <2>2, <2>5, OneFull
<1> QED BY ONLY <1>2, <1>5, <1>6, <1>7, <1>8

\* Two packets of a register each.
LEMMA Double ==
    ASSUME NEW n, NEW i, NEW v, NEW m, NEW j, NEW w, {n, m} \cap {"engine", "mask"} = {}, <<n, i>> # <<m, j>>
    PROVE  LET p == <<At(n, i, v), At(m, j, w)>> IN
           /\ Orderly(p) /\ Len(p) = 2
           /\ \A x : Reached(p, 2, x) =>
                /\ <<n, i>> \in DOMAIN x /\ x[<<n, i>>] = v
                /\ <<m, j>> \in DOMAIN x /\ x[<<m, j>>] = w
<1> DEFINE q == At(n, i, v)
           s == At(m, j, w)
           p == <<q, s>>
<1>0. DOMAIN q = {<<n, i>>} /\ q[<<n, i>>] = v BY RegIs
<1>s. DOMAIN s = {<<m, j>>} /\ s[<<m, j>>] = w BY RegIs
<1>1. DOMAIN q = {<<n, i>>} /\ q[<<n, i>>] = v /\ DOMAIN s = {<<m, j>>} /\ s[<<m, j>>] = w BY ONLY <1>0, <1>s
<1> HIDE DEF q, s
<1>2. DOMAIN p = 1..2 /\ Len(p) = 2 /\ p[1] = q /\ p[2] = s OBVIOUS
<1>3. Engine \notin DOMAIN q /\ Mask \notin DOMAIN q /\ Engine \notin DOMAIN s /\ Mask \notin DOMAIN s BY <1>1 DEF Engine, Mask
<1> HIDE DEF p
<1>4. Orderly(p)
  <2>1. \A k \in DOMAIN p : Engine \notin DOMAIN p[k] /\ Mask \notin DOMAIN p[k] BY ONLY <1>2, <1>3
  <2> QED BY ONLY <1>2, <2>1 DEF Orderly
<1>5. ASSUME NEW x, Reached(p, 2, x)
      PROVE  <<n, i>> \in DOMAIN x /\ x[<<n, i>>] = v /\ <<m, j>> \in DOMAIN x /\ x[<<m, j>>] = w
  <2>1. <<n, i>> # Mask /\ <<m, j>> # Mask BY DEF Mask
  <2>2. \A k \in 2..2 : <<n, i>> \notin DOMAIN p[k] BY <1>1, <1>2
  <2>3. \A k \in 3..2 : <<m, j>> \notin DOMAIN p[k] OBVIOUS
  <2>4. 1 \in 1..2 /\ 2 \in 1..2 /\ 1 + 1 = 2 /\ 2 + 1 = 3 OBVIOUS
  <2>5. <<n, i>> \in DOMAIN x /\ x[<<n, i>>] = p[1][<<n, i>>] BY ONLY <1>1, <1>2, <1>5, <2>1, <2>2, <2>4 DEF Reached
  <2>6. <<m, j>> \in DOMAIN x /\ x[<<m, j>>] = p[2][<<m, j>>] BY ONLY <1>1, <1>2, <1>5, <2>1, <2>3, <2>4 DEF Reached
  <2> QED BY ONLY <1>1, <1>2, <2>5, <2>6
<1> QED BY <1>2, <1>4, <1>5 DEF p, q, s

LEMMA PresetFull ==
    ASSUME NEW d, NEW c, Drv(d, c), d.name = "rival600"
    PROVE  Full(d, "dpi", c)
<1> DEFINE v == r600_dpi_to_wire(c.dpi[1][1])
           u == c.dpi[IF c.count > 1 THEN 2 ELSE 1][1]
           w == r600_dpi_to_wire(u)
           p == <<At("preset", 1, v), At("preset", 2, w)>>
<1>1. d \in Registry BY DEF Drv
<1>2. d.kind = "mouse" /\ "dpi" \in Range(d.steps) BY ONLY SMT, <1>1, Kinds, d.name = "rival600"
<1>3. c.count \in 1..MaxLevels /\ c.dpi[1][1] \in Nat /\ c.dpi[2][1] \in Nat
  <2>1. 1 \in 1..MaxLevels /\ 2 \in 1..MaxLevels BY DEF MaxLevels
  <2> QED BY ONLY <1>2, <2>1, Sized, Drv(d, c)
<1>4. Packets(d, "dpi", c) = p
  <2>1. Packets(d, "dpi", c) = r600_apply("dpi", c) BY Zenon, <1>2, Routed
  <2> QED BY Zenon, <2>1, R600Apply
<1>5. Near(d, v, c.dpi[1][1]) BY <1>1, <1>3, R600Near
<1>6. u \in Nat BY <1>3
<1> HIDE DEF u
<1>7. Near(d, w, u) BY <1>1, <1>6, R600Near
<1> HIDE DEF v, w
<1>8. /\ Orderly(p) /\ Len(p) = 2
      /\ \A x : Reached(p, 2, x) =>
           /\ <<"preset", 1>> \in DOMAIN x /\ x[<<"preset", 1>>] = v
           /\ <<"preset", 2>> \in DOMAIN x /\ x[<<"preset", 2>>] = w
  BY Double
<1>9. Registers(d, "dpi") = {"preset"} \X {1, 2} /\ Where(d, "dpi") = "preset" BY Zenon DEF Registers, Where
<1> HIDE DEF p
<1>10. ASSUME NEW x, <<"preset", 1>> \in DOMAIN x, x[<<"preset", 1>>] = v, <<"preset", 2>> \in DOMAIN x, x[<<"preset", 2>>] = w
       PROVE  Shown(d, "dpi", c, x)
  <2>1. \A i \in 1..2 : Near(d, x[<<"preset", i>>], c.dpi[IF i <= c.count THEN i ELSE 1][1])
    <3>1. Near(d, x[<<"preset", 1>>], c.dpi[IF 1 <= c.count THEN 1 ELSE 1][1]) BY <1>5, <1>10
    <3>2. Near(d, x[<<"preset", 2>>], c.dpi[IF 2 <= c.count THEN 2 ELSE 1][1])
      <4>1. (IF 2 <= c.count THEN 2 ELSE 1) = (IF c.count > 1 THEN 2 ELSE 1) BY <1>3
      <4> QED BY <1>7, <1>10, <4>1 DEF u
    <3> QED BY <3>1, <3>2
  <2>2. Reads(d, "dpi", c, x)
    <3>1. ShowsLevels(d, c, x) BY Zenon, <2>1 DEF ShowsLevels
    <3> QED BY ONLY <3>1, ReadsIs
  <2>3. {"preset"} \X {1, 2} \subseteq DOMAIN x /\ \E r \in DOMAIN x : r[1] = "preset" BY <1>10
  <2> QED BY ONLY <1>9, <2>2, <2>3, ShownIs
<1> QED BY Zenon, <1>4, <1>8, <1>10 DEF Full

LEMMA ButtonsRead ==
    ASSUME NEW d, NEW c, NEW n \in Nat, DOMAIN c.buttons = 1..n, NEW key, NEW media,
           key = IF d.name = "rival3" THEN 51 ELSE 81, media = IF d.name = "rival3" THEN 52 ELSE 97,
           NEW x, x[<<"buttons", 0>>] = [b \in 1..n |-> ActionBytes(c.buttons[b], key, media)]
    PROVE  Reads(d, "buttons", c, x)
<1>1. ASSUME NEW b \in DOMAIN c.buttons, c.buttons[b][2] \in 0..255
      PROVE  ShowsAction(d, c.buttons[b], x[<<"buttons", 0>>][b])
  <2>1. x[<<"buttons", 0>>][b] = ActionBytes(c.buttons[b], key, media) BY <1>1
  <2> DEFINE a == c.buttons[b]
  <2>3. a[2] \in 0..255 BY ONLY <1>1
  <2> HIDE DEF a
  <2>4. ShowsAction(d, a, ActionBytes(a, key, media)) BY <2>3, ActionIs
  <2>2. ShowsAction(d, c.buttons[b], ActionBytes(c.buttons[b], key, media)) BY ONLY <2>4 DEF a
  <2> QED BY ONLY Zenon, <2>1, <2>2
<1>2. ShowsButtons(d, c, x) BY <1>1 DEF ShowsButtons
<1> QED BY ONLY <1>2, ReadsIs

LEMMA ButtonsFull ==
    ASSUME NEW d, NEW c, Drv(d, c), "buttons" \in Range(d.steps)
    PROVE  OneShows(d, "buttons", c)
<1>1. d \in Registry BY DEF Drv
<1> DEFINE n == IF d.name = "prime" THEN 6 ELSE IF d.name = "rival600" THEN 7 ELSE 8
           key == IF d.name = "rival3" THEN 51 ELSE 81
           media == IF d.name = "rival3" THEN 52 ELSE 97
           f == [b \in 1..n |-> ActionBytes(c.buttons[b], key, media)]
<1>2. d.name \in {"rival3", "rival600", "prime", "aerox3", "rival3_gen2"}
  BY ONLY SMT, <1>1, Kinds, "buttons" \in Range(d.steps)
<1>3. DOMAIN d.buttons = 1..n
  <2>1. d.name = "prime" => DOMAIN d.buttons = 1..6 BY ONLY SMT, <1>1, Kinds
  <2>2. d.name = "rival600" => DOMAIN d.buttons = 1..7 BY ONLY SMT, <1>1, Kinds
  <2>3. d.name \in {"rival3", "aerox3", "rival3_gen2"} => DOMAIN d.buttons = 1..8 BY ONLY SMT, <1>1, Kinds
  <2>4. CASE d.name = "prime" BY ONLY <2>1, <2>4 DEF n
  <2>5. CASE d.name = "rival600" BY ONLY <2>2, <2>5 DEF n
  <2>6. CASE d.name \in {"rival3", "aerox3", "rival3_gen2"} BY ONLY <2>3, <2>6 DEF n
  <2> QED BY ONLY <1>2, <2>4, <2>5, <2>6
<1>4. c.buttons \in [DOMAIN d.buttons -> Action] BY DEF Drv, Config, MouseOK
<1>5. DOMAIN c.buttons = 1..n BY ONLY <1>3, <1>4
<1>6. Packets(d, "buttons", c) = <<Reg("buttons", f)>>
  <2> DEFINE B(m, k, v) == <<Reg("buttons", [b \in 1..m |-> ActionBytes(c.buttons[b], k, v)])>>
  <2>1. CASE d.name = "rival3"
    <3>1. Packets(d, "buttons", c) = r3_apply("buttons", c) BY Zenon, <2>1, Routed
    <3>2. r3_apply("buttons", c) = B(8, 51, 52) BY Zenon, R3Apply
    <3>3. n = 8 /\ key = 51 /\ media = 52 BY <2>1
    <3> QED BY Zenon, <3>1, <3>2, <3>3
  <2>2. CASE d.name = "rival600"
    <3>1. Packets(d, "buttons", c) = r600_apply("buttons", c) BY Zenon, <2>2, Routed
    <3>2. r600_apply("buttons", c) = B(7, 81, 97) BY Zenon, R600Apply
    <3>3. n = 7 /\ key = 81 /\ media = 97 BY <2>2
    <3> QED BY Zenon, <3>1, <3>2, <3>3
  <2>3. CASE d.name = "prime"
    <3>1. Packets(d, "buttons", c) = prime_apply("buttons", c) BY Zenon, <2>3, Routed
    <3>2. prime_apply("buttons", c) = B(6, 81, 97) BY Zenon, PrimeApply
    <3>3. n = 6 /\ key = 81 /\ media = 97 BY <2>3
    <3> QED BY Zenon, <3>1, <3>2, <3>3
  <2>4. CASE d.name = "aerox3"
    <3>1. Packets(d, "buttons", c) = a3wl_apply("buttons", c) BY Zenon, <2>4, Routed
    <3>2. a3wl_apply("buttons", c) = B(8, 81, 97) BY Zenon, AeroxApply
    <3>3. n = 8 /\ key = 81 /\ media = 97 BY <2>4
    <3> QED BY Zenon, <3>1, <3>2, <3>3
  <2>5. CASE d.name = "rival3_gen2"
    <3>1. Packets(d, "buttons", c) = r3g2_apply("buttons", c) BY Zenon, <2>5, Routed
    <3>2. r3g2_apply("buttons", c) = B(8, 81, 97) BY Zenon, Gen2Apply
    <3>3. n = 8 /\ key = 81 /\ media = 97 BY <2>5
    <3> QED BY Zenon, <3>1, <3>2, <3>3
  <2> QED BY ONLY <1>2, <2>1, <2>2, <2>3, <2>4, <2>5
<1>7. n \in Nat BY DEF n
<1>8. ASSUME NEW x, x[<<"buttons", 0>>] = f PROVE Reads(d, "buttons", c, x)
  <2>1. key = IF d.name = "rival3" THEN 51 ELSE 81 BY DEF key
  <2>2. media = IF d.name = "rival3" THEN 52 ELSE 97 BY DEF media
  <2> HIDE DEF n, key, media
  <2> QED BY <1>5, <1>7, <1>8, <2>1, <2>2, ButtonsRead
<1>9. Registers(d, "buttons") = {<<"buttons", 0>>} /\ Where(d, "buttons") = "buttons" BY Zenon DEF Registers, Where
<1> HIDE DEF f
<1> QED BY ONLY <1>6, <1>8, <1>9, OneFull

LEMMA SleepFull ==
    ASSUME NEW d, NEW c, Drv(d, c), "sleep" \in Range(d.steps)
    PROVE  OneShows(d, "sleep", c)
<1>1. d \in Registry BY DEF Drv
<1>2. d.name \in {"aerox3", "aerox3_bt"} BY ONLY SMT, <1>1, Kinds, "sleep" \in Range(d.steps) DEF MouseStep
<1>3. Packets(d, "sleep", c) = <<a3wl_build_sleep(c)>>
  <2>1. Packets(d, "sleep", c) = a3wl_apply("sleep", c) \/ Packets(d, "sleep", c) = a3wl_bt_apply("sleep", c) BY Zenon, <1>2, Routed
  <2> QED BY Zenon, <2>1, AeroxApply
<1>4. c.sleep \in 0..20 BY DEF Drv, Legal
<1>5. a3wl_build_sleep(c) = Reg("sleep", Little3(c.sleep * 60000))
  <2>1. Clamp(c.sleep, 0, 20) = c.sleep BY <1>4 DEF Clamp
  <2> QED BY SMT, <2>1 DEF a3wl_build_sleep
<1>6. Number3(Little3(c.sleep * 60000)) = c.sleep * 60000
  <2>1. c.sleep * 60000 \in Nat /\ c.sleep * 60000 < Colour BY SMT, <1>4 DEF Colour, Word
  <2> QED BY ONLY SMT, <2>1, Little3Is
<1>7. ASSUME NEW x, x[<<"sleep", 0>>] = Little3(c.sleep * 60000) PROVE Reads(d, "sleep", c, x)
  <2>1. Number3(x[<<"sleep", 0>>]) = c.sleep * 60000 BY ONLY SMT, <1>6, <1>7
  <2> QED BY ONLY SMT, <2>1 DEF Reads
<1>8. Registers(d, "sleep") = {<<"sleep", 0>>} /\ Where(d, "sleep") = "sleep" BY Zenon DEF Registers, Where
<1> QED BY ONLY SMT, <1>3, <1>5, <1>7, <1>8, OneFull

LEMMA SecondsAre ==
    ASSUME NEW v \in Seconds
    PROVE  v \in Int /\ 0 <= v /\ v <= 1200
  BY SMT DEF Seconds

LEMMA BrightnessFull ==
    ASSUME NEW d, NEW c, Drv(d, c), "brightness" \in Range(d.steps), d.name # "rival3"
    PROVE  OneShows(d, "brightness", c)
<1>1. d \in Registry BY DEF Drv
<1>2. d.name \in {"prime", "apex100", "aerox3", "aerox3_bt", "rival3_gen2"}
  BY ONLY SMT, <1>1, Kinds, "brightness" \in Range(d.steps), d.name # "rival3"
<1>3. c.bright \in 0..100 /\ c.dim \in Seconds BY Zenon DEF Drv, Config, MouseOK, Legal
<1>4. CASE d.name = "prime"
  <2> DEFINE w == (c.bright * 256 + 50) \div 100
             v == <<w % 256, w \div 256>>
  <2>1. Packets(d, "brightness", c) = <<Reg("bright", v)>>
    <3>1. Packets(d, "brightness", c) = prime_apply("brightness", c) BY Zenon, <1>4, Routed
    <3>2. prime_apply("brightness", c) = <<prime_build_brightness(c)>> BY Zenon, PrimeApply
    <3> QED BY SMT, <3>1, <3>2 DEF prime_build_brightness
  <2>2. Abs(((w % 256) + 256 * (w \div 256)) * 100 - c.bright * 256) <= 128 BY ONLY SMT, <1>3, BrightIs
  <2>3. v[1] = w % 256 /\ v[2] = w \div 256 OBVIOUS
  <2>4. Abs((v[1] + 256 * v[2]) * 100 - c.bright * 256) <= 128 BY ONLY SMT, <2>2, <2>3
  <2> HIDE DEF v, w
  <2>5. ASSUME NEW x, x[<<"bright", 0>>] = v PROVE Reads(d, "brightness", c, x)
    <3>1. ShowsBrightness(d, c, x) <=>
            Abs((x[<<"bright", 0>>][1] + 256 * x[<<"bright", 0>>][2]) * 100 - c.bright * 256) <= 128
      BY ONLY SMT, <1>4 DEF ShowsBrightness
    <3>2. ShowsBrightness(d, c, x) BY ONLY SMT, <2>4, <2>5, <3>1
    <3> QED BY ONLY <3>2, ReadsIs
  <2>6. Registers(d, "brightness") = {<<"bright", 0>>} /\ Where(d, "brightness") = "bright" BY Zenon, <1>4 DEF Registers, Where
  <2> QED BY ONLY <2>1, <2>5, <2>6, OneFull
<1>5. CASE d.name \in {"apex100", "rival3_gen2"}
  <2>1. Packets(d, "brightness", c) = <<Reg("bright", Clamp(c.bright, 0, 100))>>
    <3>1. Packets(d, "brightness", c) = apex100_apply("brightness", c) \/ Packets(d, "brightness", c) = r3g2_apply("brightness", c)
      BY Zenon, <1>5, Routed
    <3> QED BY Zenon, <3>1, ApexApply, Gen2Apply
  <2>2. Clamp(c.bright, 0, 100) = c.bright BY ONLY SMT, <1>3, BrightIs
  <2>3. ASSUME NEW x, x[<<"bright", 0>>] = c.bright PROVE Reads(d, "brightness", c, x)
    <3>1. ShowsBrightness(d, c, x) <=> x[<<"bright", 0>>] = c.bright
      BY ONLY SMT, <1>5 DEF ShowsBrightness
    <3> QED BY ONLY <2>3, <3>1, ReadsIs
  <2>4. Registers(d, "brightness") = {<<"bright", 0>>} /\ Where(d, "brightness") = "bright" BY Zenon, <1>5 DEF Registers, Where
  <2>5. Packets(d, "brightness", c) = <<Reg("bright", c.bright)>> BY ONLY Zenon, <2>1, <2>2
  <2> QED BY ONLY <2>3, <2>4, <2>5, OneFull
<1>6. CASE d.name \in {"aerox3", "aerox3_bt"}
  <2> DEFINE b == a3wl_brightness_to_wire(c.bright)
             t == Little3(c.dim * 1000)
             v == <<b, c.smart, t>>
  <2>1. Packets(d, "brightness", c) = <<a3wl_build_brightness(c)>>
    <3>1. Packets(d, "brightness", c) = a3wl_apply("brightness", c) \/ Packets(d, "brightness", c) = a3wl_bt_apply("brightness", c)
      BY Zenon, <1>6, Routed
    <3> QED BY Zenon, <3>1, AeroxApply
  <2>2. Clamp(c.dim, 0, 1200) = c.dim
    <3>1. c.dim \in Int /\ 0 <= c.dim /\ c.dim <= 1200 BY ONLY SMT, <1>3, SecondsAre
    <3> QED BY ONLY SMT, <3>1 DEF Clamp
  <2>3. a3wl_build_brightness(c) = Reg("illum", v) BY ONLY SMT, <2>2 DEF a3wl_build_brightness
  <2>4. Number3(t) = c.dim * 1000
    <3>1. c.dim \in Int /\ 0 <= c.dim /\ c.dim <= 1200 BY ONLY SMT, <1>3, SecondsAre
    <3>2. c.dim * 1000 \in Nat /\ c.dim * 1000 < Colour BY ONLY SMT, <3>1 DEF Colour, Word
    <3> QED BY ONLY SMT, <3>2, Little3Is
  <2>5. Abs(b * 100 - c.bright * 15) <= 50 BY ONLY SMT, <1>3, BrightIs
  <2>6. v[1] = b /\ v[2] = c.smart /\ v[3] = t OBVIOUS
  <2> HIDE DEF v, b, t
  <2>7. ASSUME NEW x, x[<<"illum", 0>>] = v PROVE Reads(d, "brightness", c, x)
    <3> DEFINE i == x[<<"illum", 0>>]
    <3>1. ShowsBrightness(d, c, x) <=>
            Abs(i[1] * 100 - c.bright * 15) <= 50 /\ i[2] = c.smart /\ Number3(i[3]) = c.dim * 1000
      BY ONLY SMT, <1>6 DEF ShowsBrightness
    <3>2. i[1] = b /\ i[2] = c.smart /\ i[3] = t BY ONLY <2>6, <2>7
    <3> HIDE DEF i
    <3>3. ShowsBrightness(d, c, x) BY ONLY SMT, <2>4, <2>5, <3>1, <3>2
    <3> QED BY ONLY <3>3, ReadsIs
  <2>8. Registers(d, "brightness") = {<<"illum", 0>>} /\ Where(d, "brightness") = "illum" BY Zenon, <1>6 DEF Registers, Where
  <2> QED BY ONLY <2>1, <2>3, <2>7, <2>8, OneFull
<1> QED BY ONLY <1>2, <1>4, <1>5, <1>6

-----------------------------------------------------------------------------
(* Colours, driver by driver.                                                  *)

LEMMA PlainOrderly ==
    ASSUME NEW p, DOMAIN p = 1..Len(p), Len(p) \in Nat,
           \A k \in DOMAIN p : Engine \notin DOMAIN p[k] /\ Mask \notin DOMAIN p[k]
    PROVE  Orderly(p)
  BY DEF Orderly

LEMMA ReachedAt ==
    ASSUME NEW p, NEW n \in Nat, NEW x, Reached(p, n, x), NEW i \in 1..n, NEW r \in DOMAIN p[i], r # Mask,
           \A j \in (i + 1)..n : r \notin DOMAIN p[j]
    PROVE  r \in DOMAIN x /\ x[r] = p[i][r]
  BY Zenon DEF Reached

\* A step that shows all lamps is read from a lamp.
LEMMA FirstRunningIs ==
    ASSUME NEW c, DOMAIN c.fx = 1..4, c.fx[1] \in 0..255, \A z \in 1..4 : c.fx[z] = c.fx[1]
    PROVE  FirstRunning(c) = c.fx[1]
<1> DEFINE run == {z \in DOMAIN c.fx : c.fx[z] # 0}
<1>1. FirstRunning(c) = IF run = {} THEN 0 ELSE c.fx[CHOOSE z \in run : \A y \in run : z <= y] BY Zenon DEF FirstRunning
<1>2. CASE c.fx[1] = 0
  <2>1. run = {} BY <1>2
  <2> QED BY ONLY <1>1, <1>2, <2>1
<1>3. CASE c.fx[1] # 0
  <2>1. run = 1..4 BY <1>3
  <2>2. 1 \in run /\ \A y \in run : 1 <= y BY ONLY <2>1
  <2> HIDE DEF run
  <2>3. PICK w : w = CHOOSE z \in run : \A y \in run : z <= y OBVIOUS
  <2>4. w \in run BY ONLY <2>2, <2>3
  <2>5. c.fx[w] = c.fx[1] BY <2>1, <2>4
  <2> QED BY ONLY <1>1, <2>2, <2>3, <2>5
<1> QED BY ONLY <1>2, <1>3

LEMMA FxWire ==
    ASSUME NEW f \in 0..255
    PROVE  r3_fx_wire[IF f < 7 THEN f + 1 ELSE 1]
             = CASE f \in 1..3 -> 4 - f [] f = 4 -> 0 [] f \in 5..6 -> f [] OTHER -> 4
<1>1. f \in Nat BY SMT
<1>2. CASE f \in 1..3
  <2>1. f = 1 \/ f = 2 \/ f = 3 BY <1>2
  <2> QED BY SMT, <2>1 DEF r3_fx_wire
<1>3. CASE f = 4 BY SMT, <1>3 DEF r3_fx_wire
<1>4. CASE f \in 5..6
  <2>1. f = 5 \/ f = 6 BY <1>4
  <2> QED BY SMT, <2>1 DEF r3_fx_wire
<1>5. CASE f = 0 BY SMT, <1>5 DEF r3_fx_wire
<1>6. CASE f > 6
  <2>1. f \notin 1..3 /\ f # 4 /\ f \notin 5..6 BY <1>1, <1>6
  <2>2. (CASE f \in 1..3 -> 4 - f [] f = 4 -> 0 [] f \in 5..6 -> f [] OTHER -> 4) = 4 BY ONLY Zenon, <2>1
  <2>3. (IF f < 7 THEN f + 1 ELSE 1) = 1 BY <1>1, <1>6
  <2>4. r3_fx_wire[1] = 4 BY SMT DEF r3_fx_wire
  <2> QED BY ONLY Zenon, <2>2, <2>3, <2>4
<1> QED BY ONLY SMT, <1>1, <1>2, <1>3, <1>4, <1>5, <1>6

LEMMA R3Packets ==
    ASSUME NEW c
    PROVE  LET p == r3_apply_colors(c) IN
           /\ DOMAIN p = 1..5 /\ Len(p) = 5
           /\ \A z \in 1..4 : /\ DOMAIN p[z] = {<<"lamp", z>>, <<"mode", 0>>}
                              /\ p[z][<<"lamp", z>>] = <<c.color[z], c.bright>>
           /\ DOMAIN p[5] = {<<"mode", 0>>}
           /\ p[5][<<"mode", 0>>] = r3_fx_wire[IF FirstRunning(c) < 7 THEN FirstRunning(c) + 1 ELSE 1]
<1> DEFINE a == [z \in 1..4 |-> r3_build_zone_color(c, z)]
           e == r3_build_effect(c)
           b == <<e>>
           S == Range(a) \cup Range(b)
           p == r3_apply_colors(c)
<1>1. p = a \o b BY DEF r3_apply_colors
<1>2. a \in Seq(S) /\ b \in Seq(S) /\ Len(a) = 4 /\ Len(b) = 1 BY DEF Range
<1>3. \A z \in 1..4 : a[z] = r3_build_zone_color(c, z) OBVIOUS
<1>4. b[1] = e OBVIOUS
<1> HIDE DEF a, b, S, e
<1>5. a \o b \in Seq(S) /\ Len(a \o b) = Len(a) + Len(b) BY ONLY Zenon, <1>2, CatIs
<1>6. \A z \in 1..Len(a) : (a \o b)[z] = a[z] BY ONLY Zenon, <1>2, CatIs
<1>7. \A i \in 1..Len(b) : (a \o b)[Len(a) + i] = b[i]
  <2>1. a \in Seq(S) /\ b \in Seq(S) BY ONLY <1>2
  <2> QED BY ONLY <2>1, CatIs
<1>8. Len(a \o b) = 5 /\ DOMAIN (a \o b) = 1..5 BY ONLY <1>2, <1>5
<1>9. \A z \in 1..4 : p[z] = r3_build_zone_color(c, z) BY ONLY <1>1, <1>2, <1>3, <1>6
<1>10. p[5] = e
  <2>1. 1 \in 1..Len(b) /\ Len(a) + 1 = 5 BY ONLY <1>2
  <2> QED BY ONLY <1>1, <1>4, <1>7, <2>1
<1> HIDE DEF p
<1>11. ASSUME NEW z \in 1..4
       PROVE  DOMAIN p[z] = {<<"lamp", z>>, <<"mode", 0>>} /\ p[z][<<"lamp", z>>] = <<c.color[z], c.bright>>
  <2> DEFINE u == At("lamp", z, <<c.color[z], c.bright>>)
             v == Reg("mode", Stopped)
  <2>1. p[z] = Over(u, v) BY <1>9 DEF r3_build_zone_color
  <2>2. DOMAIN u = {<<"lamp", z>>} /\ u[<<"lamp", z>>] = <<c.color[z], c.bright>>
    <3> DEFINE w == <<c.color[z], c.bright>>
    <3> HIDE DEF w
    <3>1. DOMAIN At("lamp", z, w) = {<<"lamp", z>>} /\ At("lamp", z, w)[<<"lamp", z>>] = w BY ONLY RegIs
    <3> QED BY ONLY <3>1 DEF u, w
  <2>3. Reg("mode", Stopped) = At("mode", 0, Stopped) BY RegIs
  <2>4. DOMAIN v = {<<"mode", 0>>} BY ONLY <2>3, RegIs
  <2> HIDE DEF u, v
  <2>5. DOMAIN Over(u, v) = DOMAIN u \cup DOMAIN v BY OverIs
  <2>6. \A r \in DOMAIN u : Over(u, v)[r] = u[r] BY OverIs
  <2> QED BY ONLY <2>1, <2>2, <2>4, <2>5, <2>6
<1>12. DOMAIN p[5] = {<<"mode", 0>>} /\ p[5][<<"mode", 0>>] = r3_fx_wire[IF FirstRunning(c) < 7 THEN FirstRunning(c) + 1 ELSE 1]
  <2> DEFINE m == r3_fx_wire[IF FirstRunning(c) < 7 THEN FirstRunning(c) + 1 ELSE 1]
  <2>1. e = Reg("mode", m) BY Zenon DEF e, r3_build_effect
  <2> HIDE DEF m
  <2>2. Reg("mode", m) = At("mode", 0, m) BY RegIs
  <2>3. DOMAIN At("mode", 0, m) = {<<"mode", 0>>} /\ At("mode", 0, m)[<<"mode", 0>>] = m BY RegIs
  <2>4. DOMAIN p[5] = {<<"mode", 0>>} /\ p[5][<<"mode", 0>>] = m BY ONLY <1>10, <2>1, <2>2, <2>3
  <2> QED BY ONLY <2>4 DEF m
<1> QED BY ONLY <1>1, <1>8, <1>11, <1>12 DEF p

\* The Rival 3 writes its lamps, colour and brightness, and then the effect they stopped.
LEMMA R3Lights ==
    ASSUME NEW c, DOMAIN c.fx = 1..4, c.fx[1] \in 0..255, \A z \in 1..4 : c.fx[z] = c.fx[1]
    PROVE  LET p == r3_apply_colors(c) IN
           /\ Orderly(p) /\ Len(p) = 5
           /\ \A x : Reached(p, 5, x) =>
                /\ \A z \in 1..4 : <<"lamp", z>> \in DOMAIN x /\ x[<<"lamp", z>>] = <<c.color[z], c.bright>>
                /\ <<"mode", 0>> \in DOMAIN x
                /\ x[<<"mode", 0>>] = CASE c.fx[1] \in 1..3 -> 4 - c.fx[1] [] c.fx[1] = 4 -> 0
                                        [] c.fx[1] \in 5..6 -> c.fx[1] [] OTHER -> 4
<1> DEFINE p == r3_apply_colors(c)
           m == CASE c.fx[1] \in 1..3 -> 4 - c.fx[1] [] c.fx[1] = 4 -> 0 [] c.fx[1] \in 5..6 -> c.fx[1] [] OTHER -> 4
<1>1. /\ DOMAIN p = 1..5 /\ Len(p) = 5
      /\ \A z \in 1..4 : /\ DOMAIN p[z] = {<<"lamp", z>>, <<"mode", 0>>}
                         /\ p[z][<<"lamp", z>>] = <<c.color[z], c.bright>>
      /\ DOMAIN p[5] = {<<"mode", 0>>}
      /\ p[5][<<"mode", 0>>] = r3_fx_wire[IF FirstRunning(c) < 7 THEN FirstRunning(c) + 1 ELSE 1]
  BY Zenon, R3Packets
<1>2. p[5][<<"mode", 0>>] = m
  <2>1. FirstRunning(c) = c.fx[1] BY FirstRunningIs
  <2> DEFINE f == c.fx[1]
  <2>2. f \in 0..255 OBVIOUS
  <2> HIDE DEF f
  <2>3. r3_fx_wire[IF f < 7 THEN f + 1 ELSE 1] = CASE f \in 1..3 -> 4 - f [] f = 4 -> 0 [] f \in 5..6 -> f [] OTHER -> 4
    BY ONLY <2>2, FxWire
  <2>4. p[5][<<"mode", 0>>] = r3_fx_wire[IF f < 7 THEN f + 1 ELSE 1] BY ONLY <1>1, <2>1 DEF f
  <2> QED BY ONLY Zenon, <2>3, <2>4 DEF f, m
<1> HIDE DEF p, m
<1>3. Orderly(p)
  <2>1. ASSUME NEW k \in 1..5 PROVE Engine \notin DOMAIN p[k] /\ Mask \notin DOMAIN p[k]
    <3>1. CASE k \in 1..4 BY ONLY <1>1, <3>1 DEF Engine, Mask
    <3>2. CASE k = 5 BY ONLY <1>1, <3>2 DEF Engine, Mask
    <3> QED BY <3>1, <3>2
  <2>2. DOMAIN p = 1..Len(p) /\ Len(p) \in Nat BY ONLY <1>1
  <2>3. \A k \in DOMAIN p : Engine \notin DOMAIN p[k] /\ Mask \notin DOMAIN p[k] BY ONLY <1>1, <2>1
  <2> QED BY ONLY <2>2, <2>3, PlainOrderly
<1>4. ASSUME NEW x, Reached(p, 5, x), NEW z \in 1..4
      PROVE  <<"lamp", z>> \in DOMAIN x /\ x[<<"lamp", z>>] = <<c.color[z], c.bright>>
  <2>1. ASSUME NEW j \in (z + 1)..5 PROVE <<"lamp", z>> \notin DOMAIN p[j]
    <3>1. CASE j \in 1..4
      <4>1. j # z OBVIOUS
      <4>2. <<"lamp", z>> # <<"lamp", j>> /\ <<"lamp", z>> # <<"mode", 0>> BY ONLY <4>1
      <4> QED BY ONLY <1>1, <3>1, <4>2
    <3>2. CASE j = 5 BY ONLY <1>1, <3>2
    <3>3. j \in 1..4 \/ j = 5 OBVIOUS
    <3> QED BY ONLY <3>1, <3>2, <3>3
  <2> DEFINE r == <<"lamp", z>>
  <2>2. r \in DOMAIN p[z] /\ r # Mask /\ z \in 1..5 /\ 5 \in Nat
    <3>1. r # Mask BY DEF Mask
    <3> QED BY ONLY <1>1, <3>1, z \in 1..4
  <2>3. p[z][r] = <<c.color[z], c.bright>> BY ONLY <1>1, z \in 1..4
  <2>4. \A j \in (z + 1)..5 : r \notin DOMAIN p[j] BY ONLY <2>1
  <2> HIDE DEF r
  <2>5. r \in DOMAIN x /\ x[r] = p[z][r] BY ONLY <1>4, <2>2, <2>4, ReachedAt
  <2> QED BY ONLY <2>3, <2>5 DEF r
<1>5. ASSUME NEW x, Reached(p, 5, x)
      PROVE  <<"mode", 0>> \in DOMAIN x /\ x[<<"mode", 0>>] = m
  <2>1. \A j \in (5 + 1)..5 : <<"mode", 0>> \notin DOMAIN p[j] OBVIOUS
  <2>2. 5 \in 1..5 /\ 5 \in Nat /\ <<"mode", 0>> # Mask BY DEF Mask
  <2>3. <<"mode", 0>> \in DOMAIN p[5] BY ONLY <1>1
  <2>4. <<"mode", 0>> \in DOMAIN x /\ x[<<"mode", 0>>] = p[5][<<"mode", 0>>]
    BY ONLY <1>5, <2>1, <2>2, <2>3, ReachedAt
  <2> QED BY ONLY <1>2, <2>4
<1> QED BY ONLY Zenon, <1>1, <1>3, <1>4, <1>5 DEF p, m

\* Both its steps show both.
LEMMA R3Full ==
    ASSUME NEW d, NEW c, Drv(d, c), d.name = "rival3", NEW s \in Lighting
    PROVE  /\ Packets(d, s, c) = r3_apply_colors(c) /\ Full(d, s, c)
           /\ \A x : Reached(r3_apply_colors(c), 5, x) => Shown(d, "colors", c, x) /\ Shown(d, "brightness", c, x)
<1>1. d \in Registry BY DEF Drv
<1>2. Range(d.steps) = MouseStep /\ Zones(d) = 1..4 /\ "global" \in d.caps BY ONLY SMT, <1>1, Kinds, d.name = "rival3"
<1>3. Packets(d, s, c) = r3_apply_colors(c)
  <2>1. s \in Range(d.steps) BY <1>2 DEF Lighting, MouseStep
  <2>2. Packets(d, s, c) = r3_apply(s, c) BY ONLY Zenon, <2>1, d.name = "rival3", Routed
  <2> QED BY Zenon, <2>2, R3Apply
<1>4. DOMAIN c.fx = 1..4 /\ c.fx[1] \in 0..255 /\ \A z \in 1..4 : c.fx[z] = c.fx[1]
  <2>1. c.fx \in [1..4 -> Bytes] BY Zenon, <1>2 DEF Drv, Config, DevOK
  <2>0. "global" \in d.caps => \A y, z \in Zones(d) : c.fx[y] = c.fx[z] /\ c.param[y] = c.param[z] BY Zenon DEF Drv, Legal
  <2>2. \A y, z \in 1..4 : c.fx[y] = c.fx[z] BY ONLY <1>2, <2>0
  <2> QED BY ONLY <2>1, <2>2 DEF Bytes
<1> DEFINE p == r3_apply_colors(c)
           m == CASE c.fx[1] \in 1..3 -> 4 - c.fx[1] [] c.fx[1] = 4 -> 0 [] c.fx[1] \in 5..6 -> c.fx[1] [] OTHER -> 4
<1>5. /\ Orderly(p) /\ Len(p) = 5
      /\ \A x : Reached(p, 5, x) =>
           /\ \A z \in 1..4 : <<"lamp", z>> \in DOMAIN x /\ x[<<"lamp", z>>] = <<c.color[z], c.bright>>
           /\ <<"mode", 0>> \in DOMAIN x /\ x[<<"mode", 0>>] = m
  BY ONLY Zenon, <1>4, R3Lights
<1>6. ASSUME NEW x, Reached(p, 5, x) PROVE Shown(d, "colors", c, x) /\ Shown(d, "brightness", c, x)
  <2>1. \A z \in 1..4 : <<"lamp", z>> \in DOMAIN x /\ x[<<"lamp", z>>] = <<c.color[z], c.bright>> BY ONLY <1>5, <1>6
  <2>2. <<"mode", 0>> \in DOMAIN x /\ x[<<"mode", 0>>] = m BY ONLY <1>5, <1>6
  <2>3. \A z \in 1..4 : x[<<"lamp", z>>][1] = c.color[z] /\ x[<<"lamp", z>>][2] = c.bright BY ONLY <2>1
  <2> HIDE DEF p
  <2>4. ShowsColors(d, c, x) BY ONLY Zenon, <2>2, <2>3, d.name = "rival3" DEF ShowsColors, m
  <2>5. ShowsBrightness(d, c, x) BY ONLY Zenon, <2>3, d.name = "rival3" DEF ShowsBrightness
  <2>6. Reads(d, "colors", c, x) BY ONLY <2>4, ReadsIs
  <2>7. Reads(d, "brightness", c, x) BY ONLY <2>5, ReadsIs
  <2>8. Registers(d, "colors") = ({"lamp"} \X (1..4)) \cup {<<"mode", 0>>} /\ Where(d, "colors") = "lamp"
    BY ONLY Zenon, d.name = "rival3" DEF Registers, Where
  <2>9. Registers(d, "brightness") = {"lamp"} \X (1..4) /\ Where(d, "brightness") = "lamp"
    BY ONLY Zenon, d.name = "rival3" DEF Registers, Where
  <2>10. {"lamp"} \X (1..4) \subseteq DOMAIN x
    <3>1. ASSUME NEW r \in {"lamp"} \X (1..4) PROVE r \in DOMAIN x
      <4>1. PICK z \in 1..4 : r = <<"lamp", z>> OBVIOUS
      <4> QED BY ONLY <2>1, <4>1
    <3> QED BY ONLY <3>1
  <2>11. \E r \in DOMAIN x : r[1] = "lamp"
    <3>1. <<"lamp", 1>> \in DOMAIN x /\ <<"lamp", 1>>[1] = "lamp" BY ONLY <2>1
    <3> QED BY ONLY <3>1
  <2>12. ({"lamp"} \X (1..4)) \cup {<<"mode", 0>>} \subseteq DOMAIN x BY ONLY <2>2, <2>10
  <2>13. Shown(d, "colors", c, x) BY ONLY <2>6, <2>8, <2>11, <2>12, ShownIs
  <2>14. Shown(d, "brightness", c, x) BY ONLY <2>7, <2>9, <2>10, <2>11, ShownIs
  <2> QED BY ONLY <2>13, <2>14
<1>7. Full(d, s, c)
  <2>1. s = "colors" \/ s = "brightness" BY DEF Lighting
  <2> HIDE DEF p
  <2>2. \A x : Reached(p, 5, x) => Shown(d, s, c, x) BY ONLY <1>6, <2>1
  <2> QED BY ONLY Zenon, <1>3, <1>5, <2>2 DEF Full, p
<1> QED BY ONLY Zenon, <1>3, <1>6, <1>7 DEF p

LEMMA PrimeColors ==
    ASSUME NEW d, NEW c, Drv(d, c), d.name = "prime"
    PROVE  Full(d, "colors", c)
<1>1. d \in Registry BY DEF Drv
<1>2. "colors" \in Range(d.steps)
  <2>1. Range(d.steps) = MouseStep BY ONLY SMT, <1>1, Kinds, d.name = "prime"
  <2> QED BY <2>1 DEF MouseStep
<1> DEFINE v == c.color[1]
<1>3. Packets(d, "colors", c) = <<At("lamp", 1, v)>>
  <2>1. Packets(d, "colors", c) = prime_apply("colors", c) BY ONLY Zenon, <1>2, d.name = "prime", Routed
  <2> QED BY Zenon, <2>1, PrimeApply
<1> HIDE DEF v
<1>4. /\ Orderly(<<At("lamp", 1, v)>>) /\ Len(<<At("lamp", 1, v)>>) = 1
      /\ \A x : Reached(<<At("lamp", 1, v)>>, 1, x) => <<"lamp", 1>> \in DOMAIN x /\ x[<<"lamp", 1>>] = v
  BY Single
<1>5. ASSUME NEW x, <<"lamp", 1>> \in DOMAIN x, x[<<"lamp", 1>>] = v PROVE Shown(d, "colors", c, x)
  <2>1. ShowsColors(d, c, x) BY ONLY Zenon, <1>5, d.name = "prime" DEF ShowsColors, v
  <2>2. Reads(d, "colors", c, x) BY ONLY <2>1, ReadsIs
  <2>3. Registers(d, "colors") = {<<"lamp", 1>>} /\ Where(d, "colors") = "lamp"
    BY ONLY Zenon, d.name = "prime" DEF Registers, Where, Lamp
  <2>4. <<"lamp", 1>>[1] = "lamp" OBVIOUS
  <2> QED BY ONLY <1>5, <2>2, <2>3, <2>4, ShownIs
<1> QED BY ONLY Zenon, <1>3, <1>4, <1>5 DEF Full

LEMMA ApexColors ==
    ASSUME NEW d, NEW c, Drv(d, c), d.name = "apex100"
    PROVE  /\ Full(d, "colors", c)
           /\ \E v : Packets(d, "colors", c) = <<At("bright", 0, c.bright), At("mode", 0, v)>>
<1>1. d \in Registry BY DEF Drv
<1>2. "colors" \in Range(d.steps) BY ONLY SMT, <1>1, Kinds, d.name = "apex100"
<1> DEFINE v == IF c.fx[1] = 1 THEN Clamp(c.param[1], 1, 3) + 1 ELSE 1
           p == <<At("bright", 0, c.bright), At("mode", 0, v)>>
<1>3. Packets(d, "colors", c) = p
  <2>1. Packets(d, "colors", c) = apex100_apply("colors", c) BY ONLY Zenon, <1>2, d.name = "apex100", Routed
  <2>2. apex100_build_effect(c) = Reg("mode", v) BY Zenon DEF apex100_build_effect
  <2>3. c.bright \in 0..100 BY Zenon DEF Drv, Legal
  <2>4. Clamp(c.bright, 0, 100) = c.bright BY ONLY SMT, <2>3, BrightIs
  <2>5. Reg("mode", v) = At("mode", 0, v) BY DEF Reg
  <2>6. Reg("bright", c.bright) = At("bright", 0, c.bright) BY DEF Reg
  <2>7. apex100_apply("colors", c) = <<Reg("bright", Clamp(c.bright, 0, 100)), apex100_build_effect(c)>> BY ONLY Zenon, ApexApply
  <2> QED BY ONLY Zenon, <2>1, <2>2, <2>4, <2>5, <2>6, <2>7
<1>4. c.param[1] \in 0..255
  <2>1. Zones(d) = {1} BY ONLY SMT, <1>1, Kinds, d.name = "apex100"
  <2>2. c.param \in [Zones(d) -> Bytes] BY Zenon DEF Drv, Config, DevOK
  <2> QED BY ONLY <2>1, <2>2 DEF Bytes
<1>5. (v = 1) = (c.fx[1] # 1) BY ONLY SMT, <1>4 DEF v, Clamp
<1>6. c.fx[1] = 1 /\ c.param[1] \in 1..3 => v = c.param[1] + 1 BY ONLY SMT, <1>4 DEF v, Clamp
<1> DEFINE u == c.bright
<1> HIDE DEF v, u
<1>7. LET q == <<At("bright", 0, u), At("mode", 0, v)>> IN
      /\ Orderly(q) /\ Len(q) = 2
      /\ \A x : Reached(q, 2, x) =>
           /\ <<"bright", 0>> \in DOMAIN x /\ x[<<"bright", 0>>] = u
           /\ <<"mode", 0>> \in DOMAIN x /\ x[<<"mode", 0>>] = v
  BY Double
<1>8. ASSUME NEW x, <<"mode", 0>> \in DOMAIN x, x[<<"mode", 0>>] = v PROVE Shown(d, "colors", c, x)
  <2>1. (x[<<"mode", 0>>] = 1) = (c.fx[1] # 1) BY ONLY <1>5, <1>8
  <2>2. c.fx[1] = 1 /\ c.param[1] \in 1..3 => x[<<"mode", 0>>] = c.param[1] + 1 BY ONLY <1>6, <1>8
  <2>3. ShowsColors(d, c, x) BY ONLY Zenon, <2>1, <2>2, d.name = "apex100" DEF ShowsColors
  <2>4. Reads(d, "colors", c, x) BY ONLY <2>3, ReadsIs
  <2>5. Registers(d, "colors") = {<<"mode", 0>>} /\ Where(d, "colors") = "mode"
    BY ONLY Zenon, d.name = "apex100" DEF Registers, Where
  <2>6. <<"mode", 0>>[1] = "mode" OBVIOUS
  <2> QED BY ONLY <1>8, <2>4, <2>5, <2>6, ShownIs
<1>9. Full(d, "colors", c)
  <2>1. Orderly(p) /\ Len(p) = 2 BY ONLY <1>7 DEF p, u
  <2>2. \A x : Reached(p, 2, x) => <<"mode", 0>> \in DOMAIN x /\ x[<<"mode", 0>>] = v BY ONLY <1>7 DEF p, u
  <2> HIDE DEF p
  <2> QED BY ONLY Zenon, <1>3, <1>8, <2>1, <2>2 DEF Full
<1>10. \E w : Packets(d, "colors", c) = <<At("bright", 0, c.bright), At("mode", 0, w)>> BY ONLY Zenon, <1>3 DEF p
<1> QED BY ONLY <1>9, <1>10

LEMMA SumsAre ==
    ASSUME NEW n \in 1..7, NEW s, DOMAIN s = 1..n, NEW p \in [1..n -> Bytes],
           s[1] = p[1], \A i \in 2..n : p[i] = p[i - 1] + s[i]
    PROVE  \A i \in 1..n : Sums(s)[i] = p[i]
<1>1. Adds(s, p)
  <2>1. p = [i \in 1..n |-> IF i = 1 THEN s[1] ELSE p[i - 1] + s[i]] OBVIOUS
  <2> QED BY <2>1 DEF Adds
<1>2. Sums(s) = CHOOSE f : f = [i \in DOMAIN s |-> IF i = 1 THEN s[1] ELSE f[i - 1] + s[i]] BY Zenon DEF Sums
<1>3. Sums(s) = CHOOSE f : Adds(s, f) BY Zenon, <1>2 DEF Adds
<1>4. Adds(s, Sums(s)) BY Zenon, <1>1, <1>3
<1> DEFINE f == Sums(s)
<1> HIDE DEF f
<1>5. f = [i \in 1..n |-> IF i = 1 THEN s[1] ELSE f[i - 1] + s[i]] BY <1>4 DEF Adds, f
<1>6. f[1] = p[1] BY ONLY <1>5, n \in 1..7, s[1] = p[1]
<1>7. ASSUME NEW i \in 1..7, i + 1 <= n, f[i] = p[i] PROVE f[i + 1] = p[i + 1]
  <2>1. i + 1 \in 1..n /\ i + 1 # 1 /\ i + 1 \in 2..n /\ (i + 1) - 1 = i BY ONLY <1>7, n \in 1..7
  <2>2. f[i + 1] = f[i] + s[i + 1] BY ONLY <1>5, <2>1
  <2> QED BY ONLY <1>7, <2>1, <2>2, \A j \in 2..n : p[j] = p[j - 1] + s[j]
<1>8. ASSUME NEW i \in 1..n PROVE f[i] = p[i]
  <2>1. f[1] = p[1] BY ONLY <1>6
  <2>2. 2 <= n => f[2] = p[2] BY ONLY <1>7, <2>1, n \in 1..7
  <2>3. 3 <= n => f[3] = p[3] BY ONLY <1>7, <2>2, n \in 1..7
  <2>4. 4 <= n => f[4] = p[4] BY ONLY <1>7, <2>3, n \in 1..7
  <2>5. 5 <= n => f[5] = p[5] BY ONLY <1>7, <2>4, n \in 1..7
  <2>6. 6 <= n => f[6] = p[6] BY ONLY <1>7, <2>5, n \in 1..7
  <2>7. 7 <= n => f[7] = p[7] BY ONLY <1>7, <2>6, n \in 1..7
  <2>8. i \in {1, 2, 3, 4, 5, 6, 7} /\ i <= n BY ONLY n \in 1..7, i \in 1..n
  <2> QED BY ONLY <2>1, <2>2, <2>3, <2>4, <2>5, <2>6, <2>7, <2>8
<1> QED BY ONLY <1>8 DEF f

LEMMA Gradient ==
    ASSUME NEW n, NEW ms, NEW repeat, NEW stops, NEW p, Ramp(n, stops, p)
    PROVE  LET g == r600_pack_gradient(ms, repeat, stops) IN
           /\ g.ms = ms /\ g.repeat = repeat /\ g.initial = stops[1][2]
           /\ Stops(g) = [i \in 1..n |-> <<p[i], stops[i][2]>>]
<1>r. /\ n \in 1..7 /\ DOMAIN stops = 1..n
      /\ p \in [1..n -> 0..255] /\ p[1] = 0 /\ \A i \in 1..n : p[i] = (stops[i][1] * 255) \div 100
      /\ \A i \in 2..n : p[i - 1] < p[i]
  BY DEF Ramp
<1> DEFINE g == r600_pack_gradient(ms, repeat, stops)
           real == [i \in DOMAIN stops |-> (stops[i][1] * 255) \div 100]
           w == [i \in DOMAIN stops |-> <<stops[i][2], (real[i] - IF i = 1 THEN 0 ELSE real[i - 1]) % 256>>]
<1>1. g = [ms |-> ms, repeat |-> repeat, initial |-> stops[1][2], stops |-> w] BY Zenon DEF r600_pack_gradient
<1>2. \A i \in 1..n : real[i] = p[i] BY <1>r
<1>3. DOMAIN w = 1..n /\ \A i \in 1..n : w[i] = <<stops[i][2], (real[i] - IF i = 1 THEN 0 ELSE real[i - 1]) % 256>> BY <1>r
<1> HIDE DEF g, real, w
<1> DEFINE s == [i \in DOMAIN w |-> w[i][2]]
<1>4. g.ms = ms /\ g.repeat = repeat /\ g.initial = stops[1][2] /\ g.stops = w BY ONLY <1>1
<1>5. s[1] = p[1]
  <2>1. 1 \in 1..n /\ real[1] = p[1] /\ p[1] = 0 BY ONLY <1>2, <1>r
  <2>2. w[1] = <<stops[1][2], (real[1] - 0) % 256>> BY ONLY <1>3, <2>1
  <2>3. (real[1] - 0) % 256 = p[1] BY ONLY SMT, <2>1
  <2> QED BY ONLY <1>3, <2>1, <2>2, <2>3
<1>6. ASSUME NEW i \in 2..n PROVE p[i] = p[i - 1] + s[i]
  <2>1. i \in 1..n /\ i - 1 \in 1..n /\ i # 1 BY ONLY <1>r, i \in 2..n
  <2>2. w[i] = <<stops[i][2], (real[i] - real[i - 1]) % 256>> BY ONLY <1>3, <2>1
  <2>3. s[i] = (real[i] - real[i - 1]) % 256 BY ONLY <1>3, <2>1, <2>2
  <2>4. s[i] = (p[i] - p[i - 1]) % 256 BY ONLY <1>2, <2>1, <2>3
  <2>5. p[i] \in 0..255 /\ p[i - 1] \in 0..255 BY ONLY <2>1, <1>r
  <2>6. p[i - 1] < p[i] BY ONLY i \in 2..n, <1>r
  <2> DEFINE a == p[i]
             b == p[i - 1]
             t == s[i]
  <2>7. a \in 0..255 /\ b \in 0..255 /\ b < a /\ t = (a - b) % 256 BY ONLY <2>4, <2>5, <2>6
  <2> HIDE DEF a, b, t
  <2>8. (a - b) % 256 = a - b BY ONLY SMT, <2>7
  <2>9. a = b + t BY ONLY SMT, <2>7, <2>8
  <2> QED BY ONLY <2>9 DEF a, b, t
<1>7. DOMAIN s = 1..n BY ONLY <1>3
<1> HIDE DEF s
<1>a. n \in 1..7 /\ p \in [1..n -> Bytes] BY <1>r DEF Bytes
<1>8. \A i \in 1..n : Sums(s)[i] = p[i]
  <2>1. \A i \in 2..n : p[i] = p[i - 1] + s[i] BY ONLY <1>6
  <2> QED BY ONLY ZenonT(30), <1>a, <1>5, <1>7, <2>1, SumsAre
<1>9. Stops(g) = [i \in 1..n |-> <<Sums(s)[i], w[i][1]>>]
  <2>1. Stops(g) = [i \in DOMAIN g.stops |-> <<Sums([j \in DOMAIN g.stops |-> g.stops[j][2]])[i], g.stops[i][1]>>] BY ONLY Zenon DEF Stops
  <2>2. Stops(g) = [i \in DOMAIN w |-> <<Sums([j \in DOMAIN w |-> w[j][2]])[i], w[i][1]>>] BY ONLY Zenon, <1>4, <2>1
  <2> QED BY ONLY Zenon, <1>3, <2>2 DEF s
<1>10. \A i \in 1..n : <<Sums(s)[i], w[i][1]>> = <<p[i], stops[i][2]>>
  <2> TAKE i \in 1..n
  <2>1. w[i][1] = stops[i][2] BY ONLY <1>3, i \in 1..n
  <2> QED BY ONLY <1>8, <2>1, i \in 1..n
<1>11. Stops(g) = [i \in 1..n |-> <<p[i], stops[i][2]>>] BY ONLY <1>9, <1>10
<1> QED BY ONLY <1>4, <1>11 DEF g

LEMMA GradientShows ==
    ASSUME NEW n, NEW ms, NEW repeat, NEW stops, NEW p, Ramp(n, stops, p),
           n > 1 => p[n] = 255 /\ stops[n][2] = stops[1][2],
           NEW fx, NEW k, fx \notin 3..4 => stops[1][2] = k,
           ms = (CASE fx = 1 -> 3000 [] fx = 2 -> 1200 [] fx = 3 -> 5000 [] fx = 4 -> 3000 [] OTHER -> 1000),
           repeat = IF fx \in 1..4 THEN 0 ELSE 1
    PROVE  ShowsGradient(r600_pack_gradient(ms, repeat, stops), fx, k)
<1>r. /\ n \in 1..7 /\ p[1] = 0 /\ \A i \in 2..n : p[i - 1] < p[i]
  BY DEF Ramp
<1> DEFINE g == r600_pack_gradient(ms, repeat, stops)
           s == Stops(g)
           m == CASE fx = 1 -> 3000 [] fx = 2 -> 1200 [] fx = 3 -> 5000 [] fx = 4 -> 3000 [] OTHER -> 1000
<1>1. /\ g.ms = ms /\ g.repeat = repeat /\ g.initial = stops[1][2]
      /\ s = [i \in 1..n |-> <<p[i], stops[i][2]>>]
  BY ONLY Gradient, Ramp(n, stops, p)
<1>0. ms = m BY Zenon
<1> HIDE DEF g, s, m
<1>2. Len(s) = n /\ \A i \in 1..n : s[i][1] = p[i] /\ s[i][2] = stops[i][2] BY ONLY <1>1, <1>r
<1>3. 1 \in 1..n /\ n \in 1..n BY ONLY <1>r
<1>4. s[1][1] = 0 /\ s[1][2] = stops[1][2] BY ONLY <1>2, <1>3, <1>r
<1>5. \A i \in 2..Len(s) : s[i - 1][1] < s[i][1]
  <2>1. ASSUME NEW i \in 2..n PROVE s[i - 1][1] < s[i][1]
    <3>1. i \in 1..n /\ i - 1 \in 1..n BY ONLY <1>r, i \in 2..n
    <3>2. p[i - 1] < p[i] BY ONLY i \in 2..n, <1>r
    <3> QED BY ONLY <1>2, <3>1, <3>2
  <2> QED BY ONLY <1>2, <2>1
<1>6. Len(s) > 1 => s[Len(s)][1] = 255 /\ s[Len(s)][2] = s[1][2]
  BY ONLY <1>2, <1>3, <1>4, n > 1 => p[n] = 255 /\ stops[n][2] = stops[1][2]
<1>7. fx \notin 3..4 => s[1][2] = k BY ONLY <1>4, fx \notin 3..4 => stops[1][2] = k
<1>8. g.initial = s[1][2] BY ONLY <1>1, <1>4
<1>9. g.ms = m /\ g.repeat = IF fx \in 1..4 THEN 0 ELSE 1 BY ONLY <1>0, <1>1, repeat = IF fx \in 1..4 THEN 0 ELSE 1
<1>10. g.ms = m BY ONLY <1>9
<1>11. ShowsGradient(g, fx, k) BY ONLY Zenon, <1>4, <1>5, <1>6, <1>7, <1>8, <1>9 DEF ShowsGradient, s, m
<1> QED BY ONLY <1>11 DEF g

\* Every zone of the Rival 600 shows the effect it was given.
LEMMA ZoneGradient ==
    ASSUME NEW c, NEW z
    PROVE  \E g : r600_build_zone_color(c, z) = At("lamp", z, g) /\ ShowsGradient(g, c.fx[z], c.color[z])
<1> DEFINE fx == c.fx[z]
           k == c.color[z]
           breathe == <<<<0, k>>, <<50, 0>>, <<100, k>>>>
           three == <<<<0, 16711680>>, <<33, 65280>>, <<66, 255>>, <<100, 16711680>>>>
           four == <<<<0, 16711680>>, <<16, 16776960>>, <<33, 65280>>, <<50, 65535>>, <<66, 255>>,
                     <<83, 16711935>>, <<100, 16711680>>>>
           one == <<<<0, k>>>>
           T == CASE fx = 1 -> 3000 [] fx = 2 -> 1200 [] fx = 3 -> 5000 [] fx = 4 -> 3000 [] OTHER -> 1000
           g == CASE fx = 1 -> r600_pack_gradient(3000, 0, breathe)
                  [] fx = 2 -> r600_pack_gradient(1200, 0, breathe)
                  [] fx = 3 -> r600_pack_gradient(5000, 0, three)
                  [] fx = 4 -> r600_pack_gradient(3000, 0, four)
                  [] OTHER -> r600_pack_gradient(1000, 1, one)
<1>1. r600_build_zone_color(c, z) = At("lamp", z, g) BY SMT DEF r600_build_zone_color
<1>2. Ramp(3, breathe, <<0, 127, 255>>) BY ONLY SMT DEF Ramp, breathe
<1>3. Ramp(4, three, <<0, 84, 168, 255>>) BY ONLY SMT DEF Ramp, three
<1>4. Ramp(7, four, <<0, 40, 84, 127, 168, 211, 255>>) BY ONLY SMT DEF Ramp, four
<1>5. Ramp(1, one, <<0>>) BY ONLY SMT DEF Ramp, one
<1>6. /\ breathe[1][2] = k /\ breathe[3][2] = k /\ one[1][2] = k
      /\ three[4][2] = three[1][2] /\ four[7][2] = four[1][2]
  BY SMT
<1> HIDE DEF fx, k, breathe, three, four, one
<1>7. ASSUME fx = 1 PROVE ShowsGradient(g, fx, k)
  <2>1. g = r600_pack_gradient(3000, 0, breathe) BY SMT, <1>7
  <2>2. ShowsGradient(r600_pack_gradient(3000, 0, breathe), fx, k)
    <3>1. 3000 = T BY ONLY SMT, <1>7
    <3>2. 0 = IF fx \in 1..4 THEN 0 ELSE 1 BY ONLY SMT, <1>7
    <3>3. 3 > 1 => <<0, 127, 255>>[3] = 255 /\ breathe[3][2] = breathe[1][2] BY ONLY SMT, <1>6
    <3>4. fx \notin 3..4 => breathe[1][2] = k BY ONLY SMT, <1>6
    <3> QED BY ONLY SMT, <1>2, <3>1, <3>2, <3>3, <3>4, GradientShows
  <2> HIDE DEF g
  <2> QED BY ONLY <2>1, <2>2
<1>8. ASSUME fx = 2 PROVE ShowsGradient(g, fx, k)
  <2>1. g = r600_pack_gradient(1200, 0, breathe) BY SMT, <1>8
  <2>2. ShowsGradient(r600_pack_gradient(1200, 0, breathe), fx, k)
    <3>1. 1200 = T BY ONLY SMT, <1>8
    <3>2. 0 = IF fx \in 1..4 THEN 0 ELSE 1 BY ONLY SMT, <1>8
    <3>3. 3 > 1 => <<0, 127, 255>>[3] = 255 /\ breathe[3][2] = breathe[1][2] BY ONLY SMT, <1>6
    <3>4. fx \notin 3..4 => breathe[1][2] = k BY ONLY SMT, <1>6
    <3> QED BY ONLY SMT, <1>2, <3>1, <3>2, <3>3, <3>4, GradientShows
  <2> HIDE DEF g
  <2> QED BY ONLY <2>1, <2>2
<1>9. ASSUME fx = 3 PROVE ShowsGradient(g, fx, k)
  <2>1. g = r600_pack_gradient(5000, 0, three) BY SMT, <1>9
  <2>2. ShowsGradient(r600_pack_gradient(5000, 0, three), fx, k)
    <3>1. 5000 = T BY ONLY SMT, <1>9
    <3>2. 0 = IF fx \in 1..4 THEN 0 ELSE 1 BY ONLY SMT, <1>9
    <3>3. 4 > 1 => <<0, 84, 168, 255>>[4] = 255 /\ three[4][2] = three[1][2] BY ONLY SMT, <1>6
    <3>4. fx \notin 3..4 => three[1][2] = k BY ONLY SMT, <1>9
    <3> QED BY ONLY SMT, <1>3, <3>1, <3>2, <3>3, <3>4, GradientShows
  <2> HIDE DEF g
  <2> QED BY ONLY <2>1, <2>2
<1>10. ASSUME fx = 4 PROVE ShowsGradient(g, fx, k)
  <2>1. g = r600_pack_gradient(3000, 0, four) BY SMT, <1>10
  <2>2. ShowsGradient(r600_pack_gradient(3000, 0, four), fx, k)
    <3>1. 3000 = T BY ONLY SMT, <1>10
    <3>2. 0 = IF fx \in 1..4 THEN 0 ELSE 1 BY ONLY SMT, <1>10
    <3>3. 7 > 1 => <<0, 40, 84, 127, 168, 211, 255>>[7] = 255 /\ four[7][2] = four[1][2] BY ONLY SMT, <1>6
    <3>4. fx \notin 3..4 => four[1][2] = k BY ONLY SMT, <1>10
    <3> QED BY ONLY SMT, <1>4, <3>1, <3>2, <3>3, <3>4, GradientShows
  <2> HIDE DEF g
  <2> QED BY ONLY <2>1, <2>2
<1>11. ASSUME fx \notin {1, 2, 3, 4} PROVE ShowsGradient(g, fx, k)
  <2>1. g = r600_pack_gradient(1000, 1, one) BY SMT, <1>11
  <2>2. ShowsGradient(r600_pack_gradient(1000, 1, one), fx, k)
    <3>1. 1000 = T BY ONLY SMT, <1>11
    <3>2. 1 = IF fx \in 1..4 THEN 0 ELSE 1 BY ONLY SMT, <1>11
    <3>3. 1 > 1 => <<0>>[1] = 255 /\ one[1][2] = one[1][2] BY ONLY SMT
    <3>4. fx \notin 3..4 => one[1][2] = k BY ONLY SMT, <1>6
    <3> QED BY ONLY SMT, <1>5, <3>1, <3>2, <3>3, <3>4, GradientShows
  <2> HIDE DEF g
  <2> QED BY ONLY <2>1, <2>2
<1> HIDE DEF g
<1>12. ShowsGradient(g, fx, k) BY ONLY <1>7, <1>8, <1>9, <1>10, <1>11
<1> QED BY ONLY Zenon, <1>1, <1>12 DEF fx, k

LEMMA R600Colors ==
    ASSUME NEW d, NEW c, Drv(d, c), d.name = "rival600"
    PROVE  Full(d, "colors", c)
<1>1. d \in Registry BY DEF Drv
<1>2. "colors" \in Range(d.steps) BY ONLY SMT, <1>1, Kinds, d.name = "rival600"
<1> DEFINE p == [z \in 1..8 |-> r600_build_zone_color(c, z)]
<1>3. Packets(d, "colors", c) = p
  <2>1. Packets(d, "colors", c) = r600_apply("colors", c) BY ONLY Zenon, <1>2, d.name = "rival600", Routed
  <2> QED BY Zenon, <2>1, R600Apply
<1>4. DOMAIN p = 1..8 /\ Len(p) = 8 OBVIOUS
<1>5. ASSUME NEW z \in 1..8
      PROVE  DOMAIN p[z] = {<<"lamp", z>>} /\ ShowsGradient(p[z][<<"lamp", z>>], c.fx[z], c.color[z])
  <2>1. p[z] = r600_build_zone_color(c, z) OBVIOUS
  <2> HIDE DEF p
  <2>2. PICK g : r600_build_zone_color(c, z) = At("lamp", z, g) /\ ShowsGradient(g, c.fx[z], c.color[z]) BY ONLY ZoneGradient
  <2>3. DOMAIN At("lamp", z, g) = {<<"lamp", z>>} /\ At("lamp", z, g)[<<"lamp", z>>] = g BY ONLY RegIs
  <2> QED BY ONLY Zenon, <2>1, <2>2, <2>3
<1> HIDE DEF p
<1>6. Orderly(p)
  <2>1. \A z \in DOMAIN p : Engine \notin DOMAIN p[z] /\ Mask \notin DOMAIN p[z] BY ONLY <1>4, <1>5 DEF Engine, Mask
  <2>2. DOMAIN p = 1..Len(p) /\ Len(p) \in Nat BY ONLY <1>4
  <2> QED BY ONLY <2>1, <2>2, PlainOrderly
<1>7. ASSUME NEW x, Reached(p, 8, x), NEW z \in 1..8
      PROVE  <<"lamp", z>> \in DOMAIN x /\ x[<<"lamp", z>>] = p[z][<<"lamp", z>>]
  <2>1. ASSUME NEW j \in (z + 1)..8 PROVE <<"lamp", z>> \notin DOMAIN p[j]
    <3>1. j \in 1..8 /\ j # z OBVIOUS
    <3> QED BY ONLY <1>5, <3>1
  <2>2. <<"lamp", z>> # Mask BY DEF Mask
  <2>3. <<"lamp", z>> \in DOMAIN p[z] BY ONLY <1>5
  <2>4. 8 \in Nat OBVIOUS
  <2> QED BY ONLY <1>7, <2>1, <2>2, <2>3, <2>4, ReachedAt
<1>8. ASSUME NEW x, Reached(p, 8, x) PROVE Shown(d, "colors", c, x)
  <2>1. \A z \in 1..8 : ShowsGradient(x[<<"lamp", z>>], c.fx[z], c.color[z])
    <3> TAKE z \in 1..8
    <3>1. x[<<"lamp", z>>] = p[z][<<"lamp", z>>] BY ONLY <1>7, <1>8
    <3>2. ShowsGradient(p[z][<<"lamp", z>>], c.fx[z], c.color[z]) BY ONLY <1>5
    <3> QED BY ONLY Zenon, <3>1, <3>2
  <2>2. ShowsColors(d, c, x) BY ONLY Zenon, <2>1, d.name = "rival600" DEF ShowsColors
  <2>3. Reads(d, "colors", c, x) BY ONLY <2>2, ReadsIs
  <2>4. Registers(d, "colors") = {"lamp"} \X (1..8) /\ Where(d, "colors") = "lamp"
    BY ONLY Zenon, d.name = "rival600" DEF Registers, Where
  <2>5. \A z \in 1..8 : <<"lamp", z>> \in DOMAIN x BY ONLY <1>7, <1>8
  <2>6. {"lamp"} \X (1..8) \subseteq DOMAIN x
    <3>1. ASSUME NEW r \in {"lamp"} \X (1..8) PROVE r \in DOMAIN x
      <4>1. PICK z \in 1..8 : r = <<"lamp", z>> OBVIOUS
      <4> QED BY ONLY <2>5, <4>1
    <3> QED BY ONLY <3>1
  <2>7. \E r \in DOMAIN x : r[1] = "lamp"
    <3>1. <<"lamp", 1>> \in DOMAIN x /\ <<"lamp", 1>>[1] = "lamp" BY ONLY <2>5
    <3> QED BY ONLY <3>1
  <2> QED BY ONLY <2>3, <2>4, <2>6, <2>7, ShownIs
<1> QED BY ONLY Zenon, <1>3, <1>4, <1>6, <1>8 DEF Full

-----------------------------------------------------------------------------
(* The rainbow engine: startup, mask, static lamps, click colour.              *)

LEMMA Listed ==
    ASSUME NEW T, IsFiniteSet(T)
    PROVE  /\ Cardinality(T) \in Nat /\ SetToSeq(T) \in [1..Cardinality(T) -> T]
           /\ \A i, j \in 1..Cardinality(T) : SetToSeq(T)[i] = SetToSeq(T)[j] => i = j
           /\ \A z \in T : \E i \in 1..Cardinality(T) : SetToSeq(T)[i] = z
<1> DEFINE n == Cardinality(T)
           f == SetToSeq(T)
<1>1. n \in Nat /\ ExistsBijection(1..n, T) BY FS_CardinalityType
<1>2. PICK g : g \in Bijection(1..n, T) BY <1>1 DEF ExistsBijection
<1>3. g \in [1..n -> T] /\ IsInjective(g)
  BY <1>2 DEF Bijection, Injection, IsInjective
<1>4. f \in [1..n -> T] /\ IsInjective(f) BY <1>3 DEF SetToSeq
<1> HIDE DEF f
<1>5. \A i, j \in 1..n : f[i] = f[j] => i = j BY ONLY <1>4 DEF IsInjective
<1>6. f \in Injection(1..n, T) BY ONLY <1>4, <1>5 DEF Injection, IsInjective
<1>7. f \in Surjection(1..n, T)
  <2>1. IsFiniteSet(1..n) /\ Cardinality(1..n) = n
    <3>1. IsFiniteSet(1..n) /\ Cardinality(1..n) = IF 1 > n THEN 0 ELSE n - 1 + 1 BY <1>1, FS_Interval
    <3> QED BY ONLY <1>1, <3>1
  <2> QED BY <1>6, <2>1, FS_Injection
<1>8. \A z \in T : \E i \in 1..n : f[i] = z BY <1>7 DEF Surjection
<1> QED BY ONLY <1>1, <1>4, <1>5, <1>8 DEF f

LEMMA EnginedOrderly ==
    ASSUME NEW c, NEW p, NEW n, Engined(c, p, n)
    PROVE  Orderly(p)
<1> DEFINE h == Lead(c)
<1>1. n \in Nat /\ DOMAIN p = 1..n /\ Len(p) = n /\ n > h BY Zenon DEF Engined
<1>2. h \in {1, 2} /\ (h = 2 <=> Cycling(c) # {}) BY DEF Lead
<1>3. DOMAIN p[1] = {Engine, <<"overlay", 0>>} /\ p[1][Engine] = (Cycling(c) # {}) BY Zenon DEF Engined
<1>4. Cycling(c) # {} => DOMAIN p[2] = {Mask} /\ p[2][Mask] = Cycling(c) BY Zenon DEF Engined
<1>5. \A k \in (h + 1)..(n - 1) : \A r \in DOMAIN p[k] : \E z \in Calm(c) : r = Lamp(z)
  <2>1. \A k \in (h + 1)..(n - 1) : \A r \in DOMAIN p[k] : \E z \in Calm(c) : r = Lamp(z) /\ p[k][r] = c.color[z]
    BY Zenon DEF Engined
  <2> QED BY ONLY Zenon, <2>1
<1>6. DOMAIN p[n] = {<<"click", 0>>} BY Zenon DEF Engined
<1> HIDE DEF h
<1>7. \A k \in (h + 1)..n : \A r \in DOMAIN p[k] : r = <<"click", 0>> \/ \E z \in Calm(c) : r = Lamp(z)
  <2> TAKE k \in (h + 1)..n
  <2>1. k \in (h + 1)..(n - 1) \/ k = n BY ONLY <1>1, <1>2, k \in (h + 1)..n
  <2> QED BY ONLY <1>5, <1>6, <2>1
<1>8. \A k \in (h + 1)..n : Engine \notin DOMAIN p[k] /\ Mask \notin DOMAIN p[k]
  <2>1. Engine # <<"click", 0>> /\ Mask # <<"click", 0>> /\ \A z : Engine # Lamp(z) /\ Mask # Lamp(z)
    BY DEF Engine, Mask, Lamp
  <2> QED BY ONLY <1>7, <2>1
<1>9. \A z \in Cycling(c) : \A k \in (h + 1)..n : Lamp(z) \notin DOMAIN p[k]
  <2>1. \A z \in Cycling(c) : z \notin Calm(c) BY DEF Calm
  <2>2. \A z, y : Lamp(z) = Lamp(y) => z = y BY DEF Lamp
  <2>3. \A z : Lamp(z) # <<"click", 0>> BY DEF Lamp
  <2> QED BY ONLY <1>7, <2>1, <2>2, <2>3
<1>10. ASSUME NEW i \in DOMAIN p, Engine \in DOMAIN p[i]
       PROVE  i = 1 /\ \A r \in DOMAIN p[i] : r[1] \in {"engine", "overlay"}
  <2>1. i \notin (h + 1)..n BY ONLY <1>8, <1>10
  <2>2. i # 2 \/ h = 1
    <3>1. Engine # Mask BY DEF Engine, Mask
    <3>2. h = 2 => Engine \notin DOMAIN p[2] BY ONLY <1>2, <1>4, <3>1
    <3> QED BY ONLY <1>2, <1>10, <3>2
  <2>3. i = 1 BY ONLY <1>1, <1>2, <2>1, <2>2, i \in DOMAIN p
  <2>4. Engine[1] = "engine" /\ <<"overlay", 0>>[1] = "overlay" BY DEF Engine
  <2> QED BY ONLY <1>3, <2>3, <2>4
<1>11. ASSUME NEW i \in DOMAIN p, Mask \in DOMAIN p[i]
       PROVE  /\ i = 2 /\ DOMAIN p[2] = {Mask} /\ Engine \in DOMAIN p[1] /\ p[1][Engine] = TRUE
              /\ \A j \in 3..Len(p) : \A z \in p[2][Mask] : Lamp(z) \notin DOMAIN p[j]
  <2>1. i \notin (h + 1)..n BY ONLY <1>8, <1>11
  <2>2. i # 1
    <3>1. Mask # Engine /\ Mask # <<"overlay", 0>> BY DEF Engine, Mask
    <3> QED BY ONLY <1>3, <1>11, <3>1
  <2>3. i = 2 /\ h = 2 BY ONLY <1>1, <1>2, <2>1, <2>2, i \in DOMAIN p
  <2>4. Cycling(c) # {} BY ONLY <1>2, <2>3
  <2>5. p[1][Engine] = TRUE BY ONLY Zenon, <1>3, <2>4
  <2>6. \A j \in 3..Len(p) : \A z \in p[2][Mask] : Lamp(z) \notin DOMAIN p[j]
    <3>1. h + 1 = 3 BY ONLY <2>3
    <3> QED BY ONLY Zenon, <1>1, <1>4, <1>9, <2>4, <3>1
  <2> QED BY ONLY <1>3, <1>4, <2>3, <2>4, <2>5, <2>6
<1> QED BY ONLY <1>1, <1>10, <1>11 DEF Orderly

LEMMA EnginedLit ==
    ASSUME NEW c, NEW p, NEW n, Engined(c, p, n), NEW x, Reached(p, n, x)
    PROVE  Lit(c, x)
<1> DEFINE h == Lead(c)
<1>1. n \in Nat /\ n > h BY Zenon DEF Engined
<1>2. h \in {1, 2} /\ (h = 2 <=> Cycling(c) # {}) BY DEF Lead
<1>3. DOMAIN p[1] = {Engine, <<"overlay", 0>>} /\ p[1][<<"overlay", 0>>] = c.reacts BY Zenon DEF Engined
<1>4. Cycling(c) # {} => DOMAIN p[2] = {Mask} /\ p[2][Mask] = Cycling(c) BY Zenon DEF Engined
<1>5. \A k \in (h + 1)..(n - 1) : \A r \in DOMAIN p[k] : \E z \in Calm(c) : r = Lamp(z) /\ p[k][r] = c.color[z]
  BY Zenon DEF Engined
<1>6. DOMAIN p[n] = {<<"click", 0>>} /\ p[n][<<"click", 0>>] = IF c.reacts THEN c.flash ELSE 0 BY Zenon DEF Engined
<1>7. \A z \in Calm(c) : \E k \in (h + 1)..(n - 1) :
          Lamp(z) \in DOMAIN p[k] /\ \A j \in (k + 1)..(n - 1) : Lamp(z) \notin DOMAIN p[j]
  BY Zenon DEF Engined
<1> HIDE DEF h
<1>8. \A z : Lamp(z) # Mask /\ Lamp(z) # <<"click", 0>> /\ Lamp(z) # <<"overlay", 0>> /\ Lamp(z) # Engine
  BY DEF Lamp, Mask, Engine
<1>9. ASSUME NEW z \in Calm(c) PROVE Lamp(z) \in DOMAIN x /\ x[Lamp(z)] = c.color[z]
  <2>1. PICK k \in (h + 1)..(n - 1) : Lamp(z) \in DOMAIN p[k] /\ \A j \in (k + 1)..(n - 1) : Lamp(z) \notin DOMAIN p[j]
    BY ONLY <1>7, z \in Calm(c)
  <2>2. \A j \in (k + 1)..n : Lamp(z) \notin DOMAIN p[j]
    <3> TAKE j \in (k + 1)..n
    <3>1. j \in (k + 1)..(n - 1) \/ j = n BY ONLY <1>1, <1>2, k \in (h + 1)..(n - 1), j \in (k + 1)..n
    <3> QED BY ONLY <1>6, <1>8, <2>1, <3>1
  <2>3. k \in 1..n BY ONLY <1>1, <1>2, k \in (h + 1)..(n - 1)
  <2>4. Lamp(z) \in DOMAIN x /\ x[Lamp(z)] = p[k][Lamp(z)]
    <3>1. Lamp(z) \in DOMAIN p[k] /\ Lamp(z) # Mask BY ONLY <1>8, <2>1
    <3>2. n \in Nat BY ONLY <1>1
    <3> QED BY ONLY <2>2, <2>3, <3>1, <3>2, Reached(p, n, x), ReachedAt
  <2>5. PICK y \in Calm(c) : Lamp(z) = Lamp(y) /\ p[k][Lamp(z)] = c.color[y] BY ONLY <1>5, <2>1
  <2>6. y = z BY <2>5 DEF Lamp
  <2> QED BY ONLY <2>4, <2>5, <2>6
<1>10. ASSUME NEW z \in Cycling(c) PROVE Lamp(z) \in DOMAIN x /\ x[Lamp(z)] = Rainbow
  <2>1. Mask \in DOMAIN p[2] /\ z \in p[2][Mask] BY ONLY <1>4, z \in Cycling(c)
  <2>2. 2 \in 1..n BY ONLY <1>1, <1>2, z \in Cycling(c)
  <2>3. \A i \in 1..n : Mask \in DOMAIN p[i] => \A y \in p[i][Mask] : Lamp(y) \in DOMAIN x /\ x[Lamp(y)] = Rainbow
    BY ONLY Zenon, Reached(p, n, x) DEF Reached
  <2> QED BY ONLY Zenon, <2>1, <2>2, <2>3
<1>11. <<"overlay", 0>> \in DOMAIN x /\ x[<<"overlay", 0>>] = c.reacts
  <2> DEFINE r == <<"overlay", 0>>
  <2>1. r # Mask /\ r # Engine /\ r # <<"click", 0>> BY DEF Mask, Engine
  <2>2. \A j \in (1 + 1)..n : r \notin DOMAIN p[j]
    <3> TAKE j \in (1 + 1)..n
    <3> HIDE DEF r
    <3>1. (j = 2 /\ h = 2) \/ j \in (h + 1)..(n - 1) \/ j = n BY ONLY <1>1, <1>2, j \in (1 + 1)..n
    <3>2. (j = 2 /\ h = 2) => r \notin DOMAIN p[j] BY ONLY <1>2, <1>4, <2>1
    <3>3. \A z : r # Lamp(z) BY ONLY <1>8 DEF r
    <3>4. j \in (h + 1)..(n - 1) => r \notin DOMAIN p[j] BY ONLY <1>5, <3>3
    <3>5. j = n => r \notin DOMAIN p[j] BY ONLY <1>6, <2>1
    <3> QED BY ONLY <3>1, <3>2, <3>4, <3>5
  <2>3. 1 \in 1..n /\ n \in Nat BY ONLY <1>1, <1>2
  <2>4. r \in DOMAIN p[1] /\ p[1][r] = c.reacts BY ONLY <1>3
  <2> HIDE DEF r
  <2>5. r \in DOMAIN x /\ x[r] = p[1][r]
    <3>1. r # Mask /\ r \in DOMAIN p[1] BY ONLY <2>1, <2>4
    <3> QED BY ONLY <2>2, <2>3, <3>1, Reached(p, n, x), ReachedAt
  <2> QED BY ONLY <2>4, <2>5 DEF r
<1>12. <<"click", 0>> \in DOMAIN x /\ x[<<"click", 0>>] = IF c.reacts THEN c.flash ELSE 0
  <2> DEFINE r == <<"click", 0>>
  <2>1. r # Mask BY DEF Mask
  <2>2. \A j \in (n + 1)..n : r \notin DOMAIN p[j] BY ONLY <1>1
  <2>3. n \in 1..n /\ n \in Nat BY ONLY <1>1, <1>2
  <2>4. r \in DOMAIN p[n] BY ONLY <1>6
  <2> HIDE DEF r
  <2>5. r \in DOMAIN x /\ x[r] = p[n][r] BY ONLY <2>1, <2>2, <2>3, <2>4, Reached(p, n, x), ReachedAt
  <2> QED BY ONLY <1>6, <2>5 DEF r
<1>13. ASSUME NEW z \in DOMAIN c.fx
       PROVE  Lamp(z) \in DOMAIN x /\ x[Lamp(z)] = IF c.fx[z] # 0 THEN Rainbow ELSE c.color[z]
  <2>1. CASE c.fx[z] # 0
    <3>1. z \in Cycling(c) BY ONLY <2>1, z \in DOMAIN c.fx DEF Cycling
    <3> QED BY ONLY <1>10, <2>1, <3>1
  <2>2. CASE c.fx[z] = 0
    <3>1. z \in Calm(c) BY ONLY <2>2, z \in DOMAIN c.fx DEF Cycling, Calm
    <3> QED BY ONLY <1>9, <2>2, <3>1
  <2> QED BY ONLY <2>1, <2>2
<1> QED BY ONLY <1>11, <1>12, <1>13 DEF Lit

\* An engine's colours are shown once its packets have arrived.
LEMMA EngineFull ==
    ASSUME NEW d, d.name \in {"aerox3", "rival3_gen2"}, Zones(d) = 1..3, NEW c, DOMAIN c.fx = 1..3,
           NEW n, Engined(c, Packets(d, "colors", c), n)
    PROVE  Full(d, "colors", c)
<1> DEFINE p == Packets(d, "colors", c)
<1>1. Orderly(p) /\ Len(p) = n
  <2>1. Len(p) = n BY Zenon DEF Engined
  <2> HIDE DEF p
  <2> QED BY <2>1, EnginedOrderly DEF p
<1>2. ASSUME NEW x, Reached(p, n, x) PROVE Shown(d, "colors", c, x)
  <2>1. Lit(c, x) BY <1>2, EnginedLit
  <2>2. \A z \in 1..3 : <<"lamp", z>> \in DOMAIN x /\ x[<<"lamp", z>>] = IF c.fx[z] # 0 THEN Rainbow ELSE c.color[z]
    BY <2>1 DEF Lit, Lamp
  <2>3. <<"overlay", 0>> \in DOMAIN x /\ x[<<"overlay", 0>>] = c.reacts BY Zenon, <2>1 DEF Lit
  <2>4. <<"click", 0>> \in DOMAIN x /\ x[<<"click", 0>>] = IF c.reacts THEN c.flash ELSE 0 BY Zenon, <2>1 DEF Lit
  <2>5. ShowsColors(d, c, x)
    <3>1. \A z \in Zones(d) : x[<<"lamp", z>>] = IF c.fx[z] # 0 THEN Rainbow ELSE c.color[z] BY ONLY <2>2, Zones(d) = 1..3
    <3>2. d.name \notin {"rival3", "rival600", "prime", "apex100"} OBVIOUS
    <3> QED BY ONLY Zenon, <2>3, <2>4, <3>1, <3>2 DEF ShowsColors
  <2>6. Reads(d, "colors", c, x) BY ONLY <2>5, ReadsIs
  <2>7. Registers(d, "colors") = ({"lamp"} \X (1..3)) \cup {<<"overlay", 0>>, <<"click", 0>>} /\ Where(d, "colors") = "lamp"
    <3>1. d.name \notin {"rival3", "rival600", "prime", "apex100"} OBVIOUS
    <3> QED BY ONLY Zenon, <3>1 DEF Registers, Where
  <2>8. ({"lamp"} \X (1..3)) \cup {<<"overlay", 0>>, <<"click", 0>>} \subseteq DOMAIN x
    <3>1. ASSUME NEW r \in {"lamp"} \X (1..3) PROVE r \in DOMAIN x
      <4>1. PICK z \in 1..3 : r = <<"lamp", z>> OBVIOUS
      <4> QED BY ONLY <2>2, <4>1
    <3> QED BY ONLY <2>3, <2>4, <3>1
  <2>9. \E r \in DOMAIN x : r[1] = "lamp"
    <3>1. <<"lamp", 1>> \in DOMAIN x /\ <<"lamp", 1>>[1] = "lamp" BY ONLY <2>2
    <3> QED BY ONLY <3>1
  <2> QED BY ONLY <2>6, <2>7, <2>8, <2>9, ShownIs
<1> QED BY ONLY Zenon, <1>1, <1>2 DEF Full

LEMMA Wrapped ==
    ASSUME NEW S, NEW a \in Seq(S), NEW q \in Seq(S), NEW e \in S
    PROVE  LET p == a \o q \o <<e>>
               h == Len(a)
               n == Len(a) + Len(q) + 1
           IN /\ h \in Nat /\ n \in Nat /\ DOMAIN p = 1..n /\ Len(p) = n
              /\ \A k \in 1..h : p[k] = a[k]
              /\ \A k \in (h + 1)..(n - 1) : p[k] = q[k - h]
              /\ p[n] = e
<1> DEFINE b == a \o q
           t == <<e>>
           p == b \o t
           h == Len(a)
           n == Len(a) + Len(q) + 1
<1>1. t \in Seq(S) /\ Len(t) = 1 /\ t[1] = e OBVIOUS
<1> HIDE DEF b, t
<1>2. b \in Seq(S) /\ Len(b) = Len(a) + Len(q) BY CatIs DEF b
<1>3. \A i \in 1..Len(a) : b[i] = a[i] BY CatIs DEF b
<1>4. \A i \in 1..Len(q) : b[Len(a) + i] = q[i] BY CatIs DEF b
<1>5. p \in Seq(S) /\ Len(p) = Len(b) + Len(t)
  <2>1. b \in Seq(S) /\ t \in Seq(S) BY <1>1, <1>2
  <2> QED BY ONLY <2>1, CatIs
<1>6. \A i \in 1..Len(b) : p[i] = b[i]
  <2>1. b \in Seq(S) /\ t \in Seq(S) BY <1>1, <1>2
  <2> QED BY ONLY <2>1, CatIs
<1>7. \A i \in 1..Len(t) : p[Len(b) + i] = t[i]
  <2>1. b \in Seq(S) /\ t \in Seq(S) BY <1>1, <1>2
  <2> QED BY ONLY <2>1, CatIs
<1>8. Len(a) \in Nat /\ Len(q) \in Nat OBVIOUS
<1> HIDE DEF p
<1>9. DOMAIN p = 1..Len(p) BY ONLY <1>5
<1>10. Len(p) = n /\ DOMAIN p = 1..n BY ONLY <1>1, <1>2, <1>5, <1>8, <1>9
<1>11. \A k \in 1..h : p[k] = a[k]
  <2> TAKE k \in 1..h
  <2>1. k \in 1..Len(b) BY <1>2, <1>8
  <2> QED BY <1>3, <1>6, <2>1
<1>12. \A k \in (h + 1)..(n - 1) : p[k] = q[k - h]
  <2> TAKE k \in (h + 1)..(n - 1)
  <2>1. k \in 1..Len(b) /\ k - h \in 1..Len(q) /\ Len(a) + (k - h) = k BY ONLY <1>2, <1>8, k \in (h + 1)..(n - 1)
  <2>2. p[k] = b[k] BY ONLY <1>6, <2>1
  <2>3. b[Len(a) + (k - h)] = q[k - h] BY ONLY <1>4, <2>1
  <2> QED BY ONLY <2>1, <2>2, <2>3
<1>13. p[n] = e
  <2>1. 1 \in 1..Len(t) /\ Len(b) + 1 = n BY ONLY <1>1, <1>2, <1>8
  <2> QED BY ONLY <1>1, <1>7, <2>1
<1>14. h \in Nat /\ n \in Nat BY ONLY <1>8
<1>15. p = a \o q \o <<e>> BY DEF p, b, t
<1> QED BY ONLY Zenon, <1>10, <1>11, <1>12, <1>13, <1>14, <1>15

LEMMA TwoIs ==
    ASSUME NEW u, NEW v
    PROVE  <<u>> \o <<v>> = <<u, v>>
<1> DEFINE S == {u, v}
           a == <<u>>
           b == <<v>>
<1>1. a \in Seq(S) /\ b \in Seq(S) /\ Len(a) = 1 /\ Len(b) = 1 /\ a[1] = u /\ b[1] = v /\ <<u, v>> \in Seq(S) OBVIOUS
<1> HIDE DEF S, a, b
<1>2. a \o b \in Seq(S) /\ Len(a \o b) = Len(a) + Len(b) BY ONLY Zenon, <1>1, CatIs
<1>3. \A i \in 1..Len(a) : (a \o b)[i] = a[i] BY ONLY Zenon, <1>1, CatIs
<1>4. \A i \in 1..Len(b) : (a \o b)[Len(a) + i] = b[i]
  <2>1. a \in Seq(S) /\ b \in Seq(S) BY ONLY <1>1
  <2> QED BY ONLY <2>1, CatIs
<1>5. Len(a \o b) = 2 /\ (a \o b)[1] = u /\ (a \o b)[2] = v
  <2>1. 1 \in 1..Len(a) /\ 1 \in 1..Len(b) /\ Len(a) + 1 = 2 BY ONLY <1>1
  <2> QED BY ONLY <1>1, <1>2, <1>3, <1>4, <2>1
<1>6. a \o b = <<u, v>>
  <2> DEFINE w == a \o b
             t == <<u, v>>
  <2>1. w \in Seq(S) /\ t \in Seq(S) /\ Len(w) = 2 /\ Len(t) = 2 /\ t[1] = u /\ t[2] = v BY ONLY <1>1, <1>2, <1>5
  <2>2. w[1] = t[1] /\ w[2] = t[2] BY ONLY <1>5, <2>1
  <2> HIDE DEF w, t
  <2>3. \A i \in 1..Len(w) : w[i] = t[i] BY ONLY <2>1, <2>2
  <2>4. w = t BY ONLY <2>1, <2>3, SeqEqual
  <2> QED BY ONLY <2>4 DEF w, t
<1> QED BY ONLY <1>6 DEF a, b

LEMMA EnginedIs ==
    ASSUME NEW c, NEW S, NEW q \in Seq(S),
           \A k \in 1..Len(q) : \A r \in DOMAIN q[k] : \E z \in Calm(c) : r = Lamp(z) /\ q[k][r] = c.color[z],
           \A z \in Calm(c) : \E k \in 1..Len(q) :
               Lamp(z) \in DOMAIN q[k] /\ \A j \in (k + 1)..Len(q) : Lamp(z) \notin DOMAIN q[j],
           NEW p, p = <<a3wl_build_startup(c)>> \o (IF Cycling(c) = {} THEN <<>> ELSE <<a3wl_build_rainbow(c)>>)
                        \o q \o <<a3wl_build_reactive(c)>>
    PROVE  Engined(c, p, Lead(c) + Len(q) + 1)
<1> DEFINE s == a3wl_build_startup(c)
           m == a3wl_build_rainbow(c)
           e == a3wl_build_reactive(c)
           a == IF Cycling(c) = {} THEN <<s>> ELSE <<s, m>>
           T == S \cup {s, m, e}
           h == Lead(c)
           n == h + Len(q) + 1
<1>1. <<s>> \o (IF Cycling(c) = {} THEN <<>> ELSE <<m>>) = a
  <2>1. <<s>> \o <<>> = <<s>> OBVIOUS
  <2>2. <<s>> \o <<m>> = <<s, m>> BY ONLY TwoIs
  <2> QED BY ONLY Zenon, <2>1, <2>2 DEF a
<1>2. p = a \o q \o <<e>> BY Zenon, <1>1
<1>3. DOMAIN s = {Engine, <<"overlay", 0>>} /\ s[Engine] = (Cycling(c) # {}) /\ s[<<"overlay", 0>>] = c.reacts
  <2> DEFINE u == Reg("engine", Cycling(c) # {})
             v == Reg("overlay", c.reacts)
  <2>1. s = Over(u, v) BY DEF a3wl_build_startup
  <2>2. DOMAIN u = {Engine} /\ u[Engine] = (Cycling(c) # {}) BY DEF Reg, At, Engine
  <2>3. DOMAIN v = {<<"overlay", 0>>} /\ v[<<"overlay", 0>>] = c.reacts BY DEF Reg, At
  <2> HIDE DEF u, v
  <2>4. Engine # <<"overlay", 0>> BY DEF Engine
  <2>5. DOMAIN Over(u, v) = DOMAIN u \cup DOMAIN v BY ONLY OverIs
  <2>6. \A r \in DOMAIN u : Over(u, v)[r] = u[r] BY ONLY OverIs
  <2>7. \A r \in DOMAIN v \ DOMAIN u : Over(u, v)[r] = v[r] BY ONLY OverIs
  <2>8. s[Engine] = u[Engine] BY ONLY <2>1, <2>2, <2>6
  <2>9. s[<<"overlay", 0>>] = v[<<"overlay", 0>>] BY ONLY <2>1, <2>2, <2>3, <2>4, <2>7
  <2>10. DOMAIN s = {Engine, <<"overlay", 0>>} BY ONLY <2>1, <2>2, <2>3, <2>5
  <2> QED BY ONLY Zenon, <2>2, <2>3, <2>8, <2>9, <2>10
<1>4. DOMAIN m = {Mask} /\ m[Mask] = Cycling(c) BY DEF a3wl_build_rainbow, Reg, At, Mask
<1>5. DOMAIN e = {<<"click", 0>>} /\ e[<<"click", 0>>] = IF c.reacts THEN c.flash ELSE 0
  BY DEF a3wl_build_reactive, Reg, At
<1>6. a \in Seq(T) /\ q \in Seq(T) /\ e \in T
  <2>1. <<s>> \in Seq(T) /\ <<s, m>> \in Seq(T) OBVIOUS
  <2>2. a \in Seq(T) BY ONLY Zenon, <2>1 DEF a
  <2>3. q \in Seq(T) OBVIOUS
  <2> QED BY ONLY <2>2, <2>3 DEF T
<1>7. Len(a) = h /\ h \in {1, 2} /\ (h = 2 <=> Cycling(c) # {}) /\ a[1] = s /\ (h = 2 => a[2] = m)
  <2>1. CASE Cycling(c) = {} BY <2>1 DEF Lead
  <2>2. CASE Cycling(c) # {} BY <2>2 DEF Lead
  <2> QED BY ONLY <2>1, <2>2
<1> HIDE DEF s, m, e, a, T, h
<1>8. /\ n \in Nat /\ DOMAIN p = 1..n /\ Len(p) = n
      /\ \A k \in 1..h : p[k] = a[k]
      /\ \A k \in (h + 1)..(n - 1) : p[k] = q[k - h]
      /\ p[n] = e
  <2> DEFINE w == a \o q \o <<e>>
             l == Len(a) + Len(q) + 1
  <2>1. /\ l \in Nat /\ DOMAIN w = 1..l /\ Len(w) = l
        /\ \A k \in 1..Len(a) : w[k] = a[k]
        /\ \A k \in (Len(a) + 1)..(l - 1) : w[k] = q[k - Len(a)]
        /\ w[l] = e
    BY ONLY <1>6, Wrapped
  <2>2. w = p /\ l = n BY ONLY Zenon, <1>2, <1>7 DEF n
  <2> HIDE DEF n, w, l
  <2> QED BY ONLY Zenon, <1>7, <2>1, <2>2
<1>9. Len(q) \in Nat OBVIOUS
<1> HIDE DEF n
<1>10. n > h /\ n - 1 = h + Len(q) BY ONLY <1>7, <1>9 DEF n
<1>11. p[1] = s /\ (h = 2 => p[2] = m) BY ONLY <1>7, <1>8
<1>12. \A k \in (h + 1)..(n - 1) : \A r \in DOMAIN p[k] : \E z \in Calm(c) : r = Lamp(z) /\ p[k][r] = c.color[z]
  <2> TAKE k \in (h + 1)..(n - 1)
  <2>1. k - h \in 1..Len(q) BY ONLY <1>7, <1>9, <1>10, k \in (h + 1)..(n - 1)
  <2>2. p[k] = q[k - h] BY <1>8
  <2>3. \A r \in DOMAIN q[k - h] : \E z \in Calm(c) : r = Lamp(z) /\ q[k - h][r] = c.color[z] BY ONLY <2>1,
          \A i \in 1..Len(q) : \A r \in DOMAIN q[i] : \E z \in Calm(c) : r = Lamp(z) /\ q[i][r] = c.color[z]
  <2> QED BY ONLY Zenon, <2>2, <2>3
<1>13. ASSUME NEW z \in Calm(c)
       PROVE  \E k \in (h + 1)..(n - 1) : Lamp(z) \in DOMAIN p[k] /\ \A j \in (k + 1)..(n - 1) : Lamp(z) \notin DOMAIN p[j]
  <2>1. PICK i \in 1..Len(q) : Lamp(z) \in DOMAIN q[i] /\ \A j \in (i + 1)..Len(q) : Lamp(z) \notin DOMAIN q[j] OBVIOUS
  <2>2. h + i \in (h + 1)..(n - 1) /\ (h + i) - h = i BY ONLY <1>7, <1>9, <1>10, i \in 1..Len(q)
  <2>3. p[h + i] = q[i] BY ONLY <1>8, <2>2
  <2>4. ASSUME NEW j \in (h + i + 1)..(n - 1) PROVE Lamp(z) \notin DOMAIN p[j]
    <3>1. j - h \in (i + 1)..Len(q) /\ j \in (h + 1)..(n - 1) BY ONLY <1>7, <1>9, <1>10, i \in 1..Len(q), j \in (h + i + 1)..(n - 1)
    <3>2. p[j] = q[j - h] BY ONLY <1>8, <3>1
    <3> QED BY ONLY <2>1, <3>1, <3>2
  <2> QED BY ONLY Zenon, <2>1, <2>2, <2>3, <2>4
<1>14. Cycling(c) # {} => DOMAIN p[2] = {Mask} /\ p[2][Mask] = Cycling(c) BY ONLY <1>4, <1>7, <1>11
<1>15. DOMAIN p[1] = {Engine, <<"overlay", 0>>} /\ p[1][Engine] = (Cycling(c) # {}) /\ p[1][<<"overlay", 0>>] = c.reacts
  BY ONLY Zenon, <1>3, <1>11
<1>16. DOMAIN p[n] = {<<"click", 0>>} /\ p[n][<<"click", 0>>] = IF c.reacts THEN c.flash ELSE 0 BY ONLY Zenon, <1>5, <1>8
<1>17. Engined(c, p, n)
  <2>1. n \in Nat /\ DOMAIN p = 1..n /\ Len(p) = n /\ n > h BY ONLY <1>8, <1>10
  <2> QED BY ONLY Zenon, <2>1, <1>12, <1>13, <1>14, <1>15, <1>16 DEF Engined, h
<1> QED BY ONLY <1>17 DEF n, h

LEMMA AeroxColors ==
    ASSUME NEW d, NEW c, Drv(d, c), d.name = "aerox3"
    PROVE  /\ Full(d, "colors", c) /\ DOMAIN c.fx = 1..3
           /\ \E n : Engined(c, Packets(d, "colors", c), n)
<1>1. d \in Registry BY DEF Drv
<1>2. Range(d.steps) = MouseStep \cup {"sleep"} /\ Zones(d) = 1..3 BY ONLY SMT, <1>1, Kinds, d.name = "aerox3"
<1>3. DOMAIN c.fx = 1..3
  <2>1. c.fx \in [Zones(d) -> Bytes] BY Zenon DEF Drv, Config, DevOK
  <2> QED BY ONLY <1>2, <2>1
<1> DEFINE T == Calm(c)
           s == SetToSeq(T)
           l == Cardinality(T)
           q == Statics(c)
           p == Packets(d, "colors", c)
<1>4. IsFiniteSet(T)
  <2>1. IsFiniteSet(1..3)
    <3>1. 1 \in Int /\ 3 \in Int OBVIOUS
    <3> QED BY ONLY <3>1, FS_Interval
  <2>2. T \in SUBSET (1..3) BY <1>3 DEF Calm
  <2> HIDE DEF T
  <2> QED BY ONLY <2>1, <2>2, FS_Subset
<1>5. /\ l \in Nat /\ s \in [1..l -> T]
      /\ \A i, j \in 1..l : s[i] = s[j] => i = j
      /\ \A z \in T : \E i \in 1..l : s[i] = z
  BY ONLY <1>4, Listed
<1>6. q = [i \in DOMAIN s |-> At("lamp", s[i], c.color[s[i]])] BY Zenon DEF Statics, Calm, a3wl_build_zone_color
<1> HIDE DEF T, s, l, q
<1>7. q = [i \in 1..l |-> At("lamp", s[i], c.color[s[i]])] BY ONLY <1>5, <1>6
<1>8. q \in Seq(Range(q)) /\ Len(q) = l BY ONLY <1>5, <1>7 DEF Range
<1>9. ASSUME NEW k \in 1..l PROVE DOMAIN q[k] = {Lamp(s[k])} /\ q[k][Lamp(s[k])] = c.color[s[k]]
  <2>1. q[k] = At("lamp", s[k], c.color[s[k]]) BY ONLY <1>7, k \in 1..l
  <2> DEFINE u == s[k]
             v == c.color[u]
  <2> HIDE DEF u, v
  <2>2. DOMAIN At("lamp", u, v) = {<<"lamp", u>>} /\ At("lamp", u, v)[<<"lamp", u>>] = v BY ONLY RegIs
  <2> QED BY ONLY Zenon, <2>1, <2>2 DEF u, v, Lamp
<1>10. \A k \in 1..Len(q) : \A r \in DOMAIN q[k] : \E z \in T : r = Lamp(z) /\ q[k][r] = c.color[z]
  <2> TAKE k \in 1..Len(q)
  <2>1. k \in 1..l /\ s[k] \in T BY ONLY <1>5, <1>8, k \in 1..Len(q)
  <2> QED BY ONLY Zenon, <1>9, <2>1
<1>11. ASSUME NEW z \in T
       PROVE  \E k \in 1..Len(q) : Lamp(z) \in DOMAIN q[k] /\ \A j \in (k + 1)..Len(q) : Lamp(z) \notin DOMAIN q[j]
  <2>1. PICK k \in 1..l : s[k] = z BY ONLY <1>5, z \in T
  <2>2. Lamp(z) \in DOMAIN q[k] BY ONLY <1>9, <2>1
  <2>3. ASSUME NEW j \in (k + 1)..l PROVE Lamp(z) \notin DOMAIN q[j]
    <3>1. j \in 1..l /\ j # k BY ONLY <1>5, k \in 1..l, j \in (k + 1)..l
    <3>2. s[j] # z BY ONLY <1>5, <2>1, <3>1
    <3>3. Lamp(s[j]) # Lamp(z) BY ONLY <3>2 DEF Lamp
    <3> QED BY ONLY <1>9, <3>1, <3>3
  <2> QED BY ONLY <1>8, <2>2, <2>3
<1>12. p = <<a3wl_build_startup(c)>> \o (IF Cycling(c) = {} THEN <<>> ELSE <<a3wl_build_rainbow(c)>>)
             \o q \o <<a3wl_build_reactive(c)>>
  <2>0. "colors" \in Range(d.steps) BY <1>2 DEF MouseStep
  <2>1. p = a3wl_apply("colors", c) BY ONLY Zenon, <2>0, d.name = "aerox3", Routed DEF p
  <2>2. a3wl_apply("colors", c) = a3wl_apply_colors(c) BY ONLY Zenon, AeroxApply
  <2> QED BY ONLY Zenon, <2>1, <2>2 DEF a3wl_apply_colors, q
<1> DEFINE S == Range(q)
<1> HIDE DEF S, p
<1>13. Engined(c, p, Lead(c) + Len(q) + 1)
  <2>1. q \in Seq(S) BY ONLY <1>8 DEF S
  <2> QED BY ONLY <1>10, <1>11, <1>12, <2>1, EnginedIs DEF T
<1>14. Full(d, "colors", c)
  <2>1. d.name \in {"aerox3", "rival3_gen2"} OBVIOUS
  <2> QED BY ONLY <1>2, <1>3, <1>13, <2>1, EngineFull DEF p
<1> QED BY ONLY Zenon, <1>3, <1>13, <1>14 DEF p

LEMMA Gen2Colors ==
    ASSUME NEW d, NEW c, Drv(d, c), d.name = "rival3_gen2"
    PROVE  /\ Full(d, "colors", c) /\ DOMAIN c.fx = 1..3
           /\ \E n : Engined(c, Packets(d, "colors", c), n)
<1>1. d \in Registry BY DEF Drv
<1>2. Range(d.steps) = MouseStep /\ Zones(d) = 1..3 BY ONLY SMT, <1>1, Kinds, d.name = "rival3_gen2"
<1>3. DOMAIN c.fx = 1..3
  <2>1. c.fx \in [Zones(d) -> Bytes] BY Zenon DEF Drv, Config, DevOK
  <2> QED BY ONLY <1>2, <2>1
<1> DEFINE T == Calm(c)
           u == r3g2_build_colors(c)
           q == IF Cycling(c) = DOMAIN c.fx THEN <<>> ELSE <<u>>
           p == Packets(d, "colors", c)
           S == {u}
<1>4. u = [r \in {"lamp"} \X T |-> c.color[r[2]]] BY Zenon DEF r3g2_build_colors, Calm
<1>5. DOMAIN u = {"lamp"} \X T /\ \A z \in T : u[Lamp(z)] = c.color[z]
  <2>1. \A z \in T : Lamp(z) \in {"lamp"} \X T /\ Lamp(z)[2] = z BY DEF Lamp
  <2> HIDE DEF T, u
  <2> QED BY ONLY <1>4, <2>1
<1>6. (Cycling(c) = DOMAIN c.fx) = (T = {}) BY DEF Cycling, Calm
<1> HIDE DEF T, u
<1>7. q \in Seq(S) /\ Len(q) = (IF T = {} THEN 0 ELSE 1) /\ (T # {} => q[1] = u)
  <2>1. <<>> \in Seq(S) /\ <<u>> \in Seq(S) /\ Len(<<>>) = 0 /\ Len(<<u>>) = 1 /\ <<u>>[1] = u OBVIOUS
  <2>2. q = IF T = {} THEN <<>> ELSE <<u>> BY ONLY Zenon, <1>6
  <2> HIDE DEF q, S
  <2>3. CASE T = {} BY ONLY <2>1, <2>2, <2>3
  <2>4. CASE T # {} BY ONLY <2>1, <2>2, <2>4
  <2> QED BY ONLY <2>3, <2>4
<1> HIDE DEF q, S, p
<1>8. \A r \in DOMAIN u : \E z \in T : r = Lamp(z) /\ u[r] = c.color[z]
  <2> TAKE r \in DOMAIN u
  <2>1. PICK z \in T : r = <<"lamp", z>> BY ONLY <1>5, r \in DOMAIN u
  <2> QED BY ONLY <1>5, <2>1 DEF Lamp
<1>9. \A k \in 1..Len(q) : \A r \in DOMAIN q[k] : \E z \in T : r = Lamp(z) /\ q[k][r] = c.color[z]
  <2> TAKE k \in 1..Len(q)
  <2>1. k = 1 /\ T # {} BY ONLY <1>7, k \in 1..Len(q)
  <2> QED BY ONLY Zenon, <1>7, <1>8, <2>1
<1>10. ASSUME NEW z \in T
       PROVE  \E k \in 1..Len(q) : Lamp(z) \in DOMAIN q[k] /\ \A j \in (k + 1)..Len(q) : Lamp(z) \notin DOMAIN q[j]
  <2>1. 1 \in 1..Len(q) /\ q[1] = u /\ \A j \in (1 + 1)..Len(q) : FALSE BY ONLY <1>7, z \in T
  <2>2. Lamp(z) \in DOMAIN u BY ONLY <1>5, z \in T DEF Lamp
  <2>3. Lamp(z) \in DOMAIN q[1] /\ \A j \in (1 + 1)..Len(q) : Lamp(z) \notin DOMAIN q[j] BY ONLY Zenon, <2>1, <2>2
  <2>4. 1 \in 1..Len(q) BY ONLY <2>1
  <2> QED BY ONLY <2>3, <2>4
<1>11. p = <<a3wl_build_startup(c)>> \o (IF Cycling(c) = {} THEN <<>> ELSE <<a3wl_build_rainbow(c)>>)
             \o q \o <<a3wl_build_reactive(c)>>
  <2>0. "colors" \in Range(d.steps) BY <1>2 DEF MouseStep
  <2>1. p = r3g2_apply("colors", c) BY ONLY Zenon, <2>0, d.name = "rival3_gen2", Routed DEF p
  <2>2. r3g2_apply("colors", c) = r3g2_apply_colors(c) BY ONLY Zenon, Gen2Apply
  <2> QED BY ONLY Zenon, <2>1, <2>2 DEF r3g2_apply_colors, q, u
<1>12. Engined(c, p, Lead(c) + Len(q) + 1)
  <2>1. q \in Seq(S) BY ONLY <1>7
  <2> QED BY ONLY <1>9, <1>10, <1>11, <2>1, EnginedIs DEF T
<1>13. Full(d, "colors", c)
  <2>1. d.name \in {"aerox3", "rival3_gen2"} OBVIOUS
  <2> QED BY ONLY <1>2, <1>3, <1>12, <2>1, EngineFull DEF p
<1> QED BY ONLY Zenon, <1>3, <1>12, <1>13 DEF p

\* Every step of every driver shows what it was sent for, once all of it has arrived.
LEMMA StepShown ==
    ASSUME NEW d, NEW c, Drv(d, c), NEW s \in Range(d.steps)
    PROVE  Full(d, s, c)
<1>1. d \in Registry BY DEF Drv
<1>2. d.name \in {"rival3", "rival600", "prime", "apex100", "aerox3", "aerox3_bt", "rival3_gen2"} BY ONLY SMT, <1>1, Kinds
<1>3. s \in {"dpi", "polling", "colors", "brightness", "buttons", "sleep"}
  <2>1. \/ Range(d.steps) = MouseStep \/ Range(d.steps) = MouseStep \cup {"sleep"}
        \/ Range(d.steps) = {"dpi", "polling", "colors", "buttons"}
        \/ Range(d.steps) = {"polling", "colors", "brightness"}
        \/ Range(d.steps) = {"dpi", "sleep", "brightness"}
    BY ONLY SMT, <1>1, <1>2, Kinds
  <2> QED BY ONLY Zenon, <2>1, s \in Range(d.steps) DEF MouseStep
<1>4. CASE s = "dpi"
  <2>1. CASE d.name = "rival600" BY <1>4, <2>1, PresetFull
  <2>2. CASE d.name # "rival600" BY <1>4, <2>2, DpiFull DEF OneShows
  <2> QED BY ONLY <2>1, <2>2
<1>5. CASE s = "polling" BY <1>5, PollingFull DEF OneShows
<1>6. CASE s = "buttons" BY <1>6, ButtonsFull DEF OneShows
<1>7. CASE s = "sleep" BY <1>7, SleepFull DEF OneShows
<1>8. CASE s = "brightness"
  <2>1. CASE d.name = "rival3"
    <3>1. s \in Lighting BY <1>8 DEF Lighting
    <3> QED BY Zenon, <2>1, <3>1, R3Full
  <2>2. CASE d.name # "rival3" BY <1>8, <2>2, BrightnessFull DEF OneShows
  <2> QED BY ONLY <2>1, <2>2
<1>9. CASE s = "colors"
  <2>1. CASE d.name = "rival3"
    <3>1. s \in Lighting BY <1>9 DEF Lighting
    <3> QED BY Zenon, <2>1, <3>1, R3Full
  <2>2. CASE d.name = "rival600" BY Zenon, <1>9, <2>2, R600Colors
  <2>3. CASE d.name = "prime" BY Zenon, <1>9, <2>3, PrimeColors
  <2>4. CASE d.name = "apex100" BY Zenon, <1>9, <2>4, ApexColors
  <2>5. CASE d.name = "aerox3" BY Zenon, <1>9, <2>5, AeroxColors
  <2>6. CASE d.name = "rival3_gen2" BY Zenon, <1>9, <2>6, Gen2Colors
  <2>7. d.name # "aerox3_bt"
    <3>1. d.name = "aerox3_bt" => Range(d.steps) = {"dpi", "sleep", "brightness"} BY ONLY SMT, <1>1, Kinds
    <3> QED BY ONLY <1>9, <3>1, s \in Range(d.steps)
  <2> QED BY ONLY <1>2, <2>1, <2>2, <2>3, <2>4, <2>5, <2>6, <2>7
<1> QED BY ONLY <1>3, <1>4, <1>5, <1>6, <1>7, <1>8, <1>9

-----------------------------------------------------------------------------
(* What the packets of a step leave alone.                                     *)

LEMMA StepNames ==
    ASSUME NEW d \in Registry
    PROVE  /\ Range(d.steps) \subseteq Sixth
           /\ d.name = "rival600" => "brightness" \notin Range(d.steps)
           /\ d.name = "aerox3_bt" => "colors" \notin Range(d.steps)
           /\ d.name = "apex100" => "dpi" \notin Range(d.steps)
<1>1. d.name \in {"rival3", "rival600", "prime", "apex100", "aerox3", "aerox3_bt", "rival3_gen2"} BY ONLY SMT, Kinds
<1>2. /\ d.name \in {"rival3", "prime", "rival3_gen2"} => Range(d.steps) = MouseStep
      /\ d.name = "rival600" => Range(d.steps) = {"dpi", "polling", "colors", "buttons"}
      /\ d.name = "apex100" => Range(d.steps) = {"polling", "colors", "brightness"}
      /\ d.name = "aerox3" => Range(d.steps) = MouseStep \cup {"sleep"}
      /\ d.name = "aerox3_bt" => Range(d.steps) = {"dpi", "sleep", "brightness"}
  BY ONLY SMT, <1>1, Kinds
<1>3. Range(d.steps) \subseteq Sixth BY ONLY SMT, <1>1, <1>2 DEF Sixth, MouseStep
<1> QED BY ONLY SMT, <1>2, <1>3

\* A step is read from what it touches, and from something.
LEMMA ReadFrom ==
    ASSUME NEW d \in Registry, NEW s \in Range(d.steps)
    PROVE  /\ \A r \in Registers(d, s) : r[1] \in Touches(d, s)
           /\ \E r \in Registers(d, s) : r[1] = Where(d, s)
           /\ Where(d, s) \in Touches(d, s)
<1>0. d.name \in {"rival3", "rival600", "prime", "apex100", "aerox3", "aerox3_bt", "rival3_gen2"} BY ONLY SMT, Kinds
<1>1. s \in Sixth BY StepNames
<1>2. CASE s = "dpi"
  <2>1. Registers(d, s) = (IF d.name = "rival600" THEN {"preset"} \X {1, 2} ELSE {<<"levels", 0>>})
    BY Zenon, <1>2 DEF Registers
  <2>2. Where(d, s) = IF d.name = "rival600" THEN "preset" ELSE "levels" BY Zenon, <1>2 DEF Where
  <2>3. Touches(d, s) = {"levels", "preset"} BY Zenon, <1>2 DEF Touches
  <2>4. <<"preset", 1>> \in {"preset"} \X {1, 2} /\ \A r \in {"preset"} \X {1, 2} : r[1] = "preset" OBVIOUS
  <2>6. CASE d.name = "rival600" BY ONLY Zenon, <2>1, <2>2, <2>3, <2>4, <2>6
  <2>7. CASE d.name # "rival600"
    <3>1. Registers(d, s) = {<<"levels", 0>>} /\ Where(d, s) = "levels" /\ "levels" \in Touches(d, s) BY ONLY Zenon, <2>1, <2>2, <2>3, <2>7
    <3> QED BY ONLY <3>1
  <2> QED BY ONLY <2>6, <2>7
<1>3. CASE s = "polling"
  <2>1. Registers(d, s) = {<<"rate", 0>>} /\ Where(d, s) = "rate" /\ Touches(d, s) = {"rate"} BY Zenon, <1>3 DEF Registers, Where, Touches
  <2> QED BY ONLY <2>1
<1>4. CASE s \in {"buttons", "sleep"}
  <2>1. Registers(d, s) = {<<s, 0>>} /\ Where(d, s) = s /\ Touches(d, s) = {s} BY Zenon, <1>4 DEF Registers, Where, Touches
  <2> QED BY ONLY <2>1
<1>5. CASE s = "brightness"
  <2>1. Registers(d, s) = (CASE d.name = "rival3" -> {"lamp"} \X (1..4)
                              [] d.name \in {"aerox3", "aerox3_bt"} -> {<<"illum", 0>>}
                              [] OTHER -> {<<"bright", 0>>}) BY Zenon, <1>5 DEF Registers
  <2>2. Where(d, s) = (CASE d.name = "rival3" -> "lamp"
                         [] d.name \in {"aerox3", "aerox3_bt"} -> "illum" [] OTHER -> "bright") BY Zenon, <1>5 DEF Where
  <2>3. Touches(d, s) = (CASE d.name = "rival3" -> {"lamp", "mode"}
                           [] d.name \in {"aerox3", "aerox3_bt"} -> {"illum"} [] OTHER -> {"bright"}) BY Zenon, <1>5 DEF Touches
  <2>4. <<"lamp", 1>> \in {"lamp"} \X (1..4) /\ \A r \in {"lamp"} \X (1..4) : r[1] = "lamp" OBVIOUS
  <2>6. CASE d.name = "rival3"
    <3>1. Registers(d, s) = {"lamp"} \X (1..4) /\ Where(d, s) = "lamp" /\ "lamp" \in Touches(d, s) BY ONLY Zenon, <2>1, <2>2, <2>3, <2>6
    <3> QED BY ONLY Zenon, <2>4, <3>1
  <2>7. CASE d.name \in {"aerox3", "aerox3_bt"}
    <3>1. Registers(d, s) = {<<"illum", 0>>} /\ Where(d, s) = "illum" /\ "illum" \in Touches(d, s) BY ONLY Zenon, <2>1, <2>2, <2>3, <2>7
    <3> QED BY ONLY <3>1
  <2>8. CASE d.name \notin {"rival3", "aerox3", "aerox3_bt"}
    <3>1. Registers(d, s) = {<<"bright", 0>>} /\ Where(d, s) = "bright" /\ "bright" \in Touches(d, s) BY ONLY Zenon, <2>1, <2>2, <2>3, <2>8
    <3> QED BY ONLY <3>1
  <2> QED BY ONLY <2>6, <2>7, <2>8
<1>6. CASE s = "colors"
  <2>1. Registers(d, s) = (CASE d.name = "rival3" -> ({"lamp"} \X (1..4)) \cup {<<"mode", 0>>}
                           [] d.name = "apex100" -> {<<"mode", 0>>}
                           [] d.name = "rival600" -> {"lamp"} \X (1..8)
                           [] d.name = "prime" -> {<<"lamp", 1>>}
                           [] OTHER -> ({"lamp"} \X (1..3)) \cup {<<"overlay", 0>>, <<"click", 0>>}) BY Zenon, <1>6 DEF Registers, Lamp
  <2>2. Where(d, s) = (IF d.name = "apex100" THEN "mode" ELSE "lamp") BY Zenon, <1>6 DEF Where
  <2>3. Touches(d, s) = (CASE d.name = "rival3" -> {"lamp", "mode"} [] d.name = "apex100" -> {"bright", "mode"}
                           [] OTHER -> {"lamp", "engine", "mask", "overlay", "click"}) BY Zenon, <1>6 DEF Touches
  <2>4. /\ <<"lamp", 1>> \in {"lamp"} \X (1..4) /\ \A r \in {"lamp"} \X (1..4) : r[1] = "lamp"
        /\ <<"lamp", 1>> \in {"lamp"} \X (1..8) /\ \A r \in {"lamp"} \X (1..8) : r[1] = "lamp"
        /\ <<"lamp", 1>> \in {"lamp"} \X (1..3) /\ \A r \in {"lamp"} \X (1..3) : r[1] = "lamp" OBVIOUS
  <2>5. <<"lamp", 1>>[1] = "lamp" /\ <<"mode", 0>>[1] = "mode" /\ <<"overlay", 0>>[1] = "overlay" /\ <<"click", 0>>[1] = "click" OBVIOUS
  <2>6. CASE d.name = "rival3" BY ONLY Zenon, <2>1, <2>2, <2>3, <2>4, <2>5, <2>6
  <2>7. CASE d.name = "apex100" BY ONLY Zenon, <2>1, <2>2, <2>3, <2>5, <2>7
  <2>8. CASE d.name = "rival600" BY ONLY Zenon, <2>1, <2>2, <2>3, <2>4, <2>5, <2>8
  <2>9. CASE d.name = "prime" BY ONLY Zenon, <2>1, <2>2, <2>3, <2>5, <2>9
  <2>10. CASE d.name \in {"aerox3", "aerox3_bt", "rival3_gen2"} BY ONLY Zenon, <2>1, <2>2, <2>3, <2>4, <2>5, <2>10
  <2> QED BY ONLY <1>0, <2>6, <2>7, <2>8, <2>9, <2>10
<1> QED BY ONLY <1>1, <1>2, <1>3, <1>4, <1>5, <1>6 DEF Sixth

\* No two steps touch the same, but the lights of the Rival 3 and of the Apex 100.
LEMMA Apart ==
    ASSUME NEW d, NEW s \in Sixth, NEW t \in Sixth, s # t,
           d.name \in {"rival3", "apex100"} => ~({s, t} \subseteq Lighting)
    PROVE  /\ Touches(d, s) \cap Touches(d, t) = {}
           /\ {"engine", "mask"} \cap Touches(d, s) # {} => "lamp" \notin Touches(d, t)
<1>1. /\ Touches(d, "dpi") = {"levels", "preset"} /\ Touches(d, "polling") = {"rate"}
      /\ Touches(d, "buttons") = {"buttons"} /\ Touches(d, "sleep") = {"sleep"}
  BY Zenon DEF Touches
<1>2. CASE d.name = "rival3"
  <2>1. Touches(d, "colors") = {"lamp", "mode"} /\ Touches(d, "brightness") = {"lamp", "mode"} BY Zenon, <1>2 DEF Touches
  <2> QED BY <1>1, <1>2, <2>1 DEF Sixth, Lighting
<1>3. CASE d.name = "apex100"
  <2>1. Touches(d, "colors") = {"bright", "mode"} /\ Touches(d, "brightness") = {"bright"} BY Zenon, <1>3 DEF Touches
  <2> QED BY <1>1, <1>3, <2>1 DEF Sixth, Lighting
<1>4. CASE d.name \notin {"rival3", "apex100"}
  <2>1. Touches(d, "colors") = {"lamp", "engine", "mask", "overlay", "click"}
    BY Zenon, <1>4 DEF Touches
  <2>2. Touches(d, "brightness") \in {{"illum"}, {"bright"}}
    <3>1. Touches(d, "brightness") = IF d.name \in {"aerox3", "aerox3_bt"} THEN {"illum"} ELSE {"bright"} BY Zenon, <1>4 DEF Touches
    <3> QED BY ONLY <3>1
  <2> QED BY <1>1, <1>4, <2>1, <2>2 DEF Sixth, Lighting
<1> QED BY ONLY <1>2, <1>3, <1>4

-----------------------------------------------------------------------------

LEMMA EnginedTouches ==
    ASSUME NEW c, NEW p, NEW n, Engined(c, p, n), NEW k \in DOMAIN p, NEW r \in DOMAIN p[k]
    PROVE  r[1] \in {"lamp", "engine", "mask", "overlay", "click"}
<1>1. /\ n \in Nat /\ DOMAIN p = 1..n
      /\ DOMAIN p[1] = {Engine, <<"overlay", 0>>}
      /\ Cycling(c) # {} => DOMAIN p[2] = {Mask}
      /\ \A i \in (Lead(c) + 1)..(n - 1) : \A q \in DOMAIN p[i] : \E z \in Calm(c) : q = Lamp(z) /\ p[i][q] = c.color[z]
      /\ DOMAIN p[n] = {<<"click", 0>>}
  BY Zenon DEF Engined
<1>2. Lead(c) = (IF Cycling(c) = {} THEN 1 ELSE 2) BY DEF Lead
<1>3. k = 1 \/ (Cycling(c) # {} /\ k = 2) \/ k \in (Lead(c) + 1)..(n - 1) \/ k = n
  BY <1>1, <1>2
<1>4. Engine[1] = "engine" /\ Mask[1] = "mask" /\ <<"overlay", 0>>[1] = "overlay" /\ <<"click", 0>>[1] = "click" /\ \A z : Lamp(z)[1] = "lamp"
  BY DEF Engine, Mask, Lamp
<1> QED BY ONLY <1>1, <1>3, <1>4, k \in DOMAIN p, r \in DOMAIN p[k]

LEMMA OneConfined ==
    ASSUME NEW d \in Registry, NEW s \in Range(d.steps), NEW c, OneShows(d, s, c)
    PROVE  Confined(d, s, Packets(d, s, c))
<1>1. PICK v : Packets(d, s, c) = <<Reg(Where(d, s), v)>> BY Zenon DEF OneShows
<1>2. DOMAIN Reg(Where(d, s), v) = {<<Where(d, s), 0>>} BY ONLY RegIs
<1>3. Where(d, s) \in Touches(d, s) BY ReadFrom
<1> DEFINE w == Where(d, s)
           q == Reg(w, v)
<1>4. DOMAIN <<q>> = {1} /\ <<q>>[1] = q OBVIOUS
<1>5. <<w, 0>>[1] = w OBVIOUS
<1> QED BY Zenon, <1>1, <1>2, <1>3, <1>4, <1>5 DEF Confined

LEMMA ColorsTouch ==
    ASSUME NEW d, NEW s \in Lighting
    PROVE  /\ d.name = "rival3" => Touches(d, s) = {"lamp", "mode"}
           /\ d.name = "apex100" => Touches(d, "colors") = {"bright", "mode"}
           /\ d.name = "apex100" => Touches(d, "brightness") = {"bright"}
           /\ d.name \notin {"rival3", "apex100"} => Touches(d, "colors") = {"lamp", "engine", "mask", "overlay", "click"}
<1>1. s = "colors" \/ s = "brightness" BY DEF Lighting
<1> QED BY Zenon, <1>1 DEF Touches

LEMMA Writes ==
    ASSUME NEW d, NEW c, Drv(d, c), NEW s \in Range(d.steps)
    PROVE  Confined(d, s, Packets(d, s, c))
<1>0. d \in Registry /\ d.name \in {"rival3", "rival600", "prime", "apex100", "aerox3", "aerox3_bt", "rival3_gen2"} BY ONLY SMT, Drv(d, c), Kinds DEF Drv
<1>14. "colors" \in Lighting /\ "brightness" \in Lighting BY DEF Lighting
<1>1. s \in Sixth BY <1>0, StepNames
<1>2. CASE s = "dpi" /\ d.name = "rival600"
  <2>1. Packets(d, s, c) = r600_apply("dpi", c) BY Zenon, <1>2, Routed
  <2> DEFINE v == r600_dpi_to_wire(c.dpi[1][1])
             w == r600_dpi_to_wire(c.dpi[IF c.count > 1 THEN 2 ELSE 1][1])
             p == <<At("preset", 1, v), At("preset", 2, w)>>
  <2>2. Packets(d, s, c) = p BY Zenon, <2>1, R600Apply
  <2>3. DOMAIN At("preset", 1, v) = {<<"preset", 1>>} /\ DOMAIN At("preset", 2, w) = {<<"preset", 2>>} BY ONLY RegIs
  <2>4. "preset" \in Touches(d, s) BY Zenon, <1>2 DEF Touches
  <2> HIDE DEF v, w
  <2>5. DOMAIN p = {1, 2} /\ p[1] = At("preset", 1, v) /\ p[2] = At("preset", 2, w) OBVIOUS
  <2>6. <<"preset", 1>>[1] = "preset" /\ <<"preset", 2>>[1] = "preset" OBVIOUS
  <2> HIDE DEF p
  <2> QED BY Zenon, <2>2, <2>3, <2>4, <2>5, <2>6 DEF Confined
<1>3. CASE s = "colors" /\ d.name = "rival600"
  <2>0. Packets(d, s, c) = r600_apply("colors", c) BY Zenon, <1>3, Routed
  <2>1. Packets(d, s, c) = [z \in 1..8 |-> r600_build_zone_color(c, z)] BY Zenon, <2>0, R600Apply
  <2>2. "lamp" \in Touches(d, s) BY Zenon, <1>3, <1>14, ColorsTouch
  <2>3. ASSUME NEW z \in 1..8, NEW r \in DOMAIN r600_build_zone_color(c, z) PROVE r[1] = "lamp"
    <3>1. PICK g : r600_build_zone_color(c, z) = At("lamp", z, g) BY ONLY ZoneGradient
    <3>2. DOMAIN At("lamp", z, g) = {<<"lamp", z>>} BY ONLY RegIs
    <3> QED BY ONLY <2>3, <3>1, <3>2
  <2> QED BY Zenon, <2>1, <2>2, <2>3 DEF Confined
<1>4. CASE s \in Lighting /\ d.name = "rival3"
  <2>1. Packets(d, s, c) = r3_apply_colors(c) BY ONLY <1>4, Drv(d, c), R3Full
  <2>2. Touches(d, s) = {"lamp", "mode"} BY ONLY <1>4, ColorsTouch
  <2> DEFINE p == r3_apply_colors(c)
  <2>3. /\ DOMAIN p = 1..5
        /\ \A z \in 1..4 : DOMAIN p[z] = {<<"lamp", z>>, <<"mode", 0>>}
        /\ DOMAIN p[5] = {<<"mode", 0>>} BY Zenon, R3Packets
  <2> HIDE DEF p
  <2>4. ASSUME NEW k \in DOMAIN p, NEW r \in DOMAIN p[k] PROVE r[1] \in {"lamp", "mode"}
    <3>1. k \in 1..4 \/ k = 5 BY ONLY <2>3, <2>4
    <3> QED BY ONLY <2>3, <2>4, <3>1
  <2> QED BY ONLY <2>1, <2>2, <2>4 DEF Confined, p
<1>5. CASE s = "colors" /\ d.name = "apex100"
  <2>1. PICK v : Packets(d, s, c) = <<At("bright", 0, c.bright), At("mode", 0, v)>> BY ONLY Drv(d, c), <1>5, ApexColors
  <2>2. Touches(d, s) = {"bright", "mode"} BY Zenon, <1>5, <1>14, ColorsTouch
  <2> DEFINE b == c.bright
             p == <<At("bright", 0, b), At("mode", 0, v)>>
  <2> HIDE DEF b
  <2>3. DOMAIN At("bright", 0, b) = {<<"bright", 0>>} /\ DOMAIN At("mode", 0, v) = {<<"mode", 0>>} BY ONLY RegIs
  <2>5. DOMAIN p = {1, 2} /\ p[1] = At("bright", 0, b) /\ p[2] = At("mode", 0, v) OBVIOUS
  <2>6. <<"bright", 0>>[1] = "bright" /\ <<"mode", 0>>[1] = "mode" OBVIOUS
  <2>7. Packets(d, s, c) = p BY ONLY <2>1 DEF b
  <2> HIDE DEF p
  <2> QED BY Zenon, <2>7, <2>2, <2>3, <2>5, <2>6 DEF Confined
<1>6. CASE s = "colors" /\ d.name = "prime"
  <2>0. Packets(d, s, c) = prime_apply("colors", c) BY Zenon, <1>6, Routed
  <2>1. Packets(d, s, c) = <<At("lamp", 1, c.color[1])>> BY Zenon, <2>0, PrimeApply
  <2>2. "lamp" \in Touches(d, s) BY Zenon, <1>6, <1>14, ColorsTouch
  <2> DEFINE q == At("lamp", 1, c.color[1])
  <2>3. DOMAIN q = {<<"lamp", 1>>} BY ONLY RegIs
  <2> HIDE DEF q
  <2>4. DOMAIN <<q>> = {1} /\ <<q>>[1] = q OBVIOUS
  <2>5. <<"lamp", 1>>[1] = "lamp" OBVIOUS
  <2>6. Packets(d, s, c) = <<q>> BY ONLY <2>1 DEF q
  <2> QED BY ONLY <2>6, <2>2, <2>3, <2>4, <2>5 DEF Confined
<1>7. CASE s = "colors" /\ d.name \in {"aerox3", "rival3_gen2"}
  <2>1. \E n : Engined(c, Packets(d, s, c), n) BY ONLY Zenon, Drv(d, c), <1>7, AeroxColors, Gen2Colors
  <2>2. Touches(d, s) = {"lamp", "engine", "mask", "overlay", "click"} BY Zenon, <1>7, <1>14, ColorsTouch
  <2> DEFINE p == Packets(d, s, c)
  <2> HIDE DEF p
  <2>3. PICK n : Engined(c, p, n) BY ONLY <2>1 DEF p
  <2>4. \A k \in DOMAIN p : \A r \in DOMAIN p[k] : r[1] \in {"lamp", "engine", "mask", "overlay", "click"} BY ONLY <2>3, EnginedTouches
  <2> QED BY ONLY <2>2, <2>4 DEF Confined, p
<1>8. CASE OneShows(d, s, c) BY ONLY <1>0, <1>8, OneConfined, s \in Range(d.steps)
<1>9. s = "colors" => d.name # "aerox3_bt" BY ONLY <1>0, StepNames, s \in Range(d.steps)
<1>10. s = "brightness" /\ d.name # "rival3" => OneShows(d, s, c) BY Zenon, BrightnessFull
<1>11. /\ s = "polling" => OneShows(d, s, c)
       /\ s = "buttons" => OneShows(d, s, c)
       /\ s = "sleep" => OneShows(d, s, c)
  BY Zenon, PollingFull, ButtonsFull, SleepFull
<1>12. s = "dpi" /\ d.name # "rival600" => OneShows(d, s, c) BY Zenon, DpiFull
<1>13. s \in {"dpi", "polling", "colors", "brightness", "buttons", "sleep"} BY <1>1 DEF Sixth
<1> QED BY ONLY Zenon, <1>0, <1>2, <1>3, <1>4, <1>5, <1>6, <1>7, <1>8, <1>9, <1>10, <1>11, <1>12, <1>13, <1>14

-----------------------------------------------------------------------------

LEMMA DpiFrame ==
    ASSUME NEW d, NEW c, NEW x, NEW y, Agree(d, "dpi", x, y), Reads(d, "dpi", c, x)
    PROVE  Reads(d, "dpi", c, y)
<1>1. CASE d.name = "rival600"
  <2>1. Registers(d, "dpi") = {"preset"} \X {1, 2} BY Zenon, <1>1 DEF Registers
  <2>2. \A i \in 1..2 : <<"preset", i>> \in {"preset"} \X {1, 2} OBVIOUS
  <2>3. \A i \in 1..2 : y[<<"preset", i>>] = x[<<"preset", i>>] BY Zenon, <2>1, <2>2 DEF Agree
  <2>0. Reads(d, "dpi", c, x) = ShowsLevels(d, c, x) /\ Reads(d, "dpi", c, y) = ShowsLevels(d, c, y) BY ONLY ReadsIs
  <2>4. ShowsLevels(d, c, x) = \A i \in 1..2 : Near(d, x[<<"preset", i>>], c.dpi[IF i <= c.count THEN i ELSE 1][1])
    BY ONLY Zenon, <1>1 DEF ShowsLevels
  <2>5. ShowsLevels(d, c, y) = \A i \in 1..2 : Near(d, y[<<"preset", i>>], c.dpi[IF i <= c.count THEN i ELSE 1][1])
    BY ONLY Zenon, <1>1 DEF ShowsLevels
  <2> QED BY ONLY Zenon, <2>0, <2>3, <2>4, <2>5, Reads(d, "dpi", c, x)
<1>2. CASE d.name # "rival600"
  <2>1. Registers(d, "dpi") = {<<"levels", 0>>} BY Zenon, <1>2 DEF Registers
  <2>2. y[<<"levels", 0>>] = x[<<"levels", 0>>] BY Zenon, <2>1 DEF Agree
  <2>3. ShowsLevels(d, c, x) = ShowsLevels(d, c, y) BY Zenon, <1>2, <2>2 DEF ShowsLevels
  <2>4. Reads(d, "dpi", c, x) = ShowsLevels(d, c, x) /\ Reads(d, "dpi", c, y) = ShowsLevels(d, c, y) BY ONLY ReadsIs
  <2> QED BY ONLY <2>3, <2>4, Reads(d, "dpi", c, x)
<1> QED BY ONLY <1>1, <1>2

LEMMA ColorsFrame ==
    ASSUME NEW d \in Registry, NEW c, NEW x, NEW y, "colors" \in Range(d.steps), Agree(d, "colors", x, y), Reads(d, "colors", c, x)
    PROVE  Reads(d, "colors", c, y)
<1>0. d.name \in {"rival3", "rival600", "prime", "apex100", "aerox3", "rival3_gen2"} BY ONLY SMT, d \in Registry, Kinds, StepNames, "colors" \in Range(d.steps)
<1>1. Reads(d, "colors", c, x) = ShowsColors(d, c, x) /\ Reads(d, "colors", c, y) = ShowsColors(d, c, y) BY ONLY ReadsIs
<1>2. Registers(d, "colors") = (CASE d.name = "rival3" -> ({"lamp"} \X (1..4)) \cup {<<"mode", 0>>}
                           [] d.name = "apex100" -> {<<"mode", 0>>}
                           [] d.name = "rival600" -> {"lamp"} \X (1..8)
                           [] d.name = "prime" -> {<<"lamp", 1>>}
                           [] OTHER -> ({"lamp"} \X (1..3)) \cup {<<"overlay", 0>>, <<"click", 0>>}) BY Zenon DEF Registers, Lamp
<1>3. /\ \A z \in 1..4 : <<"lamp", z>> \in {"lamp"} \X (1..4)
      /\ \A z \in 1..8 : <<"lamp", z>> \in {"lamp"} \X (1..8)
      /\ \A z \in 1..3 : <<"lamp", z>> \in {"lamp"} \X (1..3) OBVIOUS
<1>4. \A r \in Registers(d, "colors") : y[r] = x[r] BY DEF Agree
<1>5. CASE d.name = "rival3"
  <2>1. Registers(d, "colors") = ({"lamp"} \X (1..4)) \cup {<<"mode", 0>>} BY ONLY Zenon, <1>2, <1>5
  <2>2. \A z \in 1..4 : y[<<"lamp", z>>] = x[<<"lamp", z>>] BY ONLY Zenon, <2>1, <1>3, <1>4
  <2>3. y[<<"mode", 0>>] = x[<<"mode", 0>>] BY ONLY Zenon, <2>1, <1>4
  <2> DEFINE m == CASE c.fx[1] \in 1..3 -> 4 - c.fx[1] [] c.fx[1] = 4 -> 0 [] c.fx[1] \in 5..6 -> c.fx[1] [] OTHER -> 4
  <2>4. ShowsColors(d, c, x) = ((\A z \in 1..4 : x[<<"lamp", z>>][1] = c.color[z]) /\ x[<<"mode", 0>>] = m) BY ONLY Zenon, <1>5 DEF ShowsColors
  <2>5. ShowsColors(d, c, y) = ((\A z \in 1..4 : y[<<"lamp", z>>][1] = c.color[z]) /\ y[<<"mode", 0>>] = m) BY ONLY Zenon, <1>5 DEF ShowsColors
  <2> HIDE DEF m
  <2> QED BY ONLY Zenon, <1>1, <2>2, <2>3, <2>4, <2>5, Reads(d, "colors", c, x)
<1>6. CASE d.name = "rival600"
  <2>1. Registers(d, "colors") = {"lamp"} \X (1..8) BY ONLY Zenon, <1>2, <1>6
  <2>2. \A z \in 1..8 : y[<<"lamp", z>>] = x[<<"lamp", z>>] BY ONLY Zenon, <2>1, <1>3, <1>4
  <2>4. ShowsColors(d, c, x) = \A z \in 1..8 : ShowsGradient(x[<<"lamp", z>>], c.fx[z], c.color[z]) BY ONLY Zenon, <1>6 DEF ShowsColors
  <2>5. ShowsColors(d, c, y) = \A z \in 1..8 : ShowsGradient(y[<<"lamp", z>>], c.fx[z], c.color[z]) BY ONLY Zenon, <1>6 DEF ShowsColors
  <2> QED BY ONLY Zenon, <1>1, <2>2, <2>4, <2>5, Reads(d, "colors", c, x)
<1>7. CASE d.name = "prime"
  <2>1. Registers(d, "colors") = {<<"lamp", 1>>} BY ONLY Zenon, <1>2, <1>7
  <2>2. y[<<"lamp", 1>>] = x[<<"lamp", 1>>] BY ONLY Zenon, <2>1, <1>4
  <2>4. ShowsColors(d, c, x) = (x[<<"lamp", 1>>] = c.color[1]) BY ONLY Zenon, <1>7 DEF ShowsColors
  <2>5. ShowsColors(d, c, y) = (y[<<"lamp", 1>>] = c.color[1]) BY ONLY Zenon, <1>7 DEF ShowsColors
  <2> QED BY ONLY Zenon, <1>1, <2>2, <2>4, <2>5, Reads(d, "colors", c, x)
<1>8. CASE d.name = "apex100"
  <2>1. Registers(d, "colors") = {<<"mode", 0>>} BY ONLY Zenon, <1>2, <1>8
  <2>2. y[<<"mode", 0>>] = x[<<"mode", 0>>] BY ONLY Zenon, <2>1, <1>4
  <2>4. ShowsColors(d, c, x) = ShowsColors(d, c, y) BY ONLY Zenon, <1>8, <2>2 DEF ShowsColors
  <2> QED BY ONLY <1>1, <2>4, Reads(d, "colors", c, x)
<1>9. CASE d.name \in {"aerox3", "rival3_gen2"}
  <2>1. Registers(d, "colors") = ({"lamp"} \X (1..3)) \cup {<<"overlay", 0>>, <<"click", 0>>} BY ONLY Zenon, <1>2, <1>9
  <2>2. \A z \in 1..3 : y[<<"lamp", z>>] = x[<<"lamp", z>>] BY ONLY Zenon, <2>1, <1>3, <1>4
  <2>3. y[<<"overlay", 0>>] = x[<<"overlay", 0>>] /\ y[<<"click", 0>>] = x[<<"click", 0>>] BY ONLY Zenon, <2>1, <1>4
  <2>4. ShowsColors(d, c, x) = ((\A z \in Zones(d) : x[<<"lamp", z>>] = IF c.fx[z] # 0 THEN Rainbow ELSE c.color[z])
             /\ x[<<"overlay", 0>>] = c.reacts /\ x[<<"click", 0>>] = IF c.reacts THEN c.flash ELSE 0) BY ONLY Zenon, <1>9 DEF ShowsColors
  <2>5. ShowsColors(d, c, y) = ((\A z \in Zones(d) : y[<<"lamp", z>>] = IF c.fx[z] # 0 THEN Rainbow ELSE c.color[z])
             /\ y[<<"overlay", 0>>] = c.reacts /\ y[<<"click", 0>>] = IF c.reacts THEN c.flash ELSE 0) BY ONLY Zenon, <1>9 DEF ShowsColors
  <2>6. Zones(d) = 1..3 BY ONLY SMT, <1>9, d \in Registry, Kinds
  <2> QED BY ONLY Zenon, <1>1, <2>2, <2>3, <2>4, <2>5, <2>6, Reads(d, "colors", c, x)
<1> QED BY ONLY <1>0, <1>5, <1>6, <1>7, <1>8, <1>9

LEMMA BrightnessFrame ==
    ASSUME NEW d, NEW c, NEW x, NEW y, Reads(d, "brightness", c, x),
           d.name = "rival3" => \A z \in 1..4 : y[<<"lamp", z>>][2] = x[<<"lamp", z>>][2],
           d.name # "rival3" => Agree(d, "brightness", x, y)
    PROVE  Reads(d, "brightness", c, y)
<1>1. Reads(d, "brightness", c, x) = ShowsBrightness(d, c, x) /\ Reads(d, "brightness", c, y) = ShowsBrightness(d, c, y) BY ONLY ReadsIs
<1>2. CASE d.name = "rival3"
  <2>4. ShowsBrightness(d, c, x) = \A z \in 1..4 : x[<<"lamp", z>>][2] = c.bright BY ONLY Zenon, <1>2 DEF ShowsBrightness
  <2>5. ShowsBrightness(d, c, y) = \A z \in 1..4 : y[<<"lamp", z>>][2] = c.bright BY ONLY Zenon, <1>2 DEF ShowsBrightness
  <2>6. \A z \in 1..4 : y[<<"lamp", z>>][2] = x[<<"lamp", z>>][2] BY ONLY <1>2, d.name = "rival3" => \A z \in 1..4 : y[<<"lamp", z>>][2] = x[<<"lamp", z>>][2]
  <2> QED BY ONLY Zenon, <1>1, <2>6, <2>4, <2>5, Reads(d, "brightness", c, x)
<1>3. CASE d.name \in {"aerox3", "aerox3_bt"}
  <2>1. Registers(d, "brightness") = {<<"illum", 0>>} BY Zenon, <1>3 DEF Registers
  <2>2. y[<<"illum", 0>>] = x[<<"illum", 0>>] BY Zenon, <1>3, <2>1 DEF Agree
  <2>4. ShowsBrightness(d, c, x) = ShowsBrightness(d, c, y) BY ONLY SMT, <1>3, <2>2 DEF ShowsBrightness
  <2> QED BY ONLY <1>1, <2>4, Reads(d, "brightness", c, x)
<1>4. CASE d.name \notin {"rival3", "aerox3", "aerox3_bt"}
  <2>1. Registers(d, "brightness") = {<<"bright", 0>>} BY Zenon, <1>4 DEF Registers
  <2>2. y[<<"bright", 0>>] = x[<<"bright", 0>>] BY Zenon, <1>4, <2>1 DEF Agree
  <2>4. ShowsBrightness(d, c, x) = ShowsBrightness(d, c, y) BY ONLY Zenon, <1>4, <2>2 DEF ShowsBrightness
  <2> QED BY ONLY <1>1, <2>4, Reads(d, "brightness", c, x)
<1> QED BY ONLY <1>2, <1>3, <1>4

LEMMA ShownFrame ==
    ASSUME NEW d \in Registry, NEW s \in Range(d.steps), NEW c, NEW x, NEW y, Agree(d, s, x, y), Shown(d, s, c, x)
    PROVE  Shown(d, s, c, y)
<1>1. Registers(d, s) \subseteq DOMAIN y BY DEF Agree
<1>2. \E r \in DOMAIN y : r[1] = Where(d, s) BY <1>1, ReadFrom
<1>3. Reads(d, s, c, x) BY ShownIs
<1> SUFFICES Reads(d, s, c, y) BY <1>1, <1>2, ShownIs
<1>4. s \in {"dpi", "polling", "colors", "brightness", "buttons", "sleep"} BY StepNames DEF Sixth
<1>5. CASE s = "dpi" BY ONLY <1>3, <1>5, DpiFrame, Agree(d, s, x, y)
<1>6. CASE s = "colors" BY ONLY <1>3, <1>6, ColorsFrame, Agree(d, s, x, y), d \in Registry, s \in Range(d.steps)
<1>7. CASE s = "brightness"
  <2>1. ASSUME d.name = "rival3" PROVE \A z \in 1..4 : y[<<"lamp", z>>][2] = x[<<"lamp", z>>][2]
    <3>1. Registers(d, s) = {"lamp"} \X (1..4) BY Zenon, <1>7, <2>1 DEF Registers
    <3>2. \A z \in 1..4 : <<"lamp", z>> \in {"lamp"} \X (1..4) OBVIOUS
    <3> QED BY Zenon, <3>1, <3>2 DEF Agree
  <2> QED BY ONLY <1>3, <1>7, <2>1, BrightnessFrame, Agree(d, s, x, y)
<1>8. CASE s = "polling"
  <2>1. Registers(d, s) = {<<"rate", 0>>} BY Zenon, <1>8 DEF Registers
  <2>2. y[<<"rate", 0>>] = x[<<"rate", 0>>] BY Zenon, <2>1 DEF Agree
  <2>3. ShowsRate(d, c, x) = ShowsRate(d, c, y) BY ONLY SMT, <2>2 DEF ShowsRate
  <2>4. Reads(d, "polling", c, x) = ShowsRate(d, c, x) /\ Reads(d, "polling", c, y) = ShowsRate(d, c, y) BY ONLY ReadsIs
  <2> QED BY ONLY <1>3, <1>8, <2>3, <2>4
<1>9. CASE s = "buttons"
  <2>1. Registers(d, s) = {<<s, 0>>} BY Zenon, <1>9 DEF Registers
  <2>2. y[<<"buttons", 0>>] = x[<<"buttons", 0>>] BY Zenon, <1>9, <2>1 DEF Agree
  <2>3. ShowsButtons(d, c, x) = ShowsButtons(d, c, y) BY ONLY Zenon, <2>2 DEF ShowsButtons
  <2>4. Reads(d, "buttons", c, x) = ShowsButtons(d, c, x) /\ Reads(d, "buttons", c, y) = ShowsButtons(d, c, y) BY ONLY ReadsIs
  <2> QED BY ONLY <1>3, <1>9, <2>3, <2>4
<1>10. CASE s = "sleep"
  <2>1. Registers(d, s) = {<<s, 0>>} BY Zenon, <1>10 DEF Registers
  <2>2. y[<<"sleep", 0>>] = x[<<"sleep", 0>>] BY Zenon, <1>10, <2>1 DEF Agree
  <2> DEFINE m == c.sleep * 60000
  <2>3. Reads(d, "sleep", c, x) = (Number3(x[<<"sleep", 0>>]) = m) BY ONLY ReadsIs
  <2>4. Reads(d, "sleep", c, y) = (Number3(y[<<"sleep", 0>>]) = m) BY ONLY ReadsIs
  <2> HIDE DEF m
  <2> QED BY ONLY <1>3, <1>10, <2>2, <2>3, <2>4
<1> QED BY ONLY <1>4, <1>5, <1>6, <1>7, <1>8, <1>9, <1>10

-----------------------------------------------------------------------------
LEMMA TakeApart ==
    ASSUME NEW d, NEW t, NEW x, NEW q, Registers(d, t) \subseteq DOMAIN x,
           Mask \notin DOMAIN q \/ Engine \notin DOMAIN q,
           \A r \in Registers(d, t) : r \notin DOMAIN q /\ (r[1] # "lamp" \/ (Engine \notin DOMAIN q /\ Mask \notin DOMAIN q))
    PROVE  Agree(d, t, x, Take(d, x, q))
<1> SUFFICES ASSUME NEW r \in Registers(d, t)
             PROVE  r \in DOMAIN x /\ r \in DOMAIN Take(d, x, q) /\ Take(d, x, q)[r] = x[r]
  BY DEF Agree
<1>1. r \in DOMAIN x OBVIOUS
<1>2. r \in DOMAIN Take(d, x, q) BY ONLY <1>1, TakeKeeps, Mask \notin DOMAIN q \/ Engine \notin DOMAIN q
<1>3. r \notin DOMAIN q /\ (r[1] # "lamp" \/ (Engine \notin DOMAIN q /\ Mask \notin DOMAIN q)) OBVIOUS
<1>4. Take(d, x, q)[r] = x[r] BY ONLY <1>1, <1>3, TakeRests, Mask \notin DOMAIN q \/ Engine \notin DOMAIN q
<1> QED BY ONLY <1>1, <1>2, <1>4

LEMMA PacketPlain ==
    ASSUME NEW p, Orderly(p), NEW k \in DOMAIN p
    PROVE  Mask \notin DOMAIN p[k] \/ Engine \notin DOMAIN p[k]
<1> SUFFICES ASSUME Mask \in DOMAIN p[k], Engine \in DOMAIN p[k] PROVE FALSE
  OBVIOUS
<1>1. k = 1 BY DEF Orderly
<1>2. k = 2 BY DEF Orderly
<1> QED BY ONLY <1>1, <1>2

LEMMA StepKeeps ==
    ASSUME NEW d, NEW c, Drv(d, c), NEW s \in Range(d.steps), NEW t \in Range(d.steps), s # t,
           NEW k \in DOMAIN Packets(d, s, c), NEW w, NEW x, Shown(d, t, w, x), ~Undone(d, s, t, w, c)
    PROVE  Shown(d, t, w, Take(d, x, Packets(d, s, c)[k]))
<1>0. d \in Registry /\ s \in Sixth /\ t \in Sixth BY StepNames DEF Drv
<1> DEFINE q == Packets(d, s, c)[k]
           y == Take(d, x, q)
<1>1. \A r \in DOMAIN q : r[1] \in Touches(d, s) BY ONLY Writes, Drv(d, c), s \in Range(d.steps), k \in DOMAIN Packets(d, s, c) DEF Confined
<1>2. Mask \notin DOMAIN q \/ Engine \notin DOMAIN q
  <2>1. Orderly(Packets(d, s, c)) BY ONLY StepShown, Drv(d, c), s \in Range(d.steps) DEF Full
  <2> QED BY ONLY <2>1, PacketPlain, k \in DOMAIN Packets(d, s, c)
<1>3. Registers(d, t) \subseteq DOMAIN x BY DEF Shown
<1>4. \A r \in Registers(d, t) : r[1] \in Touches(d, t) BY ONLY <1>0, ReadFrom, t \in Range(d.steps)
<1>5. Engine[1] = "engine" /\ Mask[1] = "mask" BY DEF Engine, Mask
<1>6. Agree(d, t, x, y) => Shown(d, t, w, y) BY ONLY <1>0, ShownFrame, t \in Range(d.steps), Shown(d, t, w, x)
<1>7. CASE d.name \in {"rival3", "apex100"} => ~({s, t} \subseteq Lighting)
  <2>1. /\ Touches(d, s) \cap Touches(d, t) = {}
        /\ {"engine", "mask"} \cap Touches(d, s) # {} => "lamp" \notin Touches(d, t)
    BY ONLY <1>0, <1>7, Apart, s # t
  <2> HIDE DEF q
  <2>2. \A r \in Registers(d, t) : r \notin DOMAIN q BY ONLY <1>1, <1>4, <2>1
  <2>3. \A r \in Registers(d, t) : r[1] = "lamp" => Engine \notin DOMAIN q /\ Mask \notin DOMAIN q
    BY ONLY <1>1, <1>4, <1>5, <2>1
  <2>4. Agree(d, t, x, y) BY ONLY <1>2, <1>3, <2>2, <2>3, TakeApart
  <2> QED BY ONLY <1>6, <2>4 DEF q
<1>8. CASE {s, t} \subseteq Lighting /\ d.name = "rival3"
  <2>1. s = "colors" /\ t = "brightness" /\ w.bright = c.bright BY <1>8 DEF Undone, Lighting
  <2>2. Packets(d, s, c) = r3_apply_colors(c) BY ONLY <1>8, Drv(d, c), R3Full
  <2> DEFINE p == r3_apply_colors(c)
  <2>3. /\ DOMAIN p = 1..5
        /\ \A z \in 1..4 : DOMAIN p[z] = {<<"lamp", z>>, <<"mode", 0>>}
        /\ \A z \in 1..4 : p[z][<<"lamp", z>>] = <<c.color[z], c.bright>>
        /\ DOMAIN p[5] = {<<"mode", 0>>} BY Zenon, R3Packets
  <2> HIDE DEF p
  <2>4. q = p[k] /\ k \in DOMAIN p BY <2>2 DEF p
  <2>5. Registers(d, t) = {"lamp"} \X (1..4) BY Zenon, <1>8, <2>1 DEF Registers
  <2>6. \A z \in 1..4 : x[<<"lamp", z>>][2] = w.bright
    <3>1. Reads(d, "brightness", w, x) BY ONLY ShownIs, <2>1, Shown(d, t, w, x)
    <3>2. ShowsBrightness(d, w, x) BY ONLY <3>1, ReadsIs
    <3> QED BY ONLY Zenon, <1>8, <3>2 DEF ShowsBrightness
  <2> HIDE DEF q
  <2>7. \A r \in DOMAIN q : r = <<"mode", 0>> \/ \E z \in 1..4 : r = <<"lamp", z>> /\ q[r] = <<c.color[z], c.bright>>
    <3>1. CASE k \in 1..4 BY ONLY <2>3, <2>4, <3>1
    <3>2. CASE k = 5 BY ONLY <2>3, <2>4, <3>2
    <3> QED BY ONLY <2>3, <2>4, <3>1, <3>2
  <2>8. Engine \notin DOMAIN q /\ Mask \notin DOMAIN q BY ONLY <2>7 DEF Engine, Mask
  <2>9. y = Over(q, x) BY ONLY <2>8, TakePlain
  <2> HIDE DEF y
  <2>10. \A z \in 1..4 : <<"lamp", z>> \in DOMAIN y /\ y[<<"lamp", z>>][2] = w.bright
    <3> SUFFICES ASSUME NEW z \in 1..4 PROVE <<"lamp", z>> \in DOMAIN y /\ y[<<"lamp", z>>][2] = w.bright
      OBVIOUS
    <3> DEFINE r == <<"lamp", z>>
    <3>1. r \in DOMAIN x BY ONLY <1>3, <2>5
    <3>2. r \in DOMAIN y BY ONLY <2>9, <3>1, OverIs
    <3>3. CASE r \notin DOMAIN q
      <4>0. r \in DOMAIN x \ DOMAIN q BY ONLY <3>1, <3>3
      <4>a. Over(q, x)[r] = x[r] BY ONLY <4>0 DEF Over
      <4>1. y[r] = x[r] BY ONLY <2>9, <4>a
      <4> QED BY ONLY <2>6, <3>2, <4>1
    <3>4. CASE r \in DOMAIN q
      <4>1. y[r] = q[r] BY ONLY <2>9, <3>4, OverIs
      <4>2. q[r][2] = c.bright BY ONLY <2>7, <3>4
      <4> QED BY ONLY <2>1, <3>2, <4>1, <4>2
    <3> QED BY ONLY <3>3, <3>4
  <2>11. Registers(d, t) \subseteq DOMAIN y BY ONLY <2>5, <2>10
  <2>12. \E r \in DOMAIN y : r[1] = Where(d, t)
    <3>1. \E r \in Registers(d, t) : r[1] = Where(d, t) BY ONLY <1>0, ReadFrom, t \in Range(d.steps)
    <3> QED BY ONLY <2>11, <3>1
  <2>13. Reads(d, "brightness", w, y)
    <3>1. ShowsBrightness(d, w, y) BY ONLY Zenon, <1>8, <2>10 DEF ShowsBrightness
    <3> QED BY ONLY <3>1, ReadsIs
  <2>14. Shown(d, t, w, y) BY ONLY <2>1, <2>11, <2>12, <2>13, ShownIs
  <2> QED BY ONLY <2>14 DEF y, q
<1>9. CASE {s, t} \subseteq Lighting /\ d.name = "apex100"
  <2>1. CASE s = "brightness" /\ t = "colors"
    <3>0. "brightness" \in Lighting BY DEF Lighting
    <3>1. Touches(d, s) = {"bright"} BY ONLY Zenon, <1>9, <2>1, <3>0, ColorsTouch
    <3>2. Registers(d, t) = {<<"mode", 0>>} BY Zenon, <1>9, <2>1 DEF Registers
    <3> HIDE DEF q
    <3>3. \A r \in Registers(d, t) : r \notin DOMAIN q BY ONLY <1>1, <3>1, <3>2
    <3>4. Engine \notin DOMAIN q /\ Mask \notin DOMAIN q BY ONLY <1>1, <1>5, <3>1
    <3>5. Agree(d, t, x, y) BY ONLY <1>3, <3>3, <3>4, TakeApart
    <3> QED BY ONLY <1>6, <3>5 DEF q
  <2>2. CASE s = "colors" /\ t = "brightness" /\ w.bright = c.bright
    <3>1. PICK v : Packets(d, s, c) = <<At("bright", 0, c.bright), At("mode", 0, v)>> BY ONLY Drv(d, c), <1>9, <2>2, ApexColors
    <3> DEFINE R == <<"bright", 0>>
               b == c.bright
               g == At("bright", 0, b)
               m == At("mode", 0, v)
    <3> HIDE DEF b
    <3>a. DOMAIN g = {R} /\ g[R] = b BY ONLY RegIs
    <3>b. DOMAIN m = {<<"mode", 0>>} BY ONLY RegIs
    <3>2. DOMAIN g = {R} /\ g[R] = b /\ DOMAIN m = {<<"mode", 0>>} BY ONLY <3>a, <3>b
    <3> HIDE DEF g, m
    <3>3. q = g \/ q = m
      <4>1. Packets(d, s, c) = <<g, m>> BY ONLY <3>1 DEF g, m, b
      <4> QED BY ONLY <4>1, k \in DOMAIN Packets(d, s, c)
    <3>4. Engine \notin DOMAIN q /\ Mask \notin DOMAIN q
      <4>1. DOMAIN q = {R} \/ DOMAIN q = {<<"mode", 0>>} BY ONLY <3>2, <3>3
      <4> HIDE DEF q
      <4> QED BY ONLY <4>1 DEF Engine, Mask
    <3>5. Registers(d, t) = {R} BY Zenon, <1>9, <2>2 DEF Registers
    <3>6. x[R] = w.bright /\ R \in DOMAIN x
      <4>1. Reads(d, "brightness", w, x) BY ONLY ShownIs, <2>2, Shown(d, t, w, x)
      <4>2. ShowsBrightness(d, w, x) BY ONLY <4>1, ReadsIs
      <4>3. x[R] = w.bright BY ONLY Zenon, <1>9, <4>2 DEF ShowsBrightness
      <4> QED BY ONLY <1>3, <3>5, <4>3
    <3> HIDE DEF q
    <3>7. y = Over(q, x) BY ONLY <3>4, TakePlain
    <3> HIDE DEF y
    <3>8. R \in DOMAIN y /\ y[R] = x[R]
      <4>1. CASE q = g
        <5>0. R \in DOMAIN q /\ q[R] = b BY ONLY <3>2, <4>1
        <5>1. y[R] = q[R] BY ONLY <3>7, <5>0, OverIs
        <5>2. R \in DOMAIN y BY ONLY <3>7, <5>0, OverIs
        <5> QED BY ONLY <2>2, <3>6, <5>0, <5>1, <5>2 DEF b
      <4>2. CASE q = m
        <5>1. R \in DOMAIN x \ DOMAIN q BY ONLY <3>2, <3>6, <4>2
        <5>a. Over(q, x)[R] = x[R] BY ONLY <5>1 DEF Over
        <5>2. y[R] = x[R] BY ONLY <3>7, <5>a
        <5>3. R \in DOMAIN y BY ONLY <3>7, <5>1, OverIs
        <5> QED BY ONLY <5>2, <5>3
      <4> QED BY ONLY <3>3, <4>1, <4>2
    <3>9. Agree(d, t, x, y) BY ONLY <3>5, <3>6, <3>8 DEF Agree
    <3> QED BY ONLY <1>6, <3>9 DEF q, y
  <2>3. s \in {"colors", "brightness"} /\ t \in {"colors", "brightness"} BY ONLY <1>9 DEF Lighting
  <2>4. ~(t = "brightness" /\ s = "colors" /\ w.bright # c.bright) BY DEF Undone
  <2> QED BY ONLY <2>1, <2>2, <2>3, <2>4, s # t
<1> QED BY ONLY <1>7, <1>8, <1>9

-----------------------------------------------------------------------------
(* What is acknowledged is shown.                                              *)

LEMMA FunSeq == ASSUME NEW n \in Nat, NEW S, NEW f \in [1..n -> S] PROVE f \in Seq(S)
  BY SeqDef

LEMMA SeqParts ==
    /\ IsSeq(<<>>) /\ (\A u : IsSeq(<<u>>)) /\ \A u, v : IsSeq(<<u, v>>)
    /\ \A p, q : IsSeq(p) /\ IsSeq(q) => IsSeq(p \o q)
<1>1. ASSUME NEW u, NEW v PROVE IsSeq(<<>>) /\ IsSeq(<<u>>) /\ IsSeq(<<u, v>>)
  <2>1. <<>> \in Seq({u, v}) /\ <<u>> \in Seq({u, v}) /\ <<u, v>> \in Seq({u, v}) BY ONLY SMT
  <2> QED BY ONLY Zenon, <2>1 DEF IsSeq
<1>2. ASSUME NEW p, NEW q, NEW S, NEW T, p \in Seq(S), q \in Seq(T) PROVE IsSeq(p \o q)
  <2>1. p \in Seq(S \cup T) /\ q \in Seq(S \cup T) BY ONLY SMT, <1>2
  <2>2. p \o q \in Seq(S \cup T) BY ONLY <2>1, ConcatProperties
  <2> QED BY ONLY Zenon, <2>2 DEF IsSeq
<1> QED BY ONLY Zenon, <1>1, <1>2 DEF IsSeq

LEMMA FamilySeq ==
    ASSUME NEW n \in Nat, NEW f, DOMAIN f = 1..n, f = [i \in 1..n |-> f[i]]
    PROVE  IsSeq(f)
<1> DEFINE S == {f[i] : i \in 1..n}
<1>1. f \in [1..n -> S] OBVIOUS
<1>2. f \in Seq(S) BY ONLY <1>1, n \in Nat, FunSeq
<1> QED BY ONLY Zenon, <1>2 DEF IsSeq

LEMMA PacketsSeq ==
    ASSUME NEW d, NEW c, Drv(d, c), NEW s \in Range(d.steps)
    PROVE  \E S : Packets(d, s, c) \in Seq(S)
<1>0. d \in Registry /\ d.name \in {"rival3", "rival600", "prime", "apex100", "aerox3", "aerox3_bt", "rival3_gen2"} BY ONLY SMT, Drv(d, c), Kinds DEF Drv
<1>1. s \in {"dpi", "polling", "colors", "brightness", "buttons", "sleep"} BY <1>0, StepNames DEF Sixth
<1>2. ASSUME IsSeq(Packets(d, s, c)) PROVE \E S : Packets(d, s, c) \in Seq(S) BY ONLY Zenon, <1>2 DEF IsSeq
<1>3. CASE OneShows(d, s, c)
  <2>1. PICK v : Packets(d, s, c) = <<Reg(Where(d, s), v)>> BY ONLY <1>3 DEF OneShows
  <2> QED BY ONLY Zenon, <1>2, <2>1, SeqParts
<1>4. CASE s = "dpi" /\ d.name = "rival600"
  <2>1. Packets(d, s, c) = r600_apply("dpi", c) BY Zenon, <1>4, Routed
  <2> DEFINE u == At("preset", 1, r600_dpi_to_wire(c.dpi[1][1]))
             v == At("preset", 2, r600_dpi_to_wire(c.dpi[IF c.count > 1 THEN 2 ELSE 1][1]))
  <2>2. Packets(d, s, c) = <<u, v>> BY Zenon, <2>1, R600Apply
  <2> HIDE DEF u, v
  <2> QED BY ONLY Zenon, <1>2, <2>2, SeqParts
<1>5. CASE s = "colors" /\ d.name = "rival600"
  <2>1. Packets(d, s, c) = r600_apply("colors", c) BY Zenon, <1>5, Routed
  <2> DEFINE f == [z \in 1..8 |-> r600_build_zone_color(c, z)]
  <2>2. Packets(d, s, c) = f BY Zenon, <2>1, R600Apply
  <2>3. 8 \in Nat /\ DOMAIN f = 1..8 /\ f = [i \in 1..8 |-> f[i]] OBVIOUS
  <2> HIDE DEF f
  <2>4. IsSeq(f) BY ONLY <2>3, FamilySeq
  <2> QED BY ONLY Zenon, <1>2, <2>2, <2>4
<1>6. CASE s \in Lighting /\ d.name = "rival3"
  <2> DEFINE f == [z \in 1..4 |-> r3_build_zone_color(c, z)]
             e == <<r3_build_effect(c)>>
  <2>1. Packets(d, s, c) = r3_apply_colors(c) BY ONLY <1>6, Drv(d, c), R3Full
  <2>2. r3_apply_colors(c) = f \o e BY ONLY SMT DEF r3_apply_colors
  <2>3. 4 \in Nat /\ DOMAIN f = 1..4 /\ f = [i \in 1..4 |-> f[i]] OBVIOUS
  <2> HIDE DEF f
  <2>4. IsSeq(f) BY ONLY <2>3, FamilySeq
  <2>5. IsSeq(e) BY ONLY Zenon, SeqParts
  <2> HIDE DEF e
  <2> QED BY ONLY Zenon, <1>2, <2>1, <2>2, <2>4, <2>5, SeqParts
<1>7. CASE s = "colors" /\ d.name = "apex100"
  <2>1. PICK v : Packets(d, s, c) = <<At("bright", 0, c.bright), At("mode", 0, v)>> BY ONLY Drv(d, c), <1>7, ApexColors
  <2> QED BY ONLY Zenon, <1>2, <2>1, SeqParts
<1>8. CASE s = "colors" /\ d.name = "prime"
  <2>1. Packets(d, s, c) = prime_apply("colors", c) BY Zenon, <1>8, Routed
  <2>2. Packets(d, s, c) = <<At("lamp", 1, c.color[1])>> BY Zenon, <2>1, PrimeApply
  <2> QED BY ONLY Zenon, <1>2, <2>2, SeqParts
<1> DEFINE a == <<a3wl_build_startup(c)>>
           b == IF Cycling(c) = {} THEN <<>> ELSE <<a3wl_build_rainbow(c)>>
           l == IF Cycling(c) = DOMAIN c.fx THEN <<>> ELSE <<r3g2_build_colors(c)>>
           e == <<a3wl_build_reactive(c)>>
<1>9. IsSeq(a) /\ IsSeq(b) /\ IsSeq(l) /\ IsSeq(e)
  <2>1. \A u, q : IsSeq(IF q THEN <<>> ELSE <<u>>) /\ IsSeq(<<u>>) BY ONLY Zenon, SeqParts
  <2> QED BY ONLY Zenon, <2>1
<1>10. CASE s = "colors" /\ d.name = "aerox3"
  <2> DEFINE q == Statics(c)
  <2>1. Packets(d, s, c) = a3wl_apply("colors", c) BY Zenon, <1>10, Routed
  <2>2. Packets(d, s, c) = a3wl_apply_colors(c) BY Zenon, <2>1, AeroxApply
  <2>3. a3wl_apply_colors(c) = a \o b \o q \o e BY ONLY SMT DEF a3wl_apply_colors
  <2>4. IsSeq(q)
    <3> DEFINE Z == DOMAIN c.fx \ Cycling(c)
               g == SetToSeq(Z)
               m == Cardinality(Z)
    <3>1. q = [i \in DOMAIN g |-> a3wl_build_zone_color(c, g[i])] BY DEF Statics
    <3>2. IsFiniteSet(1..3)
      <4>1. 1 \in Int /\ 3 \in Int OBVIOUS
      <4> QED BY ONLY <4>1, FS_Interval
    <3>3. DOMAIN c.fx = 1..3 BY ONLY Drv(d, c), <1>10, AeroxColors
    <3>4. IsFiniteSet(Z)
      <4>1. Z \subseteq 1..3 BY ONLY <3>3
      <4> QED BY ONLY <3>2, <4>1, FS_Subset
    <3> HIDE DEF Z
    <3>5. m \in Nat /\ g \in [1..m -> Z] BY ONLY <3>4, Listed
    <3> HIDE DEF g, m
    <3>6. DOMAIN q = 1..m /\ q = [i \in 1..m |-> q[i]] BY ONLY <3>1, <3>5
    <3> HIDE DEF q
    <3> QED BY ONLY <3>5, <3>6, FamilySeq
  <2> HIDE DEF a, b, q, e
  <2>5. IsSeq(a \o b \o q \o e) BY ONLY Zenon, <1>9, <2>4, SeqParts
  <2> QED BY ONLY Zenon, <1>2, <2>2, <2>3, <2>5
<1>11. CASE s = "colors" /\ d.name = "rival3_gen2"
  <2>1. Packets(d, s, c) = r3g2_apply("colors", c) BY Zenon, <1>11, Routed
  <2>2. Packets(d, s, c) = r3g2_apply_colors(c) BY Zenon, <2>1, Gen2Apply
  <2>3. r3g2_apply_colors(c) = a \o b \o l \o e BY ONLY SMT DEF r3g2_apply_colors
  <2> HIDE DEF a, b, l, e
  <2>4. IsSeq(a \o b \o l \o e) BY ONLY Zenon, <1>9, SeqParts
  <2> QED BY ONLY Zenon, <1>2, <2>2, <2>3, <2>4
<1>12. s = "colors" => d.name # "aerox3_bt" BY ONLY <1>0, StepNames, s \in Range(d.steps)
<1>13. s = "brightness" /\ d.name # "rival3" => OneShows(d, s, c) BY Zenon, BrightnessFull
<1>14. /\ s = "polling" => OneShows(d, s, c)
       /\ s = "buttons" => OneShows(d, s, c)
       /\ s = "sleep" => OneShows(d, s, c)
  BY Zenon, PollingFull, ButtonsFull, SleepFull
<1>15. s = "dpi" /\ d.name # "rival600" => OneShows(d, s, c) BY Zenon, DpiFull
<1>16. "colors" \in Lighting /\ "brightness" \in Lighting BY DEF Lighting
<1> QED BY ONLY Zenon, <1>0, <1>1, <1>3, <1>4, <1>5, <1>6, <1>7, <1>8, <1>10, <1>11, <1>12, <1>13, <1>14, <1>15, <1>16

LEMMA RemainsAll ==
    ASSUME NEW d, NEW c, Drv(d, c), NEW s \in Range(d.steps)
    PROVE  /\ Len(Packets(d, s, c)) \in Nat /\ DOMAIN Packets(d, s, c) = 1..Len(Packets(d, s, c))
           /\ Remains(Packets(d, s, c), 0, Packets(d, s, c)) /\ \A x : Reached(Packets(d, s, c), 0, x)
<1> DEFINE p == Packets(d, s, c)
<1>1. PICK S : p \in Seq(S) BY ONLY PacketsSeq, Drv(d, c), s \in Range(d.steps)
<1> HIDE DEF p
<1>2. Len(p) \in Nat /\ DOMAIN p = 1..Len(p) BY ONLY <1>1, LenProperties
<1>3. Len(p) = Len(p) - 0 /\ \A i \in 1..Len(p) : 0 + i = i BY ONLY <1>2
<1>4. Remains(p, 0, p) BY ONLY <1>1, <1>3 DEF Remains
<1>5. \A x : Reached(p, 0, x) BY ONLY SMT DEF Reached
<1> QED BY ONLY <1>2, <1>4, <1>5 DEF p

LEMMA RemainsTail ==
    ASSUME NEW p, Len(p) \in Nat, NEW k \in 0..Len(p), NEW l, Remains(p, k, l), l # <<>>
    PROVE  k \in 0..(Len(p) - 1) /\ Head(l) = p[k + 1] /\ Remains(p, k + 1, Tail(l))
<1>1. PICK S : l \in Seq(S) BY DEF Remains
<1>2. Len(l) = Len(p) - k /\ \A i \in 1..Len(l) : l[i] = p[k + i] BY DEF Remains
<1>3. Len(l) \in Nat \ {0} BY ONLY <1>1, EmptySeq, l # <<>>
<1>4. /\ Head(l) = l[1] /\ Tail(l) \in Seq(S) /\ Len(Tail(l)) = Len(l) - 1
      /\ \A i \in 1..Len(Tail(l)) : Tail(l)[i] = l[i + 1] BY ONLY <1>1, HeadTailProperties, l # <<>>
<1>5. k \in Int /\ Len(p) \in Int OBVIOUS
<1>6. Len(Tail(l)) = Len(p) - (k + 1) /\ Len(Tail(l)) \in Int BY ONLY <1>2, <1>3, <1>4, <1>5
<1>7. ASSUME NEW i \in 1..Len(Tail(l)) PROVE Tail(l)[i] = p[(k + 1) + i]
  <2>1. i + 1 \in 1..Len(l) /\ k + (i + 1) = (k + 1) + i BY ONLY <1>3, <1>4, <1>5, <1>7
  <2> QED BY ONLY <1>2, <1>4, <1>7, <2>1
<1>8. Remains(p, k + 1, Tail(l)) BY ONLY <1>4, <1>6, <1>7 DEF Remains
<1>9. Head(l) = p[k + 1] BY ONLY <1>2, <1>3, <1>4
<1>10. k \in 0..(Len(p) - 1) BY ONLY <1>2, <1>3, <1>5, k \in 0..Len(p)
<1> QED BY ONLY <1>8, <1>9, <1>10

LEMMA RemainsNone ==
    ASSUME NEW p, Len(p) \in Nat
    PROVE  Remains(p, Len(p), <<>>) /\ \A k \in 0..Len(p) : Remains(p, k, <<>>) => k = Len(p)
<1>1. Len(<<>>) = 0 /\ <<>> \in Seq({}) BY ONLY EmptySeq
<1> DEFINE e == <<>>
<1> HIDE DEF e
<1>2. Len(e) = 0 /\ e \in Seq({}) BY ONLY <1>1 DEF e
<1>3. Remains(p, Len(p), e) BY ONLY <1>2, Len(p) \in Nat DEF Remains
<1>4. \A k \in 0..Len(p) : Remains(p, k, e) => k = Len(p) BY ONLY <1>2, Len(p) \in Nat DEF Remains
<1> QED BY ONLY <1>3, <1>4 DEF e

-----------------------------------------------------------------------------

LEMMA Bound ==
    ASSUME Setting
    PROVE  Drv(drv, cfg) /\ Drv(drv, base)
  BY RegistryAssumption DEF Setting, Own, Drv

\* A queue that was just filled.
LEMMA JustPushed ==
    ASSUME NEW c, Drv(drv, c), NEW steps \in Seq(Steps), NEW x
    PROVE  /\ Underway(drv, Push(steps, c), c, x)
           /\ \A s : Pending(Push(steps, c), s) <=> s \in Range(steps)
<1> DEFINE q == Push(steps, c)
<1>1. q = [i \in DOMAIN steps |-> [step |-> steps[i], left |-> Packets(drv, steps[i], c), nack |-> FALSE]] BY ONLY SMT DEF Push
<1>2. DOMAIN steps = 1..Len(steps) /\ Len(steps) \in Nat BY ONLY LenProperties, steps \in Seq(Steps)
<1>3. \A i \in DOMAIN steps : steps[i] \in Steps BY ONLY <1>2, ElementOfSeq, steps \in Seq(Steps)
<1>4. DOMAIN q = DOMAIN steps /\ \A i \in DOMAIN steps : q[i].step = steps[i] /\ q[i].left = Packets(drv, steps[i], c) /\ q[i].nack = FALSE
  BY ONLY <1>1
<1>5. q # <<>> => 1 \in DOMAIN steps
  <2>1. steps = <<>> => q = <<>> BY Pushed
  <2>2. steps # <<>> => Len(steps) # 0 BY ONLY EmptySeq, steps \in Seq(Steps)
  <2> QED BY ONLY <1>2, <2>1, <2>2
<1> HIDE DEF q
<1>6. ASSUME q # <<>> PROVE Issued(Packets(drv, q[1].step, c), q[1], x)
  <2>1. q[1].step = steps[1] /\ q[1].left = Packets(drv, steps[1], c) /\ steps[1] \in Range(drv.steps)
    BY ONLY <1>3, <1>4, <1>5, <1>6 DEF Steps
  <2> DEFINE p == Packets(drv, steps[1], c)
  <2>2. Len(p) \in Nat /\ Remains(p, 0, p) /\ Reached(p, 0, x) BY ONLY <2>1, RemainsAll, Drv(drv, c)
  <2>3. q[1].step = steps[1] /\ q[1].left = p BY ONLY <2>1
  <2> HIDE DEF p
  <2>4. 0 \in 0..Len(p) BY ONLY <2>2
  <2>5. Issued(p, q[1], x) BY ONLY Zenon, <2>2, <2>3, <2>4 DEF Issued
  <2> QED BY ONLY <2>3, <2>5 DEF p
<1>7. \A i \in DOMAIN q : i > 1 => q[i].left = Packets(drv, q[i].step, c) /\ ~q[i].nack BY ONLY <1>4
<1>8. Underway(drv, q, c, x) BY ONLY <1>6, <1>7 DEF Underway
<1>9. ASSUME NEW s PROVE Pending(q, s) <=> s \in Range(steps) BY ONLY <1>4 DEF Pending, Range
<1> QED BY ONLY <1>8, <1>9 DEF q

LEMMA NonePending ==
    ASSUME NEW d, NEW c, NEW x
    PROVE  Underway(d, <<>>, c, x) /\ \A s : ~Pending(<<>>, s)
<1>1. DOMAIN <<>> = {} OBVIOUS
<1> QED BY ONLY Zenon, <1>1 DEF Underway, Pending

\* A packet that leaves the queue.
LEMMA Sent ==
    ASSUME Setting, Queued(queue), queue # <<>>, queue[1].left # <<>>, Showing(drv, queue, cfg, want, dev),
           DOMAIN want \subseteq Steps,
           NEW y, NEW e, DOMAIN e = Entry, e.step = queue[1].step,
           \/ e.nack = queue[1].nack /\ e.left = Tail(queue[1].left) /\ y = Take(drv, dev, Head(queue[1].left))
           \/ e.nack = TRUE /\ e.left \in {<<>>, Tail(queue[1].left)} /\ y \in {dev, Take(drv, dev, Head(queue[1].left))}
    PROVE  /\ Showing(drv, [queue EXCEPT ![1] = e], cfg, want, y)
           /\ \A s : Pending([queue EXCEPT ![1] = e], s) <=> Pending(queue, s)
<1> DEFINE r == [queue EXCEPT ![1] = e]
           h == queue[1].step
           p == Packets(drv, h, cfg)
           q == Head(queue[1].left)
<1>0. Drv(drv, cfg) BY Bound
<1>1. /\ Underway(drv, queue, cfg, dev) /\ Resting(drv, queue, want, dev) /\ Alike(queue, want, cfg) BY DEF Showing
<1>2. h \in Steps /\ DOMAIN queue = 1..Len(queue) /\ Len(queue) \in Nat \ {0} BY QueueTail
<1>3. /\ DOMAIN r = DOMAIN queue /\ r # <<>> /\ \A i \in DOMAIN queue : r[i].step = queue[i].step BY QueueHead
<1>4. r[1] = e /\ \A i \in DOMAIN queue : i > 1 => r[i] = queue[i] BY ONLY <1>2
<1> HIDE DEF r
<1>5. /\ Len(p) \in Nat /\ DOMAIN p = 1..Len(p) BY ONLY <1>0, <1>2, RemainsAll DEF Steps
<1> DEFINE l == queue[1].left
<1>6. PICK k \in 0..Len(p) : Remains(p, k, l) /\ (~queue[1].nack => Reached(p, k, dev))
  BY ONLY <1>1, queue # <<>> DEF Underway, Issued
<1> HIDE DEF p
<1>7. k \in 0..(Len(p) - 1) /\ q = p[k + 1] /\ Remains(p, k + 1, Tail(l)) BY ONLY <1>5, <1>6, RemainsTail, queue[1].left # <<>>
<1>8. \A s : Pending(r, s) <=> Pending(queue, s) BY ONLY <1>3 DEF Pending
<1>9. Issued(p, e, y)
  <2>1. CASE e.nack = queue[1].nack /\ e.left = Tail(l) /\ y = Take(drv, dev, q)
    <3>1. Orderly(p) BY ONLY <1>0, <1>2, StepShown DEF p, Full, Steps
    <3>2. ~e.nack => Reached(p, k + 1, y) BY ONLY <1>6, <1>7, <2>1, <3>1, ReachedNext
    <3>3. k + 1 \in 0..Len(p) BY ONLY <1>5, <1>7
    <3> QED BY ONLY Zenon, <1>7, <2>1, <3>2, <3>3 DEF Issued
  <2>2. CASE e.nack = TRUE /\ e.left = Tail(l)
    <3>3. k + 1 \in 0..Len(p) BY ONLY <1>5, <1>7
    <3> QED BY ONLY Zenon, <1>7, <2>2, <3>3 DEF Issued
  <2>3. CASE e.nack = TRUE /\ e.left = <<>>
    <3>1. Remains(p, Len(p), <<>>) /\ Len(p) \in 0..Len(p) BY ONLY <1>5, RemainsNone
    <3> QED BY ONLY Zenon, <2>3, <3>1 DEF Issued
  <2> QED BY ONLY <2>1, <2>2, <2>3,
           \/ e.nack = queue[1].nack /\ e.left = Tail(queue[1].left) /\ y = Take(drv, dev, Head(queue[1].left))
           \/ e.nack = TRUE /\ e.left \in {<<>>, Tail(queue[1].left)} /\ y \in {dev, Take(drv, dev, Head(queue[1].left))}
<1>10. Underway(drv, r, cfg, y)
  <2>1. Issued(Packets(drv, r[1].step, cfg), r[1], y) BY ONLY <1>4, <1>9, e.step = queue[1].step DEF p
  <2>2. \A i \in DOMAIN queue : i > 1 => queue[i].left = Packets(drv, queue[i].step, cfg) /\ ~queue[i].nack
    BY ONLY <1>1 DEF Underway
  <2>3. \A i \in DOMAIN r : i > 1 => r[i].left = Packets(drv, r[i].step, cfg) /\ ~r[i].nack BY ONLY <1>3, <1>4, <2>2
  <2> QED BY ONLY <2>1, <2>3 DEF Underway
<1>11. Alike(r, want, cfg) BY ONLY <1>1, <1>8 DEF Alike
<1>12. Resting(drv, r, want, y)
  <2>1. SUFFICES ASSUME NEW t \in DOMAIN want, ~Redone(drv, r, t) PROVE Shown(drv, t, want[t], y) BY DEF Resting
  <2>2. ~Redone(drv, queue, t) BY ONLY <1>8, <2>1 DEF Redone
  <2>3. Shown(drv, t, want[t], dev) BY ONLY <1>1, <2>2, t \in DOMAIN want DEF Resting
  <2>4. Pending(queue, h)
    <3>1. 1 \in DOMAIN queue BY ONLY <1>2
    <3> QED BY ONLY <3>1 DEF Pending
  <2>5. t # h /\ ~Pending(queue, t) BY ONLY <2>2, <2>4 DEF Redone
  <2>6. ~Undone(drv, h, t, want[t], cfg) BY ONLY <1>1, <2>2, <2>4, <2>5, t \in DOMAIN want DEF Redone, Undone, Alike
  <2>7. t \in Range(drv.steps) /\ h \in Range(drv.steps) BY ONLY <1>2, t \in DOMAIN want, DOMAIN want \subseteq Steps DEF Steps
  <2>8. k + 1 \in DOMAIN p BY ONLY <1>5, <1>7
  <2>9. Shown(drv, t, want[t], Take(drv, dev, p[k + 1]))
    BY ONLY <1>0, <2>3, <2>5, <2>6, <2>7, <2>8, StepKeeps DEF p
  <2>10. y = dev \/ y = Take(drv, dev, q)
    BY ONLY \/ e.nack = queue[1].nack /\ e.left = Tail(queue[1].left) /\ y = Take(drv, dev, Head(queue[1].left))
            \/ e.nack = TRUE /\ e.left \in {<<>>, Tail(queue[1].left)} /\ y \in {dev, Take(drv, dev, Head(queue[1].left))}
  <2> HIDE DEF q
  <2> QED BY ONLY <1>7, <2>3, <2>9, <2>10
<1> QED BY ONLY <1>8, <1>10, <1>11, <1>12 DEF Showing, r

LEMMA TailIs ==
    ASSUME NEW q, Queued(q), q # <<>>
    PROVE  /\ DOMAIN Tail(q) = 1..(Len(q) - 1) /\ Len(q) \in Nat \ {0} /\ DOMAIN q = 1..Len(q)
           /\ \A i \in 1..(Len(q) - 1) : Tail(q)[i] = q[i + 1]
<1>1. PICK S : q \in Seq(S) BY DEF Queued
<1>2. Len(q) \in Nat \ {0} /\ DOMAIN q = 1..Len(q) BY QueueTail
<1>3. /\ Tail(q) \in Seq(S) /\ Len(Tail(q)) = Len(q) - 1
      /\ \A i \in 1..Len(Tail(q)) : Tail(q)[i] = q[i + 1]
  BY ONLY <1>1, HeadTailProperties, q # <<>>
<1>4. DOMAIN Tail(q) = 1..Len(Tail(q)) BY ONLY <1>3, LenProperties
<1> QED BY ONLY <1>2, <1>3, <1>4

LEMMA TailPending ==
    ASSUME NEW q, Queued(q), q # <<>>, NEW s
    PROVE  Pending(q, s) <=> s = q[1].step \/ Pending(Tail(q), s)
<1>1. /\ DOMAIN Tail(q) = 1..(Len(q) - 1) /\ Len(q) \in Nat \ {0} /\ DOMAIN q = 1..Len(q)
      /\ \A i \in 1..(Len(q) - 1) : Tail(q)[i] = q[i + 1] BY ONLY TailIs, Queued(q), q # <<>>
<1>2. 1 \in DOMAIN q BY ONLY <1>1
<1>3. ASSUME NEW i \in DOMAIN q, q[i].step = s, s # q[1].step PROVE Pending(Tail(q), s)
  <2>1. i - 1 \in 1..(Len(q) - 1) /\ (i - 1) + 1 = i
    <3>1. i # 1 BY ONLY <1>3
    <3> QED BY ONLY <1>1, <3>1, i \in DOMAIN q
  <2>2. Tail(q)[i - 1] = q[i] BY ONLY <1>1, <2>1
  <2> QED BY ONLY <1>1, <1>3, <2>1, <2>2 DEF Pending
<1>4. ASSUME NEW i \in DOMAIN Tail(q), Tail(q)[i].step = s PROVE Pending(q, s)
  <2>1. i + 1 \in DOMAIN q /\ Tail(q)[i] = q[i + 1] BY ONLY <1>1, i \in DOMAIN Tail(q)
  <2> QED BY ONLY <1>4, <2>1 DEF Pending
<1> QED BY ONLY Zenon, <1>2, <1>3, <1>4 DEF Pending

\* A step that all packets of were sent.
LEMMA Acknowledged ==
    ASSUME Setting, Queued(queue), queue # <<>>, queue[1].left = <<>>, Showing(drv, queue, cfg, want, dev),
           DOMAIN want \subseteq Steps, NEW h, h = queue[1].step, NEW w,
           w = IF queue[1].nack THEN [x \in DOMAIN want \ (IF h \in Lighting THEN Lighting ELSE {h}) |-> want[x]]
                                ELSE [x \in DOMAIN want \cup {h} |-> IF x = h THEN cfg ELSE want[x]]
    PROVE  Showing(drv, Tail(queue), cfg, w, dev)
<1> DEFINE r == Tail(queue)
           p == Packets(drv, h, cfg)
           lost == [x \in DOMAIN want \ (IF h \in Lighting THEN Lighting ELSE {h}) |-> want[x]]
           kept == [x \in DOMAIN want \cup {h} |-> IF x = h THEN cfg ELSE want[x]]
<1>w. w = IF queue[1].nack THEN lost ELSE kept OBVIOUS
<1>0. Drv(drv, cfg) BY Bound
<1>1. /\ Underway(drv, queue, cfg, dev) /\ Resting(drv, queue, want, dev) /\ Alike(queue, want, cfg) BY DEF Showing
<1>2. h \in Steps /\ h \in Range(drv.steps) BY QueueTail DEF Steps
<1>3. /\ DOMAIN r = 1..(Len(queue) - 1) /\ Len(queue) \in Nat \ {0} /\ DOMAIN queue = 1..Len(queue)
      /\ \A i \in 1..(Len(queue) - 1) : r[i] = queue[i + 1] BY TailIs
<1>4. \A s : Pending(queue, s) <=> s = h \/ Pending(r, s) BY TailPending
<1>5. Queued(r) BY QueueTail
<1> HIDE DEF r
<1>6. Underway(drv, r, cfg, dev)
  <2>1. \A i \in DOMAIN queue : i > 1 => queue[i].left = Packets(drv, queue[i].step, cfg) /\ ~queue[i].nack
    BY ONLY <1>1 DEF Underway
  <2>2. \A i \in DOMAIN r : r[i].left = Packets(drv, r[i].step, cfg) /\ ~r[i].nack
    <3>1. SUFFICES ASSUME NEW i \in DOMAIN r PROVE r[i].left = Packets(drv, r[i].step, cfg) /\ ~r[i].nack OBVIOUS
    <3>2. i + 1 \in DOMAIN queue /\ i + 1 > 1 /\ r[i] = queue[i + 1] BY ONLY <1>3, i \in DOMAIN r
    <3> QED BY ONLY <2>1, <3>2
  <2>3. ASSUME r # <<>> PROVE Issued(Packets(drv, r[1].step, cfg), r[1], dev)
    <3>1. 1 \in DOMAIN r /\ r[1].step \in Steps
      <4>1. Len(r) \in Nat \ {0} /\ DOMAIN r = 1..Len(r) /\ r[1].step \in Steps BY ONLY <1>5, <2>3, QueueTail
      <4> QED BY ONLY <4>1
    <3> DEFINE g == r[1].step
               m == Packets(drv, g, cfg)
    <3>2. Len(m) \in Nat /\ Remains(m, 0, m) /\ Reached(m, 0, dev) BY ONLY <1>0, <3>1, RemainsAll DEF Steps
    <3>3. r[1].left = m BY ONLY <2>2, <3>1
    <3> HIDE DEF m
    <3>4. 0 \in 0..Len(m) BY ONLY <3>2
    <3>5. Issued(m, r[1], dev) BY ONLY Zenon, <3>2, <3>3, <3>4 DEF Issued
    <3> QED BY ONLY <3>5 DEF m
  <2> QED BY ONLY <2>2, <2>3 DEF Underway
<1>7. CASE queue[1].nack
  <2>1. w = lost BY ONLY <1>7, <1>w
  <2>2. ASSUME NEW t \in DOMAIN w PROVE t \in DOMAIN want /\ w[t] = want[t] /\ t # h /\ ~({t, h} \subseteq Lighting)
    BY ONLY <2>1, t \in DOMAIN w
  <2>3. Alike(r, w, cfg)
    <3>1. ASSUME NEW t \in DOMAIN w, ~Pending(r, t) PROVE t \in DOMAIN want /\ w[t] = want[t] /\ ~Pending(queue, t)
      BY ONLY <1>4, <2>2, <3>1
    <3> QED BY ONLY Zenon, <1>1, <3>1 DEF Alike
  <2>4. Resting(drv, r, w, dev)
    <3>1. SUFFICES ASSUME NEW t \in DOMAIN w, ~Redone(drv, r, t) PROVE Shown(drv, t, w[t], dev) BY DEF Resting
    <3>2. t \in DOMAIN want /\ w[t] = want[t] /\ t # h /\ ~({t, h} \subseteq Lighting) BY ONLY <2>2, t \in DOMAIN w
    <3>3. ~Redone(drv, queue, t)
      <4>1. "colors" \in Lighting /\ "brightness" \in Lighting BY DEF Lighting
      <4> QED BY ONLY <1>4, <3>1, <3>2, <4>1 DEF Redone
    <3> QED BY ONLY <1>1, <3>2, <3>3 DEF Resting
  <2> QED BY ONLY <1>6, <2>3, <2>4 DEF Showing, r
<1>8. CASE ~queue[1].nack
  <2>1. w = kept BY ONLY <1>8, <1>w
  <2>2. \A t \in DOMAIN w : (t = h /\ w[t] = cfg) \/ (t # h /\ t \in DOMAIN want /\ w[t] = want[t]) BY ONLY <2>1
  <2>3. Alike(r, w, cfg)
    <3>1. ASSUME NEW t \in DOMAIN w, ~Pending(r, t) PROVE w[t] = cfg \/ (t \in DOMAIN want /\ w[t] = want[t] /\ ~Pending(queue, t))
      BY ONLY <1>4, <2>2, <3>1
    <3>2. ASSUME "colors" \in DOMAIN w, ~Pending(r, "colors") PROVE w["colors"].color = cfg.color /\ w["colors"].fx = cfg.fx
      BY ONLY <1>1, <3>1, <3>2 DEF Alike
    <3>3. ASSUME "brightness" \in DOMAIN w, ~Pending(r, "brightness") PROVE w["brightness"].bright = cfg.bright
      BY ONLY <1>1, <3>1, <3>3 DEF Alike
    <3> QED BY ONLY <3>2, <3>3 DEF Alike
  <2>4. Reached(p, Len(p), dev)
    <3>1. Len(p) \in Nat BY ONLY <1>0, <1>2, RemainsAll
    <3>2. PICK k \in 0..Len(p) : Remains(p, k, queue[1].left) /\ (~queue[1].nack => Reached(p, k, dev))
      BY ONLY <1>1, queue # <<>>, h = queue[1].step DEF Underway, Issued
    <3>3. Remains(p, k, <<>>) /\ Reached(p, k, dev) BY ONLY <1>8, <3>2, queue[1].left = <<>>
    <3> HIDE DEF p
    <3>4. k = Len(p) BY ONLY <3>1, <3>3, RemainsNone
    <3> QED BY ONLY <3>3, <3>4
  <2>5. Shown(drv, h, cfg, dev) BY ONLY <1>0, <1>2, <2>4, StepShown DEF Full
  <2>6. Resting(drv, r, w, dev)
    <3>1. SUFFICES ASSUME NEW t \in DOMAIN w, ~Redone(drv, r, t) PROVE Shown(drv, t, w[t], dev) BY DEF Resting
    <3>2. CASE t = h BY ONLY <2>2, <2>5, <3>2, t \in DOMAIN w
    <3>3. CASE t # h /\ ~Redone(drv, queue, t)
      <4>1. t \in DOMAIN want /\ w[t] = want[t] BY ONLY <2>2, <3>3, t \in DOMAIN w
      <4> QED BY ONLY <1>1, <3>3, <4>1 DEF Resting
    <3>4. CASE t # h /\ Redone(drv, queue, t)
      <4>1. t \in DOMAIN want /\ w[t] = want[t] BY ONLY <2>2, <3>4, t \in DOMAIN w
      <4>2. ~Pending(queue, t) /\ drv.name = "rival3" /\ t = "colors" /\ h = "brightness"
        BY ONLY <1>4, <3>1, <3>4 DEF Redone
      <4>3. want[t].color = cfg.color /\ want[t].fx = cfg.fx BY ONLY <1>1, <4>1, <4>2 DEF Alike
      <4>4. h \in Lighting BY ONLY <4>2 DEF Lighting
      <4>5. p = r3_apply_colors(cfg) /\ Len(r3_apply_colors(cfg)) = 5
        <5>1. p = r3_apply_colors(cfg) BY ONLY <1>0, <4>2, <4>4, R3Full
        <5>2. Len(r3_apply_colors(cfg)) = 5 BY ONLY R3Packets
        <5> QED BY ONLY <5>1, <5>2
      <4> HIDE DEF p
      <4>6. Reached(r3_apply_colors(cfg), 5, dev) BY ONLY <2>4, <4>5
      <4>7. Shown(drv, "colors", cfg, dev) BY ONLY <1>0, <4>2, <4>4, <4>6, R3Full
      <4>8. Shown(drv, "colors", want[t], dev)
        <5>1. Reads(drv, "colors", cfg, dev) /\ Registers(drv, "colors") \subseteq DOMAIN dev
              /\ \E x \in DOMAIN dev : x[1] = Where(drv, "colors") BY ONLY <4>7, ShownIs
        <5>2. ShowsColors(drv, cfg, dev) BY ONLY <5>1, ReadsIs
        <5>3. ShowsColors(drv, want[t], dev) BY ONLY Zenon, <4>2, <4>3, <5>2 DEF ShowsColors
        <5>4. Reads(drv, "colors", want[t], dev) BY ONLY <5>3, ReadsIs
        <5> QED BY ONLY <5>1, <5>4, ShownIs
      <4> QED BY ONLY <4>1, <4>2, <4>8
    <3> QED BY ONLY <3>2, <3>3, <3>4
  <2> QED BY ONLY <1>6, <2>3, <2>6 DEF Showing, r
<1> QED BY ONLY <1>7, <1>8

-----------------------------------------------------------------------------
LEMMA PushesOne == ASSUME NEW s, NEW c PROVE Pending(Push(<<s>>, c), s)
<1> DEFINE l == <<s>>
<1>1. DOMAIN l = {1} /\ l[1] = s OBVIOUS
<1> HIDE DEF l
<1>2. DOMAIN Push(l, c) = DOMAIN l /\ \A i \in DOMAIN l : Push(l, c)[i].step = l[i] BY ONLY SMT DEF Push
<1>3. Pending(Push(l, c), s) BY ONLY <1>1, <1>2 DEF Pending
<1> QED BY ONLY <1>3 DEF l

\* An edit of the lights pushes them.
LEMMA EditLights ==
    ASSUME Setting, EditAny
    PROVE  /\ Pending(queue', "colors") \/ (cfg'.color = cfg.color /\ cfg'.fx = cfg.fx)
           /\ Pending(queue', "brightness") \/ cfg'.bright = cfg.bright
<1> DEFINE Lights == cfg'.color = cfg.color /\ cfg'.fx = cfg.fx /\ cfg'.bright = cfg.bright
<1>1. DOMAIN cfg = Fields BY DEF Setting, Own, Config
<1>2. ASSUME NEW c, NEW s, Edit(c, <<s>>) PROVE cfg' = c /\ Pending(queue', s)
  <2>1. cfg' = c /\ queue' = Push(<<s>>, c) BY ONLY <1>2 DEF Edit
  <2> QED BY ONLY <2>1, PushesOne
<1>a. ASSUME NEW k \in Fields \ {"color", "fx", "bright"}, NEW v, NEW s, Edit([cfg EXCEPT ![k] = v], <<s>>)
      PROVE  Lights
  <2>1. cfg' = [cfg EXCEPT ![k] = v] BY ONLY <1>2, <1>a
  <2> QED BY ONLY <1>1, <2>1, k \in Fields \ {"color", "fx", "bright"} DEF Fields
<1>3. CASE EditZone
  <2>1. ASSUME NEW k \in {"color", "fx", "param"}, NEW v, NEW z,
               Edit(sync_global_fx(drv, [cfg EXCEPT ![k] = v], z), <<"colors">>)
        PROVE  Pending(queue', "colors") /\ cfg'.bright = cfg.bright
    <3> DEFINE c == [cfg EXCEPT ![k] = v]
    <3>1. c.bright = cfg.bright /\ DOMAIN c = Fields BY ONLY <1>1, k \in {"color", "fx", "param"} DEF Fields
    <3>2. cfg' = sync_global_fx(drv, c, z) /\ Pending(queue', "colors") BY ONLY <1>2, <2>1
    <3> HIDE DEF c
    <3>3. sync_global_fx(drv, c, z).bright = c.bright BY ONLY <3>1 DEF sync_global_fx, Fields
    <3> QED BY ONLY <3>1, <3>2, <3>3
  <2> QED BY ONLY <1>3, <2>1 DEF EditZone
<1>4. CASE EditBrightness
  <2> DEFINE c == [cfg EXCEPT !.bright = 37]
  <2>1. Edit(c, <<"brightness">>) BY ONLY <1>4 DEF EditBrightness
  <2>2. c.color = cfg.color /\ c.fx = cfg.fx BY ONLY <1>1 DEF Fields
  <2> HIDE DEF c
  <2> QED BY ONLY <1>2, <2>1, <2>2
<1>5. CASE EditRate BY ONLY <1>5, <1>a DEF EditRate, Fields
<1>6. CASE dpi_set BY ONLY <1>6, <1>a DEF dpi_set, Fields
<1>7. CASE dpi_create
  <2> DEFINE v == Snapped(cfg.dpi[cfg.count][1] * 2)
             c == [cfg EXCEPT !.dpi[cfg.count + 1] = <<v, v>>, !.count = @ + 1]
  <2>1. Edit(c, <<"dpi">>) BY ONLY Zenon, <1>7 DEF dpi_create
  <2> HIDE DEF v
  <2>2. c.color = cfg.color /\ c.fx = cfg.fx /\ c.bright = cfg.bright BY ONLY <1>1 DEF Fields
  <2> HIDE DEF c
  <2> QED BY ONLY <1>2, <2>1, <2>2
<1>8. CASE dpi_activate BY ONLY <1>8, <1>a DEF dpi_activate, Fields
<1>9. CASE button_activate BY ONLY <1>9, <1>a DEF button_activate, Fields
<1>10. CASE EditPower BY ONLY <1>10, <1>a DEF EditPower, Fields
<1>11. CASE accel_set
  <2>1. cfg' = [cfg EXCEPT !.acceleration = 100] BY ONLY <1>11 DEF accel_set, Edit
  <2> QED BY ONLY <1>1, <2>1 DEF Fields
<1> QED BY ONLY EditAny, <1>3, <1>4, <1>5, <1>6, <1>7, <1>8, <1>9, <1>10, <1>11 DEF EditAny

-----------------------------------------------------------------------------
\* Nothing was sent or asked for,
LEMMA ShownStill ==
    ASSUME ShownInv, UNCHANGED <<drv, dev, cfg, queue, want>>, pc' \in {"parse", "bind"} => pc \in {"parse", "bind"}
    PROVE  ShownInv'
  BY Zenon DEF ShownInv

\* nothing was acknowledged yet,
LEMMA ShownNothing ==
    ASSUME queue' = <<>>, want' = <<>>
    PROVE  ShownInv'
<1>1. \A d, c, x : Underway(d, <<>>, c, x) BY NonePending
<1>2. DOMAIN <<>> = {} OBVIOUS
<1>3. \A d, q, x : Resting(d, q, <<>>, x) BY ONLY Zenon, <1>2 DEF Resting
<1>4. \A q, c : Alike(q, <<>>, c) BY ONLY Zenon, <1>2 DEF Alike
<1> QED BY ONLY Zenon, queue' = <<>>, want' = <<>>, <1>1, <1>3, <1>4 DEF ShownInv, Showing

\* a queue was filled before anything was acknowledged,
LEMMA ShownFilled ==
    ASSUME Drv(drv, cfg'), NEW steps \in Seq(Steps), queue' = Push(steps, cfg'), want' = <<>>, drv' = drv
    PROVE  ShownInv'
<1>1. Underway(drv, queue', cfg', dev') BY JustPushed
<1>2. DOMAIN <<>> = {} OBVIOUS
<1>3. \A d, q, x : Resting(d, q, <<>>, x) BY ONLY Zenon, <1>2 DEF Resting
<1>4. \A q, c : Alike(q, <<>>, c) BY ONLY Zenon, <1>2 DEF Alike
<1> QED BY ONLY Zenon, drv' = drv, want' = <<>>, <1>1, <1>3, <1>4 DEF ShownInv, Showing

\* or with every step there is.
LEMMA ShownAgain ==
    ASSUME Setting, Drv(drv, cfg'), queue' = Push(drv.steps, cfg'), want' = want, DOMAIN want \subseteq Steps, drv' = drv,
           pc' \notin {"parse", "bind"}
    PROVE  ShownInv'
<1>1. drv.steps \in Seq(Steps) BY StepTables DEF Setting
<1>2. Underway(drv, queue', cfg', dev') /\ \A s : Pending(queue', s) <=> s \in Range(drv.steps) BY <1>1, JustPushed
<1>3. \A s \in DOMAIN want : Pending(queue', s) BY ONLY <1>2, DOMAIN want \subseteq Steps DEF Steps
<1>4. Resting(drv, queue', want, dev') BY ONLY Zenon, <1>3 DEF Resting, Redone
<1>5. Alike(queue', want, cfg') BY ONLY Zenon, <1>3 DEF Alike
<1> QED BY ONLY Zenon, <1>2, <1>4, <1>5, drv' = drv, want' = want, pc' \notin {"parse", "bind"} DEF ShownInv, Showing

\* An edit pushes what it changed of the lights.
LEMMA ShownEdit ==
    ASSUME Ready, ShownInv, Setting', EditAny
    PROVE  ShownInv'
<1>1. /\ pc = "session" /\ queue = <<>> /\ pc' = pc /\ drv' = drv /\ dev' = dev /\ want' = want
      /\ \E steps \in Seq(Steps) : queue' = Push(steps, cfg')
  BY EditOnly DEF Ready
<1>2. PICK steps \in Seq(Steps) : queue' = Push(steps, cfg') BY ONLY <1>1
<1>3. Drv(drv, cfg')
  <2>1. Drv(drv', cfg') BY RegistryAssumption DEF Setting, Own, Drv
  <2> QED BY ONLY <1>1, <2>1
<1>4. Underway(drv, queue', cfg', dev) BY <1>2, <1>3, JustPushed
<1>5. \A s : ~Pending(queue, s) /\ ~Redone(drv, queue, s)
  <2>1. \A s : ~Pending(queue, s) BY <1>1, NonePending
  <2> QED BY ONLY Zenon, <2>1 DEF Redone
<1>6. Resting(drv, queue, want, dev) /\ Alike(queue, want, cfg) BY DEF ShownInv, Showing
<1>7. Resting(drv, queue', want, dev) BY ONLY Zenon, <1>5, <1>6 DEF Resting
<1>8. Alike(queue', want, cfg')
  <2>1. /\ Pending(queue', "colors") \/ (cfg'.color = cfg.color /\ cfg'.fx = cfg.fx)
        /\ Pending(queue', "brightness") \/ cfg'.bright = cfg.bright BY EditLights DEF Ready
  <2> QED BY ONLY <1>5, <1>6, <2>1 DEF Alike
<1>9. pc' \notin {"parse", "bind"} BY ONLY <1>1
<1> QED BY ONLY Zenon, <1>1, <1>4, <1>7, <1>8, <1>9 DEF ShownInv, Showing

\* A packet leaves the queue, or a step that has none left.
LEMMA ShownSend ==
    ASSUME Ready, ShownInv, Send \/ SendFails \/ StepDone
    PROVE  ShownInv'
<1>0. Setting /\ Queued(queue) /\ DOMAIN want \subseteq Steps /\ Showing(drv, queue, cfg, want, dev) BY DEF Ready, Queueing, ShownInv
<1>1. queue # <<>> /\ UNCHANGED <<drv, cfg, pc>> BY DEF Send, SendFails, StepDone, pushing
<1>2. pc \notin {"parse", "bind"} BY <1>1 DEF Ready, Queueing
<1>3. DOMAIN queue[1] = Entry /\ 1 \in DOMAIN queue BY <1>0, <1>1, QueueTail
<1>4. ASSUME Showing(drv, queue', cfg, want', dev') PROVE ShownInv' BY ONLY Zenon, <1>1, <1>2, <1>4 DEF ShownInv
<1>5. CASE Send
  <2> DEFINE e == [queue[1] EXCEPT !.left = Tail(@)]
  <2>1. /\ queue[1].left # <<>> /\ want' = want /\ dev' = Take(drv, dev, Head(queue[1].left))
        /\ queue' = [queue EXCEPT ![1] = e]
    BY ONLY <1>5 DEF Send
  <2>2. DOMAIN e = Entry /\ e.step = queue[1].step /\ e.nack = queue[1].nack /\ e.left = Tail(queue[1].left) BY ONLY <1>3 DEF Entry
  <2> HIDE DEF e
  <2>3. Showing(drv, [queue EXCEPT ![1] = e], cfg, want, dev') BY ONLY <1>0, <1>1, <2>1, <2>2, Sent
  <2> QED BY ONLY <1>4, <2>1, <2>3
<1>6. CASE SendFails
  <2> DEFINE e == [queue[1] EXCEPT !.left = IF GivesUp THEN <<>> ELSE Tail(@), !.nack = TRUE]
  <2>1. /\ queue[1].left # <<>> /\ want' = want /\ dev' \in {dev, Take(drv, dev, Head(queue[1].left))}
        /\ queue' = [queue EXCEPT ![1].left = IF GivesUp THEN <<>> ELSE Tail(@), ![1].nack = TRUE]
    BY ONLY <1>6 DEF SendFails
  <2>2. DOMAIN e = Entry /\ e.step = queue[1].step /\ e.nack = TRUE /\ e.left \in {<<>>, Tail(queue[1].left)} BY ONLY <1>3 DEF Entry
  <2>4. queue' = [queue EXCEPT ![1] = e] BY ONLY <1>3, <2>1 DEF Entry
  <2> HIDE DEF e
  <2>3. Showing(drv, [queue EXCEPT ![1] = e], cfg, want, dev') BY ONLY <1>0, <1>1, <2>1, <2>2, Sent
  <2> QED BY ONLY <1>4, <2>1, <2>3, <2>4
<1>7. CASE StepDone
  <2> DEFINE h == queue[1].step
             w == IF queue[1].nack THEN [x \in DOMAIN want \ (IF h \in Lighting THEN Lighting ELSE {h}) |-> want[x]]
                                   ELSE [x \in DOMAIN want \cup {h} |-> IF x = h THEN cfg ELSE want[x]]
  <2>1. queue[1].left = <<>> /\ queue' = Tail(queue) /\ want' = w /\ dev' = dev BY ONLY <1>7 DEF StepDone
  <2>2. Showing(drv, Tail(queue), cfg, w, dev) BY ONLY <1>0, <1>1, <2>1, Acknowledged
  <2> HIDE DEF w
  <2> QED BY ONLY <1>4, <2>1, <2>2
<1> QED BY <1>5, <1>6, <1>7

LEMMA ShownStep ==
    ASSUME Ready, ShownInv, Setting', [Next]_vars
    PROVE  ShownInv'
<1>0. drv' = drv /\ drv \in Driver /\ Setting /\ DOMAIN want \subseteq Steps /\ active \in Seq(Steps)
  BY SameDriver DEF Ready, Queueing, Setting
<1>1. Drv(drv, cfg')
  <2>1. Drv(drv', cfg') BY RegistryAssumption DEF Setting, Own, Drv
  <2> QED BY ONLY <1>0, <2>1
<1>2. pc \in {"shell", "parse", "bind"} => queue = <<>> BY DEF Ready, Queueing
<1>3. pc \in {"parse", "bind"} => want = <<>> BY DEF ShownInv
<1>4. CASE Start
  <2>1. queue' = <<>> /\ want' = <<>> BY ONLY <1>4 DEF Start
  <2> QED BY <2>1, ShownNothing
<1>5. CASE ParseEnds
  <2>1. pc' = "shell" /\ UNCHANGED <<drv, dev, cfg, queue, want>> BY ONLY Zenon, <1>5 DEF ParseEnds, Exit, device, history
  <2> QED BY <2>1, ShownStill
<1>6. CASE ParseOption \/ ParseSave
  <2>1. UNCHANGED <<drv, dev, cfg, queue, want, pc>> BY ONLY Zenon, <1>6 DEF ParseOption, ParseSave, device, history
  <2> QED BY <2>1, ShownStill
<1>7. CASE OpenSession
  <2>1. pc = "parse" /\ queue' = Push(SyncSteps, cfg') /\ want' = want BY ONLY <1>7 DEF OpenSession, history
  <2>2. SyncSteps \in Seq(Steps) BY <1>0, StepTables
  <2> QED BY ONLY <1>0, <1>1, <1>3, <2>1, <2>2, ShownFilled
<1>8. CASE OpenDevice
  <2>1. pc = "parse" /\ UNCHANGED <<drv, dev, cfg, queue, want>> BY ONLY <1>8 DEF OpenDevice, device, history
  <2> QED BY <2>1, ShownStill
<1>9. CASE BindNext
  <2>1. pc = "bind" /\ UNCHANGED <<queue, want>> BY ONLY Zenon, <1>9 DEF BindNext, Exit, history
  <2> QED BY <1>2, <1>3, <2>1, ShownNothing
<1>10. CASE BindDone
  <2>1. pc = "bind" /\ want' = want /\ (queue' = queue \/ (queue' = Push(active, cfg) /\ cfg' = cfg))
    BY ONLY Zenon, <1>10 DEF BindDone, Exit, history
  <2>2. CASE queue' = queue BY <1>2, <1>3, <2>1, <2>2, ShownNothing
  <2>3. CASE queue' = Push(active, cfg) /\ cfg' = cfg
    <3>1. queue' = Push(active, cfg') /\ want' = <<>> BY ONLY <1>3, <2>1, <2>3
    <3> QED BY ONLY <1>0, <1>1, <3>1, ShownFilled
  <2> QED BY ONLY <2>1, <2>2, <2>3
<1>11. CASE Send \/ SendFails \/ StepDone BY <1>11, ShownSend
<1>12. CASE FinishOneShot \/ Leave
  <2>1. pc' = "shell" /\ UNCHANGED <<drv, dev, cfg, queue, want>> BY ONLY <1>12 DEF FinishOneShot, Leave, device, history
  <2> QED BY <2>1, ShownStill
<1>13. CASE EditAny BY <1>13, ShownEdit
<1>14. CASE Save
  <2>1. queue' = Push(drv.steps, cfg) /\ cfg' = cfg /\ want' = want /\ pc' = "saving" BY ONLY <1>14 DEF Save, history
  <2>2. queue' = Push(drv.steps, cfg') /\ pc' \notin {"parse", "bind"} BY ONLY <2>1
  <2> QED BY ONLY <1>0, <1>1, <2>1, <2>2, ShownAgain
<1>15. CASE FlashSave \/ Store
  <2>1. pc' \in {"storing", "session", "shell"} /\ UNCHANGED <<drv, dev, cfg, queue, want>> BY ONLY <1>15 DEF FlashSave, Store, device
  <2>2. pc' \notin {"parse", "bind"} BY ONLY <2>1
  <2> QED BY <2>1, <2>2, ShownStill
<1>16. CASE Quit
  <2>1. /\ queue = <<>> /\ cfg' = base /\ UNCHANGED <<dev, want>> /\ pc' = IF cfg = base THEN "shell" ELSE "leaving"
        /\ queue' = IF cfg = base THEN <<>> ELSE Push(drv.steps, base)
    BY ONLY <1>16 DEF Quit, Idle, device, history
  <2>2. pc' \notin {"parse", "bind"} BY ONLY <2>1
  <2>3. CASE cfg = base
    <3>1. UNCHANGED <<drv, dev, cfg, queue, want>> BY ONLY <1>0, <2>1, <2>3
    <3> QED BY <2>2, <3>1, ShownStill
  <2>4. CASE cfg # base
    <3>1. queue' = Push(drv.steps, cfg') BY ONLY <2>1, <2>4
    <3> QED BY ONLY <1>0, <1>1, <2>1, <2>2, <3>1, ShownAgain
  <2> QED BY ONLY <2>3, <2>4
<1>17. CASE HandEdit
  <2>1. UNCHANGED <<drv, dev, cfg, queue, want, pc>> BY ONLY <1>17 DEF HandEdit, device
  <2> QED BY <2>1, ShownStill
<1>18. CASE Replug
  <2>1. pc = "shell" /\ queue' = queue /\ want' = <<>> BY ONLY Zenon, <1>18 DEF Replug
  <2> QED BY <1>2, <2>1, ShownNothing
<1>19. CASE UNCHANGED vars
  <2>1. UNCHANGED <<drv, dev, cfg, queue, want, pc>> BY ONLY <1>19 DEF vars
  <2> QED BY <2>1, ShownStill
<1> QED BY <1>4, <1>5, <1>6, <1>7, <1>8, <1>9, <1>10, <1>11, <1>12, <1>13, <1>14, <1>15, <1>16, <1>17, <1>18, <1>19 DEF Next

LEMMA ShownAlways == Spec => []ShownInv
<1>1. Init => ShownInv
  <2> SUFFICES ASSUME Init PROVE ShownInv OBVIOUS
  <2>1. queue = <<>> /\ want = <<>> BY ONLY Init DEF Init
  <2>2. \A d, c, x : Underway(d, <<>>, c, x) BY NonePending
  <2>3. DOMAIN <<>> = {} OBVIOUS
  <2> QED BY ONLY Zenon, <2>1, <2>2, <2>3 DEF ShownInv, Showing, Resting, Alike
<1>2. Ready /\ Ready' /\ ShownInv /\ [Next]_vars => ShownInv' BY ShownStep DEF Ready
<1> QED BY <1>1, <1>2, Inv, PTL DEF Spec

\* An acknowledged step is shown for as long as the run lasts, for every driver of the
\* registry and whatever was edited, failed and pushed again: no step's packets undo
\* what another's left (the applies of the drivers, tui_save(), the restore on quitting).
THEOREM PushedShown == Spec => []PushedIsShown
<1>1. ShownInv => PushedIsShown
  <2> SUFFICES ASSUME ShownInv, queue = <<>>, NEW s \in DOMAIN want PROVE Shows(drv, s, want[s], dev)
    BY DEF PushedIsShown
  <2>1. Resting(drv, queue, want, dev) BY DEF ShownInv, Showing
  <2>2. \A t : ~Pending(queue, t) BY NonePending
  <2>3. ~Redone(drv, queue, s) BY ONLY Zenon, <2>2 DEF Redone
  <2>4. Shown(drv, s, want[s], dev) BY ONLY <2>1, <2>3, s \in DOMAIN want DEF Resting
  <2> QED BY ONLY <2>4 DEF Shown
<1> QED BY <1>1, ShownAlways, PTL

\* A one-shot that exits with 0 did what each of its flags says, and the device shows it;
\* one that is turned down has sent nothing: whatever the flags and their order, the
\* driver and the lost packets (alloy_cli_bind, alloy_cli_apply).
THEOREM HonestExit == Spec => []ExitIsHonest
<1>1. Ready /\ Honest /\ PushedIsShown => ExitIsHonest
  <2> SUFFICES ASSUME Ready, Honest, PushedIsShown, pc = "shell"
               PROVE  /\ ran \in {"rejected", "list", "command"} => ~touched
                      /\ ran = "one-shot" /\ code = 0 =>
                           /\ \A i \in DOMAIN args : \A s \in Range(apply_step(args[i].opt)) :
                                /\ s \in DOMAIN want /\ want[s] = cfg /\ Shows(drv, s, cfg, dev)
                                /\ Later(i) = {} => With(cfg, args[i].opt, args[i].val) = cfg
                           /\ saves => flash = dev
    BY DEF ExitIsHonest
  <2>1. ran \in {"rejected", "list", "command"} => ~touched BY DEF Honest, Silent
  <2>2. ASSUME ran = "one-shot", code = 0, NEW i \in DOMAIN args, NEW s \in Range(apply_step(args[i].opt))
        PROVE  /\ s \in DOMAIN want /\ want[s] = cfg /\ Shows(drv, s, cfg, dev)
               /\ Later(i) = {} => With(cfg, args[i].opt, args[i].val) = cfg
    <3>1. Taken /\ IsRecord(cfg) BY <2>2 DEF Honest, Taking, OneShot
    <3>2. bound = Len(args) /\ \A x \in Range(active) : Acked(x) BY <2>2 DEF Honest, Finished
    <3>3. args \in Seq(Arg) BY DEF Ready, Command
    <3>4. i \in 1..bound BY ONLY <2>2, <3>2, <3>3, LenProperties
    <3>5. /\ args[i].opt \in Flags /\ Range(apply_step(args[i].opt)) \subseteq Range(active)
          /\ (\A j \in (i + 1)..bound : args[j].opt # args[i].opt) => Holds(cfg, args[i].opt, args[i].val)
      BY ONLY Zenon, <3>1, <3>4 DEF Taken
    <3>6. s \in DOMAIN want /\ want[s] = cfg BY ONLY <2>2, <3>2, <3>5 DEF Acked
    <3>7. Shows(drv, s, cfg, dev)
      <4>1. queue = <<>> BY DEF Ready, Queueing
      <4> QED BY ONLY Zenon, <3>6, <4>1, PushedIsShown DEF PushedIsShown
    <3>8. Later(i) = {} => With(cfg, args[i].opt, args[i].val) = cfg
      <4>1. SUFFICES ASSUME Later(i) = {} PROVE With(cfg, args[i].opt, args[i].val) = cfg OBVIOUS
      <4>2. \A j \in (i + 1)..bound : args[j].opt # args[i].opt BY ONLY <3>2, <4>1 DEF Later
      <4>3. Config(drv, cfg) BY DEF Ready, Setting, Own
      <4>4. Holds(cfg, args[i].opt, args[i].val) BY ONLY Zenon, <3>5, <4>2
      <4> QED BY ONLY Zenon, <3>1, <3>5, <4>3, <4>4, HoldsSame
    <3> QED BY ONLY <3>6, <3>7, <3>8
  <2>3. ran = "one-shot" /\ code = 0 => (saves => flash = dev) BY DEF Honest, Finished
  <2> QED BY ONLY <2>1, <2>2, <2>3
<1> QED BY <1>1, Inv, HonestInv, PushedShown, PTL

-----------------------------------------------------------------------------
(* What was saved survives.                                                    *)

LEMMA RemoveRange ==
    ASSUME NEW S, NEW s \in Seq(S), NEW i \in 1..Len(s), \A j \in 1..Len(s) : s[j] = s[i] => j = i
    PROVE  Range(RemoveAt(s, i)) = Range(s) \ {s[i]}
<1> DEFINE u == SubSeq(s, 1, i - 1)
           v == SubSeq(s, i + 1, Len(s))
           r == u \o v
<1>1. DOMAIN s = 1..Len(s) /\ Len(s) \in Nat BY LenProperties
<1>2. \A j \in 1..Len(s) : s[j] \in S BY ElementOfSeq
<1>3. (\A j \in 1..(i - 1) : s[j] \in S) /\ (\A j \in (i + 1)..Len(s) : s[j] \in S) BY ONLY <1>1, <1>2, i \in 1..Len(s)
<1>4. u \in Seq(S) /\ Len(u) = i - 1 /\ \A j \in 1..(i - 1) : u[j] = s[j]
  <2>1. 1 \in Int /\ i - 1 \in Int BY ONLY <1>1, i \in 1..Len(s)
  <2>2. /\ u \in Seq(S) /\ Len(u) = (IF 1 <= i - 1 THEN (i - 1) - 1 + 1 ELSE 0)
        /\ \A j \in 1..((i - 1) - 1 + 1) : u[j] = s[1 + j - 1] BY ONLY <1>3, <2>1, SubSeqProperties
  <2>3. (i - 1) - 1 + 1 = i - 1 /\ (1 <= i - 1 \/ i - 1 = 0) /\ \A j \in 1..(i - 1) : 1 + j - 1 = j BY ONLY <1>1, i \in 1..Len(s)
  <2> HIDE DEF u
  <2> QED BY ONLY <2>2, <2>3
<1>5. v \in Seq(S) /\ Len(v) = Len(s) - i /\ \A j \in 1..(Len(s) - i) : v[j] = s[i + j]
  <2>1. i + 1 \in Int /\ Len(s) \in Int BY ONLY <1>1, i \in 1..Len(s)
  <2>2. /\ v \in Seq(S) /\ Len(v) = (IF i + 1 <= Len(s) THEN Len(s) - (i + 1) + 1 ELSE 0)
        /\ \A j \in 1..(Len(s) - (i + 1) + 1) : v[j] = s[(i + 1) + j - 1] BY ONLY <1>3, <2>1, SubSeqProperties
  <2>0. \A n, k \in Int : k <= n => n - (k + 1) + 1 = n - k /\ (k + 1 <= n \/ n - k = 0) OBVIOUS
  <2>3. Len(s) - (i + 1) + 1 = Len(s) - i /\ (i + 1 <= Len(s) \/ Len(s) - i = 0)
    <3>1. Len(s) \in Int /\ i \in Int /\ i <= Len(s) BY ONLY <1>1, i \in 1..Len(s)
    <3> QED BY ONLY Zenon, <2>0, <3>1
  <2>4. ASSUME NEW j \in 1..(Len(s) - i) PROVE (i + 1) + j - 1 = i + j
    <3>1. i \in Int /\ j \in Int BY ONLY <1>1, <2>4, i \in 1..Len(s)
    <3> QED BY ONLY <3>1
  <2> HIDE DEF v
  <2> QED BY ONLY Zenon, <2>2, <2>3, <2>4
<1> HIDE DEF u, v
<1>6. Range(r) = Range(u) \cup Range(v) BY ONLY <1>4, <1>5, CatRange
<1>7. DOMAIN u = 1..(i - 1) /\ DOMAIN v = 1..(Len(s) - i) BY ONLY <1>4, <1>5, LenProperties
<1>8. \A j \in DOMAIN u : j \in DOMAIN s /\ j # i /\ u[j] = s[j] BY ONLY <1>1, <1>4, <1>7, i \in 1..Len(s)
<1>9. \A j \in DOMAIN v : i + j \in DOMAIN s /\ i + j # i /\ v[j] = s[i + j] BY ONLY SMT, <1>1, <1>5, <1>7, i \in 1..Len(s)
<1>10. ASSUME NEW j \in DOMAIN s, j # i PROVE s[j] \in Range(u) \cup Range(v)
  <2>1. CASE j < i
    <3>1. j \in DOMAIN u BY ONLY <1>1, <1>7, <1>10, <2>1, i \in 1..Len(s)
    <3> QED BY ONLY <1>8, <3>1 DEF Range
  <2>2. CASE j > i
    <3>1. j - i \in DOMAIN v /\ i + (j - i) = j BY ONLY <1>1, <1>7, <1>10, <2>2, i \in 1..Len(s)
    <3> QED BY ONLY <1>9, <3>1 DEF Range
  <2> QED BY ONLY <1>1, <1>10, <2>1, <2>2, i \in 1..Len(s)
<1>11. \A j \in DOMAIN s : j # i => s[j] # s[i] BY ONLY <1>1, \A j \in 1..Len(s) : s[j] = s[i] => j = i
<1>12. \A x \in Range(u) \cup Range(v) : x \in Range(s) \ {s[i]} BY ONLY <1>8, <1>9, <1>11 DEF Range
<1>13. \A x \in Range(s) \ {s[i]} : x \in Range(u) \cup Range(v) BY ONLY <1>10 DEF Range
<1> QED BY ONLY <1>6, <1>12, <1>13 DEF RemoveAt, u, v

\* A table has one CPI step, in front,
LEMMA LevelsFirst ==
    ASSUME NEW d \in Registry, NEW i \in DOMAIN d.steps, d.steps[i] = "dpi"
    PROVE  i = 1
<1>1. \A j \in DOMAIN MouseSteps : MouseSteps[j] = "dpi" => j = 1 BY SMT DEF MouseSteps
<1>2. CASE d.steps = MouseSteps BY ONLY <1>1, <1>2, i \in DOMAIN d.steps, d.steps[i] = "dpi"
<1>3. CASE d = rival600 BY ONLY SMT, <1>3, i \in DOMAIN d.steps, d.steps[i] = "dpi" DEF rival600
<1>4. CASE d = apex100 BY ONLY SMT, <1>4, i \in DOMAIN d.steps, d.steps[i] = "dpi" DEF apex100
<1>5. CASE d = aerox3
  <2>1. d.steps = MouseSteps \o <<"sleep">> BY ONLY <1>5 DEF aerox3
  <2> DEFINE S == MouseStep \cup {"sleep"}
             t == <<"sleep">>
  <2>2. MouseSteps \in Seq(S) /\ Len(MouseSteps) = 5 /\ t \in Seq(S) /\ Len(t) = 1 BY DEF MouseSteps, MouseStep
  <2>3. DOMAIN MouseSteps = 1..5 /\ t[1] # "dpi" BY DEF MouseSteps
  <2> HIDE DEF S, t
  <2> DEFINE m == MouseSteps
  <2>m. m \in Seq(S) /\ m = MouseSteps /\ Len(m) = 5 BY ONLY <2>2
  <2> HIDE DEF m
  <2>a. m \o t \in Seq(S) /\ Len(m \o t) = Len(m) + Len(t) BY ONLY <2>2, <2>m, CatIs
  <2>b. \A j \in 1..Len(m) : (m \o t)[j] = m[j] BY ONLY <2>2, <2>m, CatIs
  <2>c. (m \o t)[6] = t[1]
    <3>1. \A j \in 1..(Len(m) + Len(t)) : (m \o t)[j] = IF j <= Len(m) THEN m[j] ELSE t[j - Len(m)]
      BY ONLY <2>2, <2>m, ConcatProperties
    <3>2. 6 \in 1..(Len(m) + Len(t)) /\ ~(6 <= Len(m)) /\ 6 - Len(m) = 1
      <4>1. \A a, b \in Int : a = 5 /\ b = 1 => 6 \in 1..(a + b) /\ ~(6 <= a) /\ 6 - a = 1 OBVIOUS
      <4>2. Len(m) \in Int /\ Len(t) \in Int /\ Len(m) = 5 /\ Len(t) = 1 BY ONLY <2>2, <2>m
      <4> QED BY ONLY Zenon, <4>1, <4>2
    <3> QED BY ONLY <3>1, <3>2
  <2>4. /\ MouseSteps \o t \in Seq(S) /\ Len(MouseSteps \o t) = Len(MouseSteps) + Len(t)
        /\ \A j \in 1..Len(MouseSteps) : (MouseSteps \o t)[j] = MouseSteps[j]
        /\ (MouseSteps \o t)[6] = t[1] BY ONLY <2>m, <2>a, <2>b, <2>c
  <2>5. DOMAIN (MouseSteps \o t) = 1..6 BY ONLY <2>2, <2>4, LenProperties
  <2>6. i \in 1..5 \/ i = 6 BY ONLY <2>1, <2>5, i \in DOMAIN d.steps DEF t
  <2>7. CASE i = 6 BY ONLY <2>1, <2>3, <2>4, <2>7, d.steps[i] = "dpi" DEF t
  <2>8. CASE i \in 1..5
    <3>1. (MouseSteps \o t)[i] = MouseSteps[i] BY ONLY <2>2, <2>4, <2>8
    <3> QED BY ONLY <1>1, <2>1, <2>3, <2>8, <3>1, d.steps[i] = "dpi" DEF t
  <2> QED BY ONLY <2>6, <2>7, <2>8
<1>6. CASE d = aerox3_bt BY ONLY SMT, <1>6, i \in DOMAIN d.steps, d.steps[i] = "dpi" DEF aerox3_bt
<1>7. d \in {rival3, prime, rival3_gen2} => d.steps = MouseSteps BY ONLY SMT DEF rival3, prime, rival3_gen2
<1> QED BY ONLY <1>2, <1>3, <1>4, <1>5, <1>6, <1>7, d \in Registry DEF Registry

\* and the sync at start-up pushes all the others.
LEMMA SyncTable ==
    ASSUME drv \in Driver
    PROVE  Range(SyncSteps) = Steps \ {"dpi"}
<1>1. drv.steps \in Seq(Steps) /\ drv \in Registry BY StepTables, RegistryAssumption
<1>2. DOMAIN drv.steps = 1..Len(drv.steps) BY ONLY <1>1, LenProperties
<1> DEFINE dpi == {i \in DOMAIN drv.steps : drv.steps[i] = "dpi"}
<1>3. SyncSteps = IF dpi = {} THEN drv.steps ELSE RemoveAt(drv.steps, CHOOSE i \in dpi : TRUE)
  BY ONLY SMT DEF SyncSteps
<1>4. CASE dpi = {}
  <2>1. "dpi" \notin Range(drv.steps) BY ONLY <1>4 DEF Range
  <2>2. SyncSteps = drv.steps BY ONLY <1>3, <1>4
  <2> QED BY ONLY <2>1, <2>2 DEF Steps
<1>5. CASE dpi # {}
  <2> DEFINE k == CHOOSE i \in dpi : TRUE
  <2>1. k \in dpi BY ONLY Zenon, <1>5
  <2>2. SyncSteps = RemoveAt(drv.steps, k) BY ONLY Zenon, <1>3, <1>5
  <2> HIDE DEF k
  <2>3. k \in 1..Len(drv.steps) /\ drv.steps[k] = "dpi" BY ONLY <1>2, <2>1
  <2>4. \A j \in 1..Len(drv.steps) : drv.steps[j] = "dpi" => j = 1 BY ONLY <1>1, <1>2, LevelsFirst
  <2>5. \A j \in 1..Len(drv.steps) : drv.steps[j] = drv.steps[k] => j = k BY ONLY Zenon, <2>3, <2>4
  <2>6. Range(RemoveAt(drv.steps, k)) = Range(drv.steps) \ {drv.steps[k]} BY ONLY <1>1, <2>3, <2>5, RemoveRange
  <2> QED BY ONLY <2>2, <2>3, <2>6 DEF Steps
<1> QED BY ONLY <1>4, <1>5

LEMMA StoredLevels ==
    ASSUME NEW c, NEW r, Stored(r) = Stored(c), DOMAIN c = Fields, DOMAIN r = Fields, c.count \in Nat
    PROVE  SameLevels(c, r)
<1>1. ASSUME NEW x, DOMAIN x = Fields
      PROVE  Stored(x).count = x.count /\ Stored(x).active = x.active /\ Stored(x).dpi = [i \in 1..x.count |-> x.dpi[i]]
  BY ONLY <1>1 DEF Stored, Fields
<1>2. r.count = c.count /\ r.active = c.active BY ONLY <1>1, Stored(r) = Stored(c), DOMAIN c = Fields, DOMAIN r = Fields
<1>3. [i \in 1..r.count |-> r.dpi[i]] = [i \in 1..c.count |-> c.dpi[i]]
  <2>1. Stored(r).dpi = [i \in 1..r.count |-> r.dpi[i]] BY ONLY <1>1, DOMAIN r = Fields
  <2>2. Stored(c).dpi = [i \in 1..c.count |-> c.dpi[i]] BY ONLY <1>1, DOMAIN c = Fields
  <2> QED BY ONLY Zenon, <2>1, <2>2, Stored(r) = Stored(c)
<1>4. ASSUME NEW i \in 1..c.count PROVE r.dpi[i] = c.dpi[i]
  <2>1. [k \in 1..r.count |-> r.dpi[k]][i] = r.dpi[i] BY ONLY <1>2, <1>4
  <2>2. [k \in 1..c.count |-> c.dpi[k]][i] = c.dpi[i] BY ONLY <1>4
  <2> QED BY ONLY Zenon, <1>3, <2>1, <2>2
<1> QED BY ONLY <1>2, <1>4 DEF SameLevels

LEMMA LevelsShown ==
    ASSUME NEW d, NEW c, Drv(d, c), NEW r, SameLevels(c, r), NEW x, "dpi" \in Range(d.steps), Shown(d, "dpi", c, x)
    PROVE  Shown(d, "dpi", r, x)
<1>0. d \in Registry /\ d.kind = "mouse"
  <2>1. d \in Registry BY DEF Drv
  <2>2. d.name # "apex100" BY ONLY <2>1, StepNames, "dpi" \in Range(d.steps)
  <2> QED BY ONLY SMT, <2>1, <2>2, Kinds
<1>1. c.count \in 1..MaxLevels BY <1>0, Sized
<1>2. r.count = c.count /\ r.active = c.active /\ \A i \in 1..c.count : r.dpi[i] = c.dpi[i] BY ONLY SameLevels(c, r) DEF SameLevels
<1>3. Reads(d, "dpi", c, x) = ShowsLevels(d, c, x) /\ Reads(d, "dpi", r, x) = ShowsLevels(d, r, x) BY ONLY ReadsIs
<1>4. ShowsLevels(d, c, x) => ShowsLevels(d, r, x)
  <2>1. CASE d.name = "rival600"
    <3>1. ASSUME NEW i \in 1..2 PROVE r.dpi[IF i <= r.count THEN i ELSE 1] = c.dpi[IF i <= c.count THEN i ELSE 1]
      <4>1. (IF i <= c.count THEN i ELSE 1) \in 1..c.count
        <5>1. MaxLevels \in Nat BY DEF MaxLevels
        <5> QED BY ONLY <1>1, <3>1, <5>1
      <4> QED BY ONLY <1>2, <4>1
    <3>2. ShowsLevels(d, c, x) = \A i \in 1..2 : Near(d, x[<<"preset", i>>], c.dpi[IF i <= c.count THEN i ELSE 1][1])
      BY ONLY Zenon, <2>1 DEF ShowsLevels
    <3>3. ShowsLevels(d, r, x) = \A i \in 1..2 : Near(d, x[<<"preset", i>>], r.dpi[IF i <= r.count THEN i ELSE 1][1])
      BY ONLY Zenon, <2>1 DEF ShowsLevels
    <3> QED BY ONLY Zenon, <3>1, <3>2, <3>3
  <2>2. CASE d.name # "rival600"
    <3> DEFINE l == x[<<"levels", 0>>]
    <3>1. ShowsLevels(d, c, x) = (/\ l[1] = c.active /\ Len(l[2]) = c.count
                                  /\ \A i \in 1..c.count :
                                       IF d.name = "rival3_gen2" THEN \A a \in 1..2 : Near(d, l[2][i][a], c.dpi[i][a])
                                                                 ELSE Near(d, l[2][i], c.dpi[i][1]))
      BY ONLY Zenon, <2>2 DEF ShowsLevels
    <3>2. ShowsLevels(d, r, x) = (/\ l[1] = r.active /\ Len(l[2]) = r.count
                                  /\ \A i \in 1..r.count :
                                       IF d.name = "rival3_gen2" THEN \A a \in 1..2 : Near(d, l[2][i][a], r.dpi[i][a])
                                                                 ELSE Near(d, l[2][i], r.dpi[i][1]))
      BY ONLY Zenon, <2>2 DEF ShowsLevels
    <3> HIDE DEF l
    <3> QED BY ONLY Zenon, <1>2, <3>1, <3>2
  <2> QED BY ONLY <2>1, <2>2
<1>5. Reads(d, "dpi", r, x)
  <2>1. Reads(d, "dpi", c, x) BY ONLY Shown(d, "dpi", c, x), ShownIs
  <2> QED BY ONLY <1>3, <1>4, <2>1
<1> QED BY ONLY <1>5, Shown(d, "dpi", c, x), ShownIs

\* A power cycle leaves the levels as they were saved.
LEMMA KeptLevels ==
    ASSUME NEW d \in Registry, NEW c, NEW x, "dpi" \in Range(d.steps), Shown(d, "dpi", c, x)
    PROVE  Shown(d, "dpi", c, Kept(x))
<1>1. Registers(d, "dpi") \subseteq DOMAIN x BY ONLY Shown(d, "dpi", c, x), ShownIs
<1>2. Registers(d, "dpi") = IF d.name = "rival600" THEN {"preset"} \X {1, 2} ELSE {<<"levels", 0>>} BY ONLY Zenon DEF Registers
<1>3. \A r \in Registers(d, "dpi") : r[1] \in {"preset", "levels"} BY ONLY <1>2
<1>4. \A r \in Registers(d, "dpi") : r \notin Volatile BY ONLY <1>3 DEF Volatile
<1>5. \A r \in Registers(d, "dpi") : r \in DOMAIN x \ Volatile BY ONLY <1>1, <1>4
<1>6. Kept(x) = [r \in DOMAIN x \ Volatile |-> x[r]] BY ONLY SMT DEF Kept
<1>7. Agree(d, "dpi", x, Kept(x)) BY ONLY Zenon, <1>5, <1>6 DEF Agree
<1> QED BY ONLY <1>7, Shown(d, "dpi", c, x), "dpi" \in Range(d.steps), d \in Registry, ShownFrame

-----------------------------------------------------------------------------

LEMMA Unsettled ==
    ASSUME settled' = FALSE, pc' \notin {"saving", "storing"}
    PROVE  Surviving'
  BY Zenon DEF Surviving, Saving, Storing, Lasting

LEMMA SurvivesAside ==
    ASSUME Surviving, pc # "saving", pc' \in {"shell", "parse", "bind"}, UNCHANGED <<drv, dev, flash, stored, settled>>
    PROVE  Surviving'
<1>1. pc' # "saving" /\ pc' # "storing" /\ pc' # "session" OBVIOUS
<1>2. settled => stored # <<>> /\ Levelled(drv, stored[1], flash) /\ Levelled(drv, stored[1], dev)
  BY DEF Surviving, Lasting
<1>3. pc' \in {"shell", "parse", "bind", "session", "saving"} OBVIOUS
<1> QED BY ONLY Zenon, <1>1, <1>2, <1>3, UNCHANGED <<drv, dev, flash, stored, settled>> DEF Surviving, Saving, Storing, Lasting

LEMMA SurvivesStill ==
    ASSUME Surviving, UNCHANGED <<drv, dev, flash, pc, cfg, base, queue, failed, want, stored, settled>>
    PROVE  Surviving'
  BY Zenon DEF Surviving, Saving, Storing, Lasting, Synced, Steps

\* A packet of the sync leaves the levels alone.
LEMMA LevelsSent ==
    ASSUME Setting, Queued(queue), queue # <<>>, queue[1].left # <<>>, Underway(drv, queue, cfg, dev),
           ~Pending(queue, "dpi"), NEW c, Levelled(drv, c, dev)
    PROVE  Levelled(drv, c, Take(drv, dev, Head(queue[1].left)))
<1> SUFFICES ASSUME "dpi" \in Range(drv.steps), Shown(drv, "dpi", c, dev)
             PROVE  Shown(drv, "dpi", c, Take(drv, dev, Head(queue[1].left)))
  BY DEF Levelled
<1> DEFINE h == queue[1].step
           p == Packets(drv, h, cfg)
           l == queue[1].left
<1>1. Drv(drv, cfg) BY Bound
<1>2. h \in Range(drv.steps) /\ 1 \in DOMAIN queue BY QueueTail DEF Steps
<1>3. h # "dpi" BY ONLY <1>2, ~Pending(queue, "dpi") DEF Pending
<1>4. Len(p) \in Nat /\ DOMAIN p = 1..Len(p) BY ONLY <1>1, <1>2, RemainsAll
<1>5. PICK k \in 0..Len(p) : Remains(p, k, l) BY ONLY queue # <<>>, Underway(drv, queue, cfg, dev) DEF Underway, Issued
<1> HIDE DEF p
<1>6. k \in 0..(Len(p) - 1) /\ Head(l) = p[k + 1] BY ONLY <1>4, <1>5, RemainsTail, queue[1].left # <<>>
<1>7. k + 1 \in DOMAIN p BY ONLY <1>4, <1>6
<1>8. ~Undone(drv, h, "dpi", c, cfg) BY DEF Undone
<1> HIDE DEF h
<1>9. Shown(drv, "dpi", c, Take(drv, dev, p[k + 1]))
  BY ONLY <1>1, <1>2, <1>3, <1>7, <1>8, StepKeeps, "dpi" \in Range(drv.steps), Shown(drv, "dpi", c, dev) DEF p
<1> QED BY ONLY <1>6, <1>9

LEMMA SurvivesSend ==
    ASSUME Ready, ShownInv, Surviving, Send \/ SendFails \/ StepDone
    PROVE  Surviving'
<1>0. Setting /\ Queued(queue) /\ DOMAIN want \subseteq Steps /\ Underway(drv, queue, cfg, dev)
  BY DEF Ready, Queueing, ShownInv, Showing
<1>1. queue # <<>> /\ UNCHANGED <<drv, flash, cfg, base, pc, stored>> BY DEF Send, SendFails, StepDone, pushing
<1>2. pc # "storing" BY <1>1 DEF Ready, Queueing
<1>3. DOMAIN queue[1] = Entry /\ 1 \in DOMAIN queue BY <1>0, <1>1, QueueTail
<1>4. CASE Send
  <2> DEFINE e == [queue[1] EXCEPT !.left = Tail(@)]
  <2>1. /\ queue[1].left # <<>> /\ UNCHANGED <<want, failed, settled>> /\ dev' = Take(drv, dev, Head(queue[1].left))
        /\ queue' = [queue EXCEPT ![1] = e]
    BY ONLY <1>4 DEF Send
  <2>2. DOMAIN e = Entry /\ e.step = queue[1].step /\ e.nack = queue[1].nack BY ONLY <1>3 DEF Entry
  <2> HIDE DEF e
  <2>3. DOMAIN queue' = DOMAIN queue /\ queue' # <<>> /\ \A i \in DOMAIN queue : queue'[i].step = queue[i].step
    BY ONLY <1>0, <1>1, <2>1, <2>2, QueueHead
  <2>4. queue'[1] = e BY ONLY <1>3, <2>1
  <2>5. Failing(queue') <=> Failing(queue) BY ONLY Zenon, <1>1, <2>2, <2>3, <2>4 DEF Failing
  <2>6. \A s : Pending(queue', s) <=> Pending(queue, s) BY ONLY <2>3 DEF Pending
  <2>7. \A s : Covered(queue', want', cfg', s) <=> Covered(queue, want, cfg, s) BY ONLY Zenon, <1>1, <2>1, <2>6 DEF Covered
  <2>8. Saving' BY ONLY Zenon, Surviving, <1>1, <2>1, <2>5, <2>7 DEF Surviving, Saving, Steps
  <2>9. pc = "session" /\ settled => Levelled(drv, stored[1], dev')
    <3>1. SUFFICES ASSUME pc = "session", settled PROVE Levelled(drv, stored[1], dev') OBVIOUS
    <3>2. ~Pending(queue, "dpi") /\ Levelled(drv, stored[1], dev) BY <3>1 DEF Surviving, Lasting, Synced
    <3> QED BY ONLY <1>0, <1>1, <2>1, <3>2, LevelsSent
  <2>10. settled => pc \in {"session", "saving"} BY <1>1, Surviving DEF Ready, Queueing, Surviving, Lasting
  <2>11. Lasting' BY ONLY Zenon, Surviving, <1>1, <2>1, <2>5, <2>6, <2>7, <2>9, <2>10 DEF Surviving, Lasting, Synced, Steps
  <2> QED BY ONLY Zenon, <1>1, <1>2, <2>8, <2>11 DEF Surviving, Storing
<1>5. CASE SendFails
  <2>1. /\ settled' = FALSE
        /\ queue' = [queue EXCEPT ![1].left = IF GivesUp THEN <<>> ELSE Tail(@), ![1].nack = TRUE]
    BY ONLY <1>5 DEF SendFails
  <2>2. queue'[1].nack = TRUE /\ 1 \in DOMAIN queue' BY ONLY <1>3, <2>1 DEF Entry
  <2>3. Failing(queue')
    <3>1. DOMAIN <<>> = {} OBVIOUS
    <3>2. queue' # <<>> BY ONLY Zenon, <2>2, <3>1
    <3> QED BY ONLY Zenon, <2>2, <3>2 DEF Failing
  <2> QED BY ONLY Zenon, <1>1, <1>2, <2>1, <2>3 DEF Surviving, Saving, Storing, Lasting
<1>6. CASE StepDone
  <2> DEFINE h == queue[1].step
             w == IF queue[1].nack THEN [x \in DOMAIN want \ (IF h \in Lighting THEN Lighting ELSE {h}) |-> want[x]]
                                   ELSE [x \in DOMAIN want \cup {h} |-> IF x = h THEN cfg ELSE want[x]]
  <2>1. queue' = Tail(queue) /\ want' = w /\ dev' = dev /\ settled' = settled /\ failed' = (failed \/ queue[1].nack)
    BY ONLY <1>6 DEF StepDone
  <2>2. \A s : Pending(queue, s) <=> s = h \/ Pending(queue', s) BY ONLY <1>0, <1>1, <2>1, TailPending
  <2>3. ASSUME ~queue[1].nack, NEW s, Covered(queue, want, cfg, s) PROVE Covered(queue', want', cfg', s)
    <3>1. want' = [x \in DOMAIN want \cup {h} |-> IF x = h THEN cfg ELSE want[x]] BY ONLY Zenon, <2>1, <2>3
    <3> HIDE DEF h, w
    <3>2. CASE s = h \/ (s \in DOMAIN want /\ want[s] = cfg)
      <4>1. s \in DOMAIN want' /\ want'[s] = cfg BY ONLY Zenon, <3>1, <3>2
      <4> QED BY ONLY Zenon, <1>1, <4>1 DEF Covered
    <3>3. CASE s # h /\ Pending(queue, s)
      <4>1. Pending(queue', s) BY ONLY <2>2, <3>3
      <4> QED BY ONLY Zenon, <4>1 DEF Covered
    <3> QED BY ONLY Zenon, <2>3, <3>2, <3>3 DEF Covered
  <2> HIDE DEF w
  <2>4. queue[1].nack <=> Failing(queue) BY ONLY Zenon, <1>1 DEF Failing
  <2>5. ~Failing(queue')
    <3>1. SUFFICES ASSUME queue' # <<>> PROVE ~queue'[1].nack BY DEF Failing
    <3>2. Len(queue) \in Nat \ {0} /\ DOMAIN queue = 1..Len(queue)
          /\ \A i \in 1..(Len(queue) - 1) : queue'[i] = queue[i + 1] BY ONLY <1>0, <1>1, <2>1, TailIs
    <3>3. Queued(queue') BY ONLY <1>0, <1>1, <2>1, QueueTail
    <3>4. 1 \in DOMAIN queue' BY ONLY <3>1, <3>3, QueueTail
    <3>5. DOMAIN queue' = 1..(Len(queue) - 1) BY ONLY <1>0, <1>1, <2>1, TailIs
    <3>6. 1 \in 1..(Len(queue) - 1) /\ 2 \in DOMAIN queue /\ 2 > 1 /\ 1 + 1 = 2 BY ONLY <3>2, <3>4, <3>5
    <3>7. queue'[1] = queue[2] BY ONLY <3>2, <3>6
    <3>8. ~queue[2].nack BY ONLY <1>0, <3>6 DEF Underway
    <3> QED BY ONLY <3>7, <3>8
  <2>6. Saving' BY ONLY Zenon, Surviving, <1>1, <2>1, <2>3, <2>4 DEF Surviving, Saving, Steps
  <2>7. Lasting' BY ONLY Zenon, Surviving, <1>1, <2>1, <2>2, <2>3, <2>4, <2>5 DEF Surviving, Lasting, Synced, Steps
  <2> QED BY ONLY Zenon, <1>1, <1>2, <2>6, <2>7 DEF Surviving, Storing
<1> QED BY <1>4, <1>5, <1>6

\* A session loads the levels that were stored, and pushes all but them.
LEMMA SurvivesLoad ==
    ASSUME Ready, Surviving, Setting', OpenSession, pc = "parse" => want = <<>>
    PROVE  Surviving'
<1>1. /\ pc = "parse" /\ pc' = "session" /\ cfg' = alloy_state_load(drv, file) /\ base' = cfg' /\ queue' = Push(SyncSteps, cfg')
      /\ UNCHANGED <<drv, dev, flash, want, stored, settled>>
  BY DEF OpenSession, device, history
<1> SUFFICES ASSUME settled PROVE Surviving'
  <2>1. CASE ~settled
    <3>1. settled' # TRUE /\ ~settled' BY ONLY Zenon, <1>1, <2>1
    <3> QED BY ONLY Zenon, <1>1, <3>1 DEF Surviving, Saving, Storing, Lasting
  <2> QED BY ONLY Zenon, <2>1, settled => Surviving'
<1>2. stored # <<>> /\ Levelled(drv, stored[1], flash) /\ Levelled(drv, stored[1], dev) BY <1>1 DEF Surviving, Lasting
<1>3. drv \in Driver BY DEF Ready, Setting
<1>4. SyncSteps \in Seq(Steps) /\ Range(SyncSteps) = Steps \ {"dpi"} BY <1>3, StepTables, SyncTable
<1>5. Own(drv, cfg') /\ Drv(drv, cfg')
  <2>1. Own(drv', cfg') BY DEF Setting
  <2>2. Own(drv, cfg') BY ONLY <1>1, <2>1
  <2> QED BY ONLY <1>3, <2>2, RegistryAssumption DEF Own, Drv
<1>6. \A s : Pending(queue', s) <=> s \in Steps \ {"dpi"} BY <1>1, <1>4, <1>5, JustPushed
<1>7. SameLevels(stored[1], cfg')
  <2>1. PICK c : stored = <<c>> /\ Own(drv, c) /\ file = <<state_save(drv, c)>> BY <1>2 DEF Ready, Filed
  <2>2. Stored(cfg') = Stored(c) BY ONLY <1>1, <1>3, <2>1, RoundTrip
  <2>3. DOMAIN c = Fields /\ DOMAIN cfg' = Fields /\ c.count \in 0..MaxLevels BY ONLY <1>5, <2>1 DEF Own, Config, LevelsOK
  <2>4. c.count \in Nat BY ONLY <2>3
  <2>5. stored[1] = c BY ONLY <2>1
  <2> QED BY ONLY <2>2, <2>3, <2>4, <2>5, StoredLevels
<1>8. ~Failing(queue')
  <2>1. SUFFICES ASSUME queue' # <<>> PROVE ~queue'[1].nack BY DEF Failing
  <2>2. Queued(queue') BY ONLY <1>1, <1>4, Pushed
  <2>3. 1 \in DOMAIN queue' BY ONLY <2>1, <2>2, QueueTail
  <2>4. queue' = [i \in DOMAIN SyncSteps |-> [step |-> SyncSteps[i], left |-> Packets(drv, SyncSteps[i], cfg'), nack |-> FALSE]]
    BY ONLY SMT, <1>1 DEF Push
  <2> QED BY ONLY <2>3, <2>4
<1>9. Steps' = Steps BY ONLY <1>1 DEF Steps
<1>10. Synced'
  <2>1. SameLevels(stored[1], cfg)' BY ONLY <1>1, <1>7
  <2>2. \A s \in Steps \ {"dpi"} : Covered(queue', want', cfg', s) BY ONLY Zenon, <1>6 DEF Covered
  <2>3. ~Pending(queue', "dpi") BY ONLY <1>6
  <2> QED BY ONLY Zenon, <1>1, <1>8, <1>9, <2>1, <2>2, <2>3 DEF Synced
<1>11. Lasting'
  <2>1. pc' \in {"shell", "parse", "bind", "session", "saving"} BY ONLY <1>1
  <2> QED BY ONLY Zenon, <1>1, <1>2, <1>10, <2>1 DEF Lasting
<1>12. pc' # "saving" /\ pc' # "storing" BY ONLY <1>1
<1> QED BY ONLY Zenon, <1>11, <1>12 DEF Surviving, Saving, Storing

\* A save pushes everything, then the flash takes what is shown, then the file.
LEMMA SurvivesSave ==
    ASSUME Ready, ShownInv, Surviving, Save \/ FlashSave \/ Store
    PROVE  Surviving'
<1>0. drv \in Driver /\ Drv(drv, cfg) /\ drv.steps \in Seq(Steps) BY StepTables, Bound DEF Ready, Setting
<1>1. CASE Save
  <2>1. /\ pc = "session" /\ pc' = "saving" /\ queue' = Push(drv.steps, cfg)
        /\ UNCHANGED <<drv, dev, flash, cfg, want, stored, settled>>
    BY ONLY <1>1 DEF Save, Idle, device, history
  <2>2. \A s \in Steps : Pending(queue', s) BY <1>0, <2>1, JustPushed DEF Steps
  <2>3. Saving' BY ONLY Zenon, <2>1, <2>2 DEF Saving, Covered, Steps
  <2>4. Lasting'
    <3>1. pc' \in {"shell", "parse", "bind", "session", "saving"} /\ pc' # "session" BY ONLY <2>1
    <3> QED BY ONLY Zenon, Surviving, <2>1, <3>1 DEF Surviving, Lasting
  <2>5. pc' # "storing" BY ONLY <2>1
  <2> QED BY ONLY Zenon, <2>3, <2>4, <2>5 DEF Surviving, Storing
<1>2. CASE FlashSave
  <2>1. PICK ok \in BOOLEAN : /\ SaveFlash(ok) /\ pc' = IF ok THEN "storing" ELSE "session"
                              /\ base' = IF ok THEN cfg ELSE base
    BY ONLY <1>2 DEF FlashSave
  <2>2. pc = "saving" /\ queue = <<>> /\ settled' = FALSE /\ UNCHANGED <<drv, dev, cfg, queue, failed, want>>
    BY ONLY <1>2 DEF FlashSave
  <2>3. CASE ok
    <3>1. pc' = "storing" /\ base' = cfg /\ flash' = dev BY ONLY <2>1, <2>3 DEF SaveFlash
    <3>2. ~Failing(queue) BY ONLY Zenon, <2>2 DEF Failing
    <3>3. Storing' BY ONLY Zenon, Surviving, <2>2, <3>1, <3>2 DEF Surviving, Saving, Storing, Steps
    <3>4. pc' # "saving" BY ONLY <3>1
    <3> QED BY ONLY Zenon, <2>2, <3>3, <3>4 DEF Surviving, Saving, Lasting
  <2>4. CASE ~ok
    <3>1. pc' \notin {"saving", "storing"} BY ONLY <2>1, <2>4
    <3> QED BY ONLY <2>2, <3>1, Unsettled
  <2> QED BY ONLY <2>3, <2>4
<1>3. CASE Store
  <2>1. pc = "storing" /\ UNCHANGED <<drv, dev, flash, cfg, base, queue, failed, want>> BY ONLY <1>3 DEF Store, device
  <2>2. CASE stored' = <<cfg>> /\ settled' = ~failed /\ pc' = "session"
    <3>1. CASE failed
      <4>1. settled' = FALSE /\ pc' \notin {"saving", "storing"} BY ONLY <2>2, <3>1
      <4> QED BY ONLY Zenon, <4>1, Unsettled
    <3>2. CASE ~failed
      <4>1. queue = <<>> BY <2>1 DEF Ready, Queueing
      <4>2. flash = dev /\ base = cfg /\ \A s \in Steps : Covered(queue, want, cfg, s) BY <2>1, <3>2 DEF Surviving, Storing
      <4>3. \A s : ~Pending(queue, s) BY <4>1, NonePending
      <4>4. Levelled(drv, cfg, dev)
        <5>1. SUFFICES ASSUME "dpi" \in Range(drv.steps) PROVE Shown(drv, "dpi", cfg, dev) BY DEF Levelled
        <5>2. "dpi" \in DOMAIN want /\ want["dpi"] = cfg BY ONLY <4>2, <4>3, <5>1 DEF Steps, Covered
        <5>3. ~Redone(drv, queue, "dpi") BY ONLY Zenon, <4>3 DEF Redone
        <5>4. Resting(drv, queue, want, dev) BY DEF ShownInv, Showing
        <5> QED BY ONLY <5>2, <5>3, <5>4 DEF Resting
      <4>5. stored' # <<>> /\ stored'[1] = cfg BY ONLY <2>2
      <4>6. ~Failing(queue) BY ONLY Zenon, <4>1 DEF Failing
      <4>7. SameLevels(cfg, cfg) BY DEF SameLevels
      <4>8. Synced' BY ONLY Zenon, <2>1, <4>2, <4>3, <4>5, <4>6, <4>7 DEF Synced, Steps
      <4>9. pc' \in {"shell", "parse", "bind", "session", "saving"} /\ pc' # "saving" /\ pc' # "storing" BY ONLY <2>2
      <4>10. Levelled(drv', stored'[1], flash') /\ Levelled(drv', stored'[1], dev') BY ONLY Zenon, <2>1, <4>2, <4>4, <4>5
      <4> QED BY ONLY Zenon, <4>5, <4>8, <4>9, <4>10 DEF Surviving, Saving, Storing, Lasting
    <3> QED BY ONLY <3>1, <3>2
  <2>3. CASE settled' = settled /\ pc' = "session"
    <3>1. ~settled BY <2>1 DEF Surviving, Lasting
    <3>2. ~settled' /\ pc' # "saving" /\ pc' # "storing" BY ONLY <2>3, <3>1
    <3> QED BY ONLY Zenon, <3>2 DEF Surviving, Saving, Storing, Lasting
  <2>4. CASE settled' = FALSE /\ pc' = "shell"
    <3>1. pc' \notin {"saving", "storing"} BY ONLY <2>4
    <3> QED BY ONLY Zenon, <2>4, <3>1, Unsettled
  <2> QED BY ONLY Zenon, <1>3, <2>2, <2>3, <2>4 DEF Store
<1> QED BY <1>1, <1>2, <1>3

LEMMA SurvivesStep ==
    ASSUME Ready, ShownInv, Surviving, Setting', [Next]_vars
    PROVE  Surviving'
<1>1. CASE Start \/ ParseOption \/ ParseSave \/ OpenDevice
  <2>1. /\ pc \in {"shell", "parse"} /\ pc' \in {pc, "parse", "bind"} /\ UNCHANGED <<drv, dev, flash, stored, settled>>
    BY ONLY Zenon, <1>1 DEF Start, ParseOption, ParseSave, OpenDevice, device, history
  <2>2. pc # "saving" /\ pc' \in {"shell", "parse", "bind"} BY ONLY <2>1
  <2> QED BY <2>1, <2>2, SurvivesAside
<1>2. CASE ParseEnds \/ BindNext
  <2>1. /\ pc \in {"parse", "bind"} /\ (pc' = pc \/ pc' = "shell") /\ UNCHANGED <<drv, dev, flash, stored, settled>>
    BY ONLY <1>2 DEF ParseEnds, BindNext, Exit, device, history
  <2>2. pc # "saving" /\ pc' \in {"shell", "parse", "bind"} BY ONLY <2>1
  <2> QED BY <2>1, <2>2, SurvivesAside
<1>3. CASE BindDone
  <2>1. \/ pc' = "apply" /\ settled' = FALSE
        \/ pc = "bind" /\ pc' = "shell" /\ UNCHANGED <<drv, dev, flash, stored, settled>>
    BY ONLY <1>3 DEF BindDone, Exit, device, history
  <2>2. CASE pc' = "apply" /\ settled' = FALSE
    <3>1. pc' \notin {"saving", "storing"} BY ONLY <2>2
    <3> QED BY ONLY Zenon, <2>2, <3>1, Unsettled
  <2>3. CASE pc = "bind" /\ pc' = "shell" /\ UNCHANGED <<drv, dev, flash, stored, settled>>
    <3>1. pc # "saving" /\ pc' \in {"shell", "parse", "bind"} BY ONLY <2>3
    <3> QED BY <2>3, <3>1, SurvivesAside
  <2> QED BY ONLY Zenon, <2>1, <2>2, <2>3
<1>4. CASE OpenSession
  <2>1. pc = "parse" => want = <<>> BY DEF ShownInv
  <2> QED BY <1>4, <2>1, SurvivesLoad
<1>5. CASE Send \/ SendFails \/ StepDone BY <1>5, SurvivesSend
<1>6. CASE FinishOneShot
  <2>1. pc = "apply" /\ pc' = "shell" /\ settled' = settled BY ONLY <1>6 DEF FinishOneShot, history
  <2>2. ~settled BY <2>1 DEF Surviving, Lasting
  <2>3. ~settled' /\ pc' # "saving" /\ pc' # "storing" BY ONLY <2>1, <2>2
  <2> QED BY ONLY Zenon, <2>3 DEF Surviving, Saving, Storing, Lasting
<1>7. CASE EditAny
  <2>1. settled' = FALSE /\ pc' \notin {"saving", "storing"} BY <1>7, EditOnly DEF Ready
  <2> QED BY ONLY Zenon, <2>1, Unsettled
<1>8. CASE Save \/ FlashSave \/ Store BY <1>8, SurvivesSave
<1>9. CASE Quit
  <2>1. /\ pc = "session" /\ pc' = (IF cfg = base THEN "shell" ELSE "leaving") /\ UNCHANGED <<drv, dev, flash, stored, settled>>
    BY ONLY <1>9 DEF Quit, Idle, device, history
  <2>2. CASE cfg = base
    <3>1. pc # "saving" /\ pc' \in {"shell", "parse", "bind"} BY ONLY <2>1, <2>2
    <3> QED BY <2>1, <3>1, SurvivesAside
  <2>3. CASE cfg # base
    <3>1. ~settled BY <2>1, <2>3 DEF Surviving, Lasting, Synced
    <3>2. ~settled' /\ pc' # "saving" /\ pc' # "storing" BY ONLY <2>1, <2>3, <3>1
    <3> QED BY ONLY Zenon, <3>2 DEF Surviving, Saving, Storing, Lasting
  <2> QED BY ONLY <2>2, <2>3
<1>10. CASE Leave
  <2>1. pc = "leaving" /\ pc' = "shell" /\ UNCHANGED <<drv, dev, flash, stored, settled>> BY ONLY <1>10 DEF Leave, device, history
  <2>2. pc # "saving" /\ pc' \in {"shell", "parse", "bind"} BY ONLY <2>1
  <2> QED BY <2>1, <2>2, SurvivesAside
<1>11. CASE HandEdit
  <2>1. settled' = FALSE /\ pc' \notin {"saving", "storing"} BY ONLY <1>11 DEF HandEdit
  <2> QED BY ONLY Zenon, <2>1, Unsettled
<1>12. CASE Replug
  <2>1. pc = "shell" /\ pc' = pc /\ dev' = Kept(flash) /\ UNCHANGED <<drv, flash, stored, settled>> BY ONLY Zenon, <1>12 DEF Replug
  <2>2. drv \in Registry BY RegistryAssumption DEF Ready, Setting
  <2>3. \A c : Levelled(drv, c, flash) => Levelled(drv, c, Kept(flash)) BY ONLY <2>2, KeptLevels DEF Levelled
  <2>4. settled => stored # <<>> /\ Levelled(drv, stored[1], flash) BY DEF Surviving, Lasting
  <2>5. pc' # "saving" /\ pc' # "storing" /\ pc' # "session" /\ pc' \in {"shell", "parse", "bind", "session", "saving"} BY ONLY <2>1
  <2> QED BY ONLY Zenon, <2>1, <2>3, <2>4, <2>5 DEF Surviving, Saving, Storing, Lasting
<1>13. CASE UNCHANGED vars
  <2>1. UNCHANGED <<drv, dev, flash, pc, cfg, base, queue, failed, want, stored, settled>> BY ONLY <1>13 DEF vars
  <2> QED BY <2>1, SurvivesStill
<1> QED BY <1>1, <1>2, <1>3, <1>4, <1>5, <1>6, <1>7, <1>8, <1>9, <1>10, <1>11, <1>12, <1>13 DEF Next

\* After a save of which every part worked, a device that lost its power shows, once a
\* new session has synced it, all that this session shows, the CPI levels too: the sync
\* leaves them alone, the flash and the file agree (tui_save(), alloy_driver_save(),
\* alloy_state_store() against alloy_state_load() and the start of alloy_tui_run()).
THEOREM SavedSurvive == Spec => []SavedSurvives
<1>1. Init => Surviving
  <2> SUFFICES ASSUME Init PROVE Surviving OBVIOUS
  <2>1. pc # "saving" /\ pc # "storing" /\ ~settled BY ONLY Init DEF Init
  <2> QED BY ONLY Zenon, <2>1 DEF Surviving, Saving, Storing, Lasting
<1>2. Ready /\ Ready' /\ ShownInv /\ Surviving /\ [Next]_vars => Surviving' BY SurvivesStep DEF Ready
<1>3. Ready /\ ShownInv /\ Surviving => SavedSurvives
  <2> SUFFICES ASSUME Ready, ShownInv, Surviving, settled, Idle, NEW s \in Range(drv.steps) PROVE Shows(drv, s, cfg, dev)
    BY DEF SavedSurvives
  <2>1. pc = "session" /\ queue = <<>> BY DEF Idle
  <2>2. stored # <<>> /\ Levelled(drv, stored[1], dev) /\ Synced BY <2>1 DEF Surviving, Lasting
  <2>3. CASE s = "dpi"
    <3>1. Shown(drv, "dpi", stored[1], dev) BY ONLY <2>2, <2>3, s \in Range(drv.steps) DEF Levelled
    <3>2. PICK c : stored = <<c>> /\ Own(drv, c) BY <2>2 DEF Ready, Filed
    <3>3. Drv(drv, stored[1])
      <4>1. stored[1] = c /\ drv \in Registry BY <3>2, RegistryAssumption DEF Ready, Setting
      <4> QED BY ONLY <3>2, <4>1 DEF Own, Drv
    <3>4. SameLevels(stored[1], cfg) BY ONLY <2>2 DEF Synced
    <3>5. Shown(drv, "dpi", cfg, dev) BY ONLY <2>3, <3>1, <3>3, <3>4, LevelsShown, s \in Range(drv.steps)
    <3> QED BY ONLY <2>3, <3>5 DEF Shown
  <2>4. CASE s # "dpi"
    <3>1. \A t : ~Pending(queue, t) BY <2>1, NonePending
    <3>2. s \in DOMAIN want /\ want[s] = cfg BY ONLY <2>2, <2>4, <3>1, s \in Range(drv.steps) DEF Synced, Covered, Steps
    <3>3. ~Redone(drv, queue, s) BY ONLY Zenon, <3>1 DEF Redone
    <3>4. Resting(drv, queue, want, dev) BY DEF ShownInv, Showing
    <3>5. Shown(drv, s, cfg, dev) BY ONLY <3>2, <3>3, <3>4 DEF Resting
    <3> QED BY ONLY <3>5 DEF Shown
  <2> QED BY ONLY <2>3, <2>4
<1> QED BY <1>1, <1>2, <1>3, Inv, ShownAlways, PTL DEF Spec

=============================================================================
