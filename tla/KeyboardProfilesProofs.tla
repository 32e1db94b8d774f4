---------------------- MODULE KeyboardProfilesProofs -----------------------
(* That every profile on screen and on the keyboard stays one, that the       *)
(* screen follows the shortcuts, that a complete apply_all is what the next   *)
(* session reads, and that the keyboard is a store of profiles: for any       *)
(* choice lists, factory lighting, number of groups, shortcuts and faults.    *)
EXTENDS KeyboardProfiles, TLAPS

-----------------------------------------------------------------------------
(* Records: what a lighting sets, and what is read of it.                   *)

\* The hardware's effect numbers are 0 to 14 ...
LEMMA Effects == \A i \in 0..14 : HidEffect[i + 1] \in 0..14
BY DEF HidEffect

\* ... no two effects of the list have the same number ...
LEMMA EffectsDiffer == \A i, j \in 0..14 : HidEffect[i + 1] = HidEffect[j + 1] => i = j
BY DEF HidEffect

\* ... so the effect parse_profile_data finds is the one build_lighting sent.
LEMMA EffectBack == \A i \in 0..14 : EffectIndex(HidEffect[i + 1]) = i
<1> SUFFICES ASSUME NEW i \in 0..14 PROVE EffectIndex(HidEffect[i + 1]) = i
  OBVIOUS
<1>1. HidEffect[i + 1] \in Range(HidEffect)
  <2>1. i + 1 \in DOMAIN HidEffect
    BY DEF HidEffect
  <2> QED
    BY <2>1 DEF Range
<1> QED
  BY <1>1, EffectsDiffer DEF EffectIndex

\* the bytes a lighting with effect e sets
Own(e) == {EffectAt, BrightAt(e), SpeedAt(e), MultiAt(e), ZoneAt, ColorAt} \cup Directed(e)

\* A lighting never writes the record's own number nor its polling rate.
LEMMA Offsets ==
    ASSUME NEW e \in 0..14
    PROVE  Own(e) \subseteq Offset \ {Number, PollingAt}
BY DEF Own, Offset, EffectAt, BrightAt, SpeedAt, MultiAt, ZoneAt, ColorAt, Directed, Wave, Spiral,
       DirAt, SpiralAt, Number, PollingAt

\* What build_lighting leaves in each byte, the ones of other effects untouched.
LEMMA LightingBytes ==
    ASSUME NEW l \in Light, NEW r, NEW e, e = HidEffect[l.fx + 1],
           NEW b, b = alu87a_build_lighting(r, l)
    PROVE  /\ DOMAIN b = Offset
           /\ b[EffectAt] = e
           /\ b[BrightAt(e)] = Quarters(l.bright)
           /\ b[SpeedAt(e)] = 6 - Speed(l.speed)
           /\ b[MultiAt(e)] = IF e = Solid \/ l.multi = 0 THEN 0 ELSE 8
           /\ e = Wave => b[DirAt] = l.dir % 4
           /\ e = Spiral => b[SpiralAt] = l.dir % 2
           /\ b[ZoneAt] = IF e # Custom THEN 0 ELSE IF l.zone < 5 THEN l.zone + 1 ELSE 1
           /\ b[ColorAt] = l.color
           /\ \A o \in Offset \ Own(e) : b[o] = r[o]
<1>1. e \in 0..14
  BY Effects DEF Light, Setting
<1> DEFINE f == [o \in Own(e) |->
         CASE o = EffectAt -> e
           [] o = BrightAt(e) -> Quarters(l.bright)
           [] o = SpeedAt(e) -> 6 - Speed(l.speed)
           [] o = MultiAt(e) -> IF e = Solid \/ l.multi = 0 THEN 0 ELSE 8
           [] o = DirAt /\ e = Wave -> l.dir % 4
           [] o = SpiralAt -> l.dir % 2
           [] o = ZoneAt -> IF e # Custom THEN 0 ELSE IF l.zone < 5 THEN l.zone + 1 ELSE 1
           [] o = ColorAt -> l.color]
<1>2. b = With(r, f)
  BY DEF alu87a_build_lighting, Own
<1>3. Own(e) \subseteq Offset
  BY <1>1, Offsets
<1> HIDE DEF f
<1>4. /\ DOMAIN b = Offset
      /\ \A o \in Own(e) : b[o] = f[o]
      /\ \A o \in Offset \ Own(e) : b[o] = r[o]
  <2>1. DOMAIN f = Own(e)
    BY DEF f
  <2> QED
    BY <1>2, <1>3, <2>1 DEF With
<1> USE DEF EffectAt, BrightAt, SpeedAt, MultiAt, ZoneAt, ColorAt, DirAt, SpiralAt, Directed,
            Wave, Spiral
<1>5a. f[EffectAt] = e
  BY <1>1 DEF f, Own
<1>5b. f[BrightAt(e)] = Quarters(l.bright)
  BY <1>1 DEF f, Own
<1>5c. f[SpeedAt(e)] = 6 - Speed(l.speed)
  BY <1>1 DEF f, Own
<1>5d. f[MultiAt(e)] = IF e = Solid \/ l.multi = 0 THEN 0 ELSE 8
  BY <1>1 DEF f, Own
<1>5e. f[ZoneAt] = IF e # Custom THEN 0 ELSE IF l.zone < 5 THEN l.zone + 1 ELSE 1
  BY <1>1 DEF f, Own
<1>5f. f[ColorAt] = l.color
  BY <1>1 DEF f, Own
<1>6. /\ e = Wave => DirAt \in Own(e) /\ f[DirAt] = l.dir % 4
      /\ e = Spiral => SpiralAt \in Own(e) /\ f[SpiralAt] = l.dir % 2
  BY <1>1 DEF f, Own, EffectAt, BrightAt, SpeedAt, MultiAt, ZoneAt, ColorAt, DirAt, SpiralAt,
              Directed, Wave, Spiral
<1>7. {EffectAt, BrightAt(e), SpeedAt(e), MultiAt(e), ZoneAt, ColorAt} \subseteq Own(e)
  BY DEF Own
<1> QED
  BY <1>4, <1>5a, <1>5b, <1>5c, <1>5d, <1>5e, <1>5f, <1>6, <1>7

\* The keyboard holds lighting l in record r.
Lit(r, l) == alu87a_build_lighting(r, l) = r

\* Writing the same bytes again changes nothing ...
LEMMA WithTwice == \A r, f : With(With(r, f), f) = With(r, f)
BY DEF With

\* ... so a record that was just built holds its lighting.
LEMMA BuiltIsLit ==
    ASSUME NEW l \in Light, NEW r
    PROVE  Lit(alu87a_build_lighting(r, l), l)
BY WithTwice DEF Lit, alu87a_build_lighting

\* The keyboard knows five brightnesses.
LEMMA QuartersRange == \A n \in Nat : Quarters(n) \in 0..4
BY DEF Quarters

\* What the next session reads in a record that was lit.
LEMMA RoundTrip ==
    ASSUME NEW l \in Light, NEW r, Lit(r, l), NEW m \in Light, m.dir = 0
    PROVE  ParsedLight(r, m) = Held(l)
<1> DEFINE e == HidEffect[l.fx + 1]
<1>1. e \in 0..14 /\ EffectIndex(e) = l.fx
  BY Effects, EffectBack DEF Light, Setting
<1>2. /\ r[EffectAt] = e
      /\ r[BrightAt(e)] = Quarters(l.bright)
      /\ r[SpeedAt(e)] = 6 - Speed(l.speed)
      /\ r[MultiAt(e)] = IF e = Solid \/ l.multi = 0 THEN 0 ELSE 8
      /\ e = Wave => r[DirAt] = l.dir % 4
      /\ e = Spiral => r[SpiralAt] = l.dir % 2
      /\ r[ZoneAt] = IF e # Custom THEN 0 ELSE IF l.zone < 5 THEN l.zone + 1 ELSE 1
      /\ r[ColorAt] = l.color
  BY LightingBytes DEF Lit
<1>3. Quarters(l.bright) \in 0..4
  BY QuartersRange DEF Light, Setting
<1> DEFINE p == ParsedLight(r, m)
<1>4. /\ p.fx = l.fx
      /\ p.bright = 25 * Quarters(l.bright)
      /\ p.color = l.color
  BY <1>1, <1>2, <1>3 DEF ParsedLight
<1>5. p.speed = l.speed
  BY <1>2 DEF ParsedLight, Speed, Light, Setting
<1>6. p.multi = IF e = Solid THEN 0 ELSE l.multi
  BY <1>2 DEF ParsedLight, Light, Setting
<1>7. p.dir = CASE e = Wave -> l.dir [] e = Spiral -> l.dir % 2 [] OTHER -> 0
  BY <1>2 DEF ParsedLight, Light, Setting, Wave, Spiral
<1>8. p.zone = IF e = Custom THEN l.zone ELSE 0
  BY <1>2 DEF ParsedLight, Light, Setting
<1>9. p = [fx |-> p.fx, bright |-> p.bright, speed |-> p.speed, multi |-> p.multi, dir |-> p.dir,
           zone |-> p.zone, color |-> p.color]
  BY DEF ParsedLight
<1> HIDE DEF p
<1>11. p = Held(l)
  BY <1>4, <1>5, <1>6, <1>7, <1>8, <1>9 DEF Held, e
<1> QED
  BY <1>11 DEF p

-----------------------------------------------------------------------------
(* The edits of the screen.                                                 *)

\* There is a pair of keys to choose, and an unused slot is no group.
LEMMA Pairs == /\ \A i \in 1..Len(Pair) : Pair[i] \in Range(Pair)
               /\ Len(Pair) \in Nat \ {0}
               /\ NoGroup \notin Group
<1>1. Pair \in Seq(Range(Pair)) /\ Pair # <<>> /\ NoGroup.keys \notin Range(Pair)
  BY GroupAssumption
<1> QED
  BY <1>1 DEF Group

\* The group a configuration starts with is one.
LEMMA FirstIsGroup == FirstGroup \in Group
BY Pairs DEF FirstGroup, Group

\* Settings of the lighting stay lightings.
LEMMA LightEdit ==
    ASSUME NEW l \in Light, NEW f \in DOMAIN Setting, NEW v \in Setting[f]
    PROVE  [l EXCEPT ![f] = v] \in Light
<1>1. f \in {"fx", "bright", "speed", "multi", "dir", "zone", "color"}
  BY DEF Setting
<1>2. l = [fx |-> l.fx, bright |-> l.bright, speed |-> l.speed, multi |-> l.multi,
           dir |-> l.dir, zone |-> l.zone, color |-> l.color]
  BY DEF Light
<1> QED
  BY <1>1, <1>2 DEF Light, Setting

\* Whatever the screen sets, a configuration stays one.
LEMMA EditsAreSound ==
    ASSUME NEW c, Sound(c)
    PROVE  /\ \A f \in DOMAIN Setting : \A v \in Setting[f] : Sound([c EXCEPT !.light[f] = v])
           /\ \A hz \in Rates : Sound([c EXCEPT !.polling = hz])
           /\ Sound([c EXCEPT !.snap = 1 - @])
           /\ \A p \in Profile : Sound([c EXCEPT !.profile = p])
           /\ \A i \in 1..c.count : \A m \in 0..1 : Sound([c EXCEPT !.slots[i].mode = m])
           /\ \A i \in 1..c.count : \A k \in Range(Pair) : Sound([c EXCEPT !.slots[i].keys = k])
           /\ c.count < MaxGroups =>
                \A k \in Range(Pair) :
                  Sound([c EXCEPT !.count = @ + 1,
                                  !.slots[c.count + 1] = [mode |-> 0, keys |-> k]])
           /\ c.count > 1 => Sound([c EXCEPT !.count = @ - 1])
<1> USE DEF Sound
<1>1. ASSUME NEW f \in DOMAIN Setting, NEW v \in Setting[f]
      PROVE  Sound([c EXCEPT !.light[f] = v])
  <2>1. [c.light EXCEPT ![f] = v] \in Light
    BY LightEdit DEF Config
  <2> QED
    BY <2>1 DEF Config
<1>2. ASSUME NEW hz \in Rates PROVE Sound([c EXCEPT !.polling = hz])
  BY <1>2, RatesAssumption DEF Config
<1>3. Sound([c EXCEPT !.snap = 1 - @])
  BY DEF Config
<1>4. ASSUME NEW p \in Profile PROVE Sound([c EXCEPT !.profile = p])
  BY <1>4 DEF Config
<1>0. /\ c.light \in Light /\ c.polling \in {125, 250, 500, 1000} /\ c.snap \in 0..1
      /\ c.count \in 1..MaxGroups /\ c.slots \in [1..MaxGroups -> Group \cup {NoGroup}]
      /\ c.profile \in Profile /\ MaxGroups \in Nat
  BY GroupAssumption DEF Config
<1>5. ASSUME NEW i \in 1..c.count, NEW m \in 0..1 PROVE Sound([c EXCEPT !.slots[i].mode = m])
  <2> DEFINE g == [c.slots[i] EXCEPT !.mode = m]
             s == [c.slots EXCEPT ![i] = g]
  <2>1. g \in Group
    BY DEF Group
  <2>2. [c EXCEPT !.slots[i].mode = m] = [c EXCEPT !.slots = s]
    OBVIOUS
  <2> HIDE DEF g
  <2>3. s \in [1..MaxGroups -> Group \cup {NoGroup}] /\ \A j \in 1..c.count : s[j] \in Group
    BY <1>0, <2>1
  <2> HIDE DEF s
  <2>4. Sound([c EXCEPT !.slots = s])
    BY <2>3 DEF Config
  <2> QED
    BY <2>2, <2>4
<1>6. ASSUME NEW i \in 1..c.count, NEW k \in Range(Pair)
      PROVE  Sound([c EXCEPT !.slots[i].keys = k])
  <2> DEFINE g == [c.slots[i] EXCEPT !.keys = k]
             s == [c.slots EXCEPT ![i] = g]
  <2>1. g \in Group
    BY DEF Group
  <2>2. [c EXCEPT !.slots[i].keys = k] = [c EXCEPT !.slots = s]
    OBVIOUS
  <2> HIDE DEF g
  <2>3. s \in [1..MaxGroups -> Group \cup {NoGroup}] /\ \A j \in 1..c.count : s[j] \in Group
    BY <1>0, <2>1
  <2> HIDE DEF s
  <2>4. Sound([c EXCEPT !.slots = s])
    BY <2>3 DEF Config
  <2> QED
    BY <2>2, <2>4
<1>7. ASSUME c.count < MaxGroups, NEW k \in Range(Pair)
      PROVE  Sound([c EXCEPT !.count = @ + 1,
                             !.slots[c.count + 1] = [mode |-> 0, keys |-> k]])
  <2> DEFINE s == [c.slots EXCEPT ![c.count + 1] = [mode |-> 0, keys |-> k]]
             d == [c EXCEPT !.count = @ + 1, !.slots = s]
  <2>1. [mode |-> 0, keys |-> k] \in Group
    BY DEF Group
  <2>2. s \in [1..MaxGroups -> Group \cup {NoGroup}] /\ \A j \in 1..c.count + 1 : s[j] \in Group
    BY <1>0, <1>7, <2>1
  <2>3. [c EXCEPT !.count = @ + 1, !.slots[c.count + 1] = [mode |-> 0, keys |-> k]] = d
    OBVIOUS
  <2> HIDE DEF s
  <2>4. c.count + 1 \in 1..MaxGroups
    BY <1>0, <1>7
  <2>5. d = [[c EXCEPT !.count = @ + 1] EXCEPT !.slots = s]
    OBVIOUS
  <2>6. d \in Config /\ d.count = c.count + 1 /\ d.slots = s
    <3>1. d.count = c.count + 1 /\ d.slots = s
      BY <2>5 DEF Config
    <3>2. [c EXCEPT !.count = @ + 1] \in Config
      BY <2>4 DEF Config
    <3>3. ASSUME NEW x \in Config PROVE [x EXCEPT !.slots = s] \in Config
      BY <2>2 DEF Config
    <3>4. d \in Config
      BY <2>5, <3>2, <3>3
    <3> QED
      BY <3>1, <3>4
  <2> HIDE DEF d
  <2> QED
    BY <2>2, <2>3, <2>6
<1>8. ASSUME c.count > 1 PROVE Sound([c EXCEPT !.count = @ - 1])
  <2> DEFINE d == [c EXCEPT !.count = @ - 1]
  <2>1. c.count - 1 \in 1..MaxGroups
    BY <1>0, <1>8
  <2>2. d \in Config /\ d.count = c.count - 1 /\ d.slots = c.slots
    BY <2>1 DEF Config
  <2> HIDE DEF d
  <2>3. Sound(d)
    BY <1>0, <2>2
  <2> QED
    BY <2>3 DEF d
<1> QED
  BY <1>1, <1>2, <1>3, <1>4, <1>5, <1>6, <1>7, <1>8

-----------------------------------------------------------------------------
(* What the keyboard holds, and the invariant.                              *)

\* A step under way has read what it changes, or could not; what it has left
\* to send belongs to a custom lighting.
StepInv ==
    /\ Idle => held = <<>> /\ rest = 0
    /\ held # <<>> =>
         /\ rest = 0
         /\ Step = "polling" \/ Lighting
         /\ held[1] \in {dev.rec[BaseProfile], Zeros}
    /\ rest > 0 => held = <<>> /\ Lighting /\ HidEffect[cfg.light.fx + 1] = Custom

KbdInv == KbdTypeOK /\ StepInv

-----------------------------------------------------------------------------
\* A record that could not be read is one, of no profile.
LEMMA ZerosRecord == Record(Zeros) /\ Zeros[Number] = 0
BY LightAssumption DEF Record, Zeros, Offset, Number, ColorAt, PollingAt, EffectAt, SpiralAt

\* A lighting leaves a record a record, of the same profile and polling rate.
LEMMA LitRecord ==
    ASSUME NEW l \in Light, NEW r, Record(r)
    PROVE  /\ Record(alu87a_build_lighting(r, l))
           /\ alu87a_build_lighting(r, l)[Number] = r[Number]
           /\ alu87a_build_lighting(r, l)[PollingAt] = r[PollingAt]
<1> DEFINE e == HidEffect[l.fx + 1]
           b == alu87a_build_lighting(r, l)
<1>1. e \in 0..14
  BY Effects DEF Light, Setting
<1>2. /\ DOMAIN b = Offset
      /\ b[EffectAt] = e
      /\ b[BrightAt(e)] = Quarters(l.bright)
      /\ b[SpeedAt(e)] = 6 - Speed(l.speed)
      /\ b[MultiAt(e)] = IF e = Solid \/ l.multi = 0 THEN 0 ELSE 8
      /\ e = Wave => b[DirAt] = l.dir % 4
      /\ e = Spiral => b[SpiralAt] = l.dir % 2
      /\ b[ZoneAt] = IF e # Custom THEN 0 ELSE IF l.zone < 5 THEN l.zone + 1 ELSE 1
      /\ b[ColorAt] = l.color
      /\ \A o \in Offset \ Own(e) : b[o] = r[o]
  BY LightingBytes
<1> HIDE DEF b, e
<1>3. /\ b[BrightAt(e)] \in 0..255 /\ b[SpeedAt(e)] \in 0..255 /\ b[MultiAt(e)] \in 0..255
      /\ b[ZoneAt] \in 0..255 /\ b[EffectAt] \in 0..255 /\ b[ColorAt] \in Color
      /\ e = Wave => b[DirAt] \in 0..255
      /\ e = Spiral => b[SpiralAt] \in 0..255
  BY <1>1, <1>2, QuartersRange DEF Light, Setting, Speed
<1>4. \A o \in Own(e) \ {ColorAt} : b[o] \in 0..255
  BY <1>3 DEF Own, Directed
<1>5. Number \in Offset \ Own(e) /\ PollingAt \in Offset \ Own(e)
  BY <1>1 DEF Own, Offset, EffectAt, BrightAt, SpeedAt, MultiAt, ZoneAt, ColorAt, Directed, Wave,
              Spiral, DirAt, SpiralAt, Number, PollingAt
<1>6. Record(b)
  BY <1>2, <1>3, <1>4 DEF Record
<1> QED
  BY <1>2, <1>5, <1>6 DEF b

\* So does a polling rate, which changes nothing else.
LEMMA PolledRecord ==
    ASSUME NEW hz, NEW r, Record(r)
    PROVE  /\ Record(alu87a_build_polling(r, hz))
           /\ alu87a_build_polling(r, hz)[PollingAt] = RateIndex(hz)
           /\ \A o \in Offset \ {PollingAt} : alu87a_build_polling(r, hz)[o] = r[o]
<1>1. RateIndex(hz) \in 1..4
  BY DEF RateIndex
<1>2. PollingAt \in Offset \ {ColorAt} /\ PollingAt # Number
  BY DEF Offset, PollingAt, ColorAt, Number
<1> DEFINE b == alu87a_build_polling(r, hz)
<1>3. /\ DOMAIN b = Offset /\ b[PollingAt] = RateIndex(hz)
      /\ \A o \in Offset \ {PollingAt} : b[o] = r[o]
  BY <1>2 DEF alu87a_build_polling, With
<1> HIDE DEF b
<1>4. Record(b)
  BY <1>1, <1>2, <1>3 DEF Record, Offset, ColorAt
<1> QED
  BY <1>3, <1>4 DEF b

\* A write to one of the keyboard's stores, one way each.
LEMMA DeviceWrites ==
    ASSUME NEW d, SoundDevice(d), NEW p \in Profile
    PROVE  /\ \A r : Record(r) /\ r[Number] = p => SoundDevice([d EXCEPT !.rec[p] = r])
           /\ SoundDevice([d EXCEPT !.active = p])
           /\ \A s \in SnapTap : SoundDevice([d EXCEPT !.snap[p] = s])
           /\ SoundDevice([d EXCEPT !.snap[p].on = 1 - @])
           /\ \A z \in 0..4, h \in 1..2, c \in Color : SoundDevice([d EXCEPT !.matrix[p][z][h] = c])
<1>1. ASSUME NEW r, Record(r), r[Number] = p PROVE SoundDevice([d EXCEPT !.rec[p] = r])
  BY <1>1 DEF SoundDevice
<1>2. SoundDevice([d EXCEPT !.active = p])
  BY DEF SoundDevice
<1>3. ASSUME NEW s \in SnapTap PROVE SoundDevice([d EXCEPT !.snap[p] = s])
  BY <1>3 DEF SoundDevice
<1>4. SoundDevice([d EXCEPT !.snap[p].on = 1 - @])
  <2> DEFINE s == [d.snap[p] EXCEPT !.on = 1 - @]
  <2>0. d.snap[p] \in SnapTap
    BY DEF SoundDevice
  <2>1. s \in SnapTap
    BY <2>0 DEF SnapTap
  <2>2. [d EXCEPT !.snap[p].on = 1 - @] = [d EXCEPT !.snap[p] = s]
    OBVIOUS
  <2> HIDE DEF s
  <2>3. SoundDevice([d EXCEPT !.snap[p] = s])
    BY <2>1, <1>3
  <2> QED
    BY <2>2, <2>3
<1>5. ASSUME NEW z \in 0..4, NEW h \in 1..2, NEW c \in Color
      PROVE  SoundDevice([d EXCEPT !.matrix[p][z][h] = c])
  BY DEF SoundDevice
<1> QED
  BY <1>1, <1>2, <1>3, <1>4, <1>5

\* A reader finds as many groups as come before the first empty pair.
LEMMA FilledUntil ==
    ASSUME NEW g \in [1..MaxGroups -> Group \cup {NoGroup}], NEW n \in 0..MaxGroups,
           \A i \in 1..MaxGroups : g[i] \in Group <=> i <= n
    PROVE  Filled(g) = n
<1> DEFINE Ends(m) == /\ \A i \in 1..m : g[i].keys # NoGroup.keys
                      /\ m < MaxGroups => g[m + 1].keys = NoGroup.keys
<1>1. MaxGroups \in Nat
  BY GroupAssumption
<1>2. \A i \in 1..MaxGroups : (g[i].keys # NoGroup.keys) <=> i <= n
  BY GroupAssumption DEF Group
<1>3. Ends(n)
  BY <1>1, <1>2
<1>4. ASSUME NEW m \in 0..MaxGroups, Ends(m) PROVE m = n
  <2>1. ~(m < n)
    BY <1>1, <1>2, <1>4
  <2>2. ~(n < m)
    BY <1>1, <1>2, <1>4
  <2> QED
    BY <1>1, <2>1, <2>2
<1>5. Filled(g) = CHOOSE m \in 0..MaxGroups : Ends(m)
  BY DEF Filled
<1> HIDE DEF Ends
<1> QED
  BY <1>3, <1>4, <1>5

\* The snap tap set-up that is sent is one the keyboard can hold: the groups
\* in use, and nothing behind them.
LEMMA SentGroups ==
    ASSUME NEW c, Sound(c)
    PROVE  /\ darkproject_build_snap_tap(c) \in SnapTap
           /\ darkproject_build_snap_tap(c).on = c.snap
           /\ Filled(darkproject_build_snap_tap(c).groups) = c.count
           /\ \A i \in 1..c.count : darkproject_build_snap_tap(c).groups[i] = c.slots[i]
           /\ c.count \in 1..MaxGroups
<1> DEFINE s == darkproject_build_snap_tap(c)
           g == s.groups
<1>1. c.count \in 1..MaxGroups /\ c.snap \in 0..1 /\ MaxGroups \in Nat
  BY GroupAssumption DEF Sound, Config
<1>2. ASSUME NEW x \in Group PROVE Keyed(x) = x
  BY GroupAssumption DEF Keyed, Group
<1>3. /\ s = [on |-> c.snap, groups |-> g] /\ DOMAIN g = 1..MaxGroups
      /\ \A i \in 1..c.count : g[i] = c.slots[i]
      /\ \A i \in 1..MaxGroups : i > c.count => g[i] = NoGroup
  BY <1>1, <1>2 DEF darkproject_build_snap_tap, Sound
<1> HIDE DEF s
<1>4. \A i \in 1..MaxGroups : g[i] \in Group <=> i <= c.count
  BY <1>1, <1>3, Pairs DEF Sound
<1>5. g \in [1..MaxGroups -> Group \cup {NoGroup}]
  <2>1. \A i \in 1..MaxGroups : g[i] \in Group \cup {NoGroup}
    BY <1>1, <1>3, <1>4
  <2>2. g = [i \in 1..MaxGroups |-> g[i]]
    BY <1>3 DEF s, darkproject_build_snap_tap
  <2> HIDE DEF g
  <2> QED
    BY <2>1, <2>2
<1> HIDE DEF g
<1>6. Filled(g) = c.count
  BY <1>1, <1>4, <1>5, FilledUntil
<1>7. s \in SnapTap
  <2>1. c.count \in 0..MaxGroups
    BY <1>1
  <2>2. Layout(g)
    BY <1>4, <2>1 DEF Layout
  <2>3. s \in [on : 0..1, groups : [1..MaxGroups -> Group \cup {NoGroup}]]
    BY <1>1, <1>3, <1>5
  <2>4. s.groups = g
    BY DEF g
  <2> QED
    BY <2>2, <2>3, <2>4 DEF SnapTap
<1> QED
  BY <1>1, <1>3, <1>6, <1>7 DEF s, g

-----------------------------------------------------------------------------
(* The first configuration.                                                 *)

\* What is read of a record is a lighting.
LEMMA ParsedIsLight ==
    ASSUME NEW r, Record(r), r[EffectAt] \in 0..14, NEW l \in Light
    PROVE  ParsedLight(r, l) \in Light
<1> DEFINE e == r[EffectAt]
           p == ParsedLight(r, l)
<1>1. {BrightAt(e), SpeedAt(e), MultiAt(e), ZoneAt} \subseteq Offset \ {ColorAt}
  BY DEF Offset, BrightAt, SpeedAt, MultiAt, ZoneAt, ColorAt
<1>2. /\ e = Wave => DirAt \in Offset \ {ColorAt}
      /\ e = Spiral => SpiralAt \in Offset \ {ColorAt}
  BY DEF Offset, DirAt, SpiralAt, ColorAt
<1>3. EffectIndex(e) \in 0..14
  <2>1. ASSUME e \in Range(HidEffect) PROVE \E i \in 0..14 : HidEffect[i + 1] = e
    BY <2>1 DEF HidEffect, Range
  <2> QED
    BY <2>1 DEF EffectIndex
<1>4. p.fx \in 0..14 /\ p.color \in Color
  BY <1>3 DEF ParsedLight, Record
<1>5. p.bright \in 0..100 /\ p.speed \in 1..5 /\ p.multi \in 0..1 /\ p.zone \in 0..4
  BY <1>1 DEF ParsedLight, Record
<1>6. p.dir \in 0..3
  BY <1>2 DEF ParsedLight, Record, Light, Setting
<1>7. p = [fx |-> p.fx, bright |-> p.bright, speed |-> p.speed, multi |-> p.multi,
           dir |-> p.dir, zone |-> p.zone, color |-> p.color]
  BY DEF ParsedLight
<1> HIDE DEF p
<1>8. p \in Light
  BY <1>4, <1>5, <1>6, <1>7 DEF Light, Setting
<1> QED
  BY <1>8 DEF p

\* read_config makes a configuration of whatever the keyboard holds and answers.
LEMMA ProbeIsSound ==
    ASSUME NEW d, SoundDevice(d), NEW bad, d.rec[d.active][EffectAt] \in 0..14,
           d.rec[1][EffectAt] \in 0..14
    PROVE  /\ Sound(alu87a_read_config(d, bad))
           /\ "current" \notin bad => alu87a_read_config(d, bad).profile = d.active
<1> DEFINE p == IF "current" \in bad THEN 1 ELSE d.active
           c0 == [alu87a_config_defaults EXCEPT !.profile = p]
           c1 == IF "snap" \in bad THEN c0 ELSE darkproject_parse_snap_tap_data(d.snap[p], c0)
           c2 == IF "profile" \in bad THEN c1 ELSE alu87a_parse_profile_data(d.rec[p], c1)
<1>1. p \in Profile /\ d.rec[p][EffectAt] \in 0..14 /\ Record(d.rec[p])
  BY ProfilesAssumption DEF SoundDevice
<1>2. d.snap[p] \in SnapTap
  BY <1>1 DEF SoundDevice
<1>3. c2 = alu87a_read_config(d, bad)
  BY DEF alu87a_read_config
<1> HIDE DEF p
<1>4. Sound(c0) /\ c0.profile = p
  <2> DEFINE l == alu87a_config_defaults.light
             g == alu87a_config_defaults.slots
  <2>1. l \in Light
    BY LightAssumption DEF alu87a_config_defaults, Light, Setting
  <2>2. g \in [1..MaxGroups -> Group \cup {NoGroup}] /\ g[1] \in Group
    BY FirstIsGroup, GroupAssumption DEF alu87a_config_defaults
  <2>3. c0 = [light |-> l, polling |-> 1000, snap |-> 0, count |-> 1, slots |-> g, profile |-> p]
    <3>1. alu87a_config_defaults =
            [light |-> l, polling |-> 1000, snap |-> 0, count |-> 1, slots |-> g, profile |-> 1]
      BY DEF alu87a_config_defaults
    <3> HIDE DEF l, g
    <3> QED
      BY <3>1
  <2> HIDE DEF l, g, c0
  <2>4. c0 \in Config
    BY <1>1, <2>1, <2>2, <2>3, GroupAssumption DEF Config
  <2> QED
    BY <2>2, <2>3, <2>4 DEF Sound
<1> HIDE DEF c0
<1>5. Sound(c1) /\ c1.profile = p
  <2> DEFINE s == d.snap[p]
             f == Filled(s.groups)
             n == IF f = 0 THEN 1 ELSE f
             g == [i \in 1..MaxGroups |-> IF i <= f THEN s.groups[i]
                                          ELSE IF f = 0 /\ i = 1 THEN FirstGroup ELSE c0.slots[i]]
  <2>1. PICK k \in 0..MaxGroups : \A i \in 1..MaxGroups : s.groups[i] \in Group <=> i <= k
    BY <1>2 DEF SnapTap, Layout
  <2>2. f = k /\ s.on \in 0..1 /\ s.groups \in [1..MaxGroups -> Group \cup {NoGroup}]
    BY <1>2, <2>1, FilledUntil DEF SnapTap
  <2>3. g \in [1..MaxGroups -> Group \cup {NoGroup}] /\ n \in 1..MaxGroups
        /\ \A i \in 1..n : g[i] \in Group
    <3> HIDE DEF f
    <3> QED
      BY <1>4, <2>1, <2>2, FirstIsGroup, GroupAssumption DEF Sound, Config
  <2>4. darkproject_parse_snap_tap_data(s, c0) =
          [[[c0 EXCEPT !.snap = s.on] EXCEPT !.count = n] EXCEPT !.slots = g]
    BY DEF darkproject_parse_snap_tap_data
  <2> HIDE DEF g, n, f
  <2>5. ASSUME NEW x \in Config
        PROVE  /\ [x EXCEPT !.snap = s.on] \in Config
               /\ [x EXCEPT !.snap = s.on].profile = x.profile
               /\ [x EXCEPT !.count = n] \in Config
               /\ [x EXCEPT !.count = n].profile = x.profile
               /\ [x EXCEPT !.count = n].count = n
               /\ [x EXCEPT !.slots = g] \in Config
               /\ [x EXCEPT !.slots = g].profile = x.profile
               /\ [x EXCEPT !.slots = g].count = x.count
               /\ [x EXCEPT !.slots = g].slots = g
    BY <2>2, <2>3 DEF Config
  <2> DEFINE x1 == [c0 EXCEPT !.snap = s.on]
             x2 == [x1 EXCEPT !.count = n]
             x3 == [x2 EXCEPT !.slots = g]
  <2>6. x1 \in Config /\ x1.profile = c0.profile
    BY <1>4, <2>5 DEF Sound
  <2> HIDE DEF x1
  <2>7. x2 \in Config /\ x2.profile = c0.profile /\ x2.count = n
    BY <2>5, <2>6
  <2> HIDE DEF x2
  <2>8. x3 \in Config /\ x3.profile = c0.profile /\ x3.count = n /\ x3.slots = g
    BY <2>5, <2>7
  <2> HIDE DEF x3
  <2>9. Sound(x3) /\ x3.profile = p
    BY <1>4, <2>3, <2>8 DEF Sound
  <2> QED
    BY <1>4, <2>4, <2>9 DEF x1, x2, x3
<1> HIDE DEF c1
<1>6. Sound(c2) /\ c2.profile = p
  <2> DEFINE l == ParsedLight(d.rec[p], c1.light)
             hz == IndexRate(d.rec[p][PollingAt])
  <2>1. l \in Light
    BY <1>1, <1>5, ParsedIsLight DEF Sound, Config
  <2>2. hz \in {125, 250, 500, 1000}
    BY DEF IndexRate
  <2>3. alu87a_parse_profile_data(d.rec[p], c1) = [[c1 EXCEPT !.polling = hz] EXCEPT !.light = l]
    BY DEF alu87a_parse_profile_data
  <2> HIDE DEF l, hz
  <2>4. ASSUME NEW x, Sound(x)
        PROVE  /\ Sound([x EXCEPT !.polling = hz]) /\ [x EXCEPT !.polling = hz].profile = x.profile
               /\ Sound([x EXCEPT !.light = l]) /\ [x EXCEPT !.light = l].profile = x.profile
    BY <2>1, <2>2, <2>4 DEF Sound, Config
  <2> DEFINE x1 == [c1 EXCEPT !.polling = hz]
  <2>5. Sound(x1) /\ x1.profile = p
    BY <1>5, <2>4
  <2> HIDE DEF x1
  <2>6. Sound([x1 EXCEPT !.light = l]) /\ [x1 EXCEPT !.light = l].profile = p
    BY <2>4, <2>5
  <2> QED
    BY <1>5, <2>3, <2>6 DEF x1
<1> QED
  BY <1>3, <1>6 DEF p

\* The keyboard as it comes is one.
LEMMA FactoryIsSound ==
    ASSUME NEW a \in Profile
    PROVE  /\ SoundDevice(FactoryDev(a)) /\ FactoryDev(a).active = a
           /\ \A p \in Profile : FactoryDev(a).rec[p][EffectAt] \in 0..14
<1> DEFINE d == FactoryDev(a)
<1>1. ASSUME NEW p \in Profile
      PROVE  Record(d.rec[p]) /\ d.rec[p][Number] = p /\ d.rec[p][EffectAt] \in 0..14
  <2> DEFINE z == [Zeros EXCEPT ![Number] = p]
             b == alu87a_build_lighting(z, Factory[p])
  <2>1. Record(z) /\ z[Number] = p
    BY ZerosRecord, ProfilesAssumption DEF Record, Number, Offset, ColorAt
  <2>2. Factory[p] \in Light
    BY LightAssumption
  <2> HIDE DEF z
  <2>3. Record(b) /\ b[Number] = p
    BY <2>1, <2>2, LitRecord
  <2>4. b[EffectAt] \in 0..14
    BY <2>2, LightingBytes, Effects DEF Light, Setting
  <2>5. d.rec[p] = alu87a_build_polling(b, 1000)
    BY DEF FactoryDev, z
  <2> HIDE DEF b, d
  <2>6. Number \in Offset \ {PollingAt} /\ EffectAt \in Offset \ {PollingAt}
    BY DEF Number, EffectAt, PollingAt, Offset
  <2> QED
    BY <2>3, <2>4, <2>5, <2>6, PolledRecord
<1>2. /\ DOMAIN d = {"rec", "snap", "active", "matrix"} /\ DOMAIN d.rec = Profile /\ d.active = a
  BY DEF FactoryDev
<1>4. d.snap \in [Profile -> SnapTap]
  <2> DEFINE g == [i \in 1..MaxGroups |-> IF i = 1 THEN FirstHeld ELSE NoGroup]
             n == IF FirstHeld = NoGroup THEN 0 ELSE 1
  <2>1. g \in [1..MaxGroups -> Group \cup {NoGroup}] /\ n \in 0..MaxGroups
    BY FirstHeldAssumption, GroupAssumption
  <2>2. \A i \in 1..MaxGroups : g[i] \in Group <=> i <= n
    BY FirstHeldAssumption, Pairs
  <2>3. d.snap = [p \in Profile |-> [on |-> 0, groups |-> g]]
    BY DEF FactoryDev
  <2> HIDE DEF d, g, n
  <2>4. [on |-> 0, groups |-> g] \in SnapTap
    <3>1. Layout(g)
      BY <2>1, <2>2 DEF Layout
    <3> QED
      BY <2>1, <3>1 DEF SnapTap
  <2> QED
    BY <2>3, <2>4
<1>6. d.matrix \in [Profile -> [0..4 -> [1..2 -> Color]]]
  BY LightAssumption DEF FactoryDev
<1> HIDE DEF d
<1>7. SoundDevice(d)
  BY <1>1, <1>2, <1>4, <1>6 DEF SoundDevice
<1> QED
  BY <1>1, <1>2, <1>7 DEF d

\* A session starts in the invariant.
LEMMA InitSound == Init => KbdInv
<1> SUFFICES ASSUME Init PROVE KbdInv
  OBVIOUS
<1>1. PICK a \in Profile : \E bad \in SUBSET {"current", "snap", "profile"} :
        dev = FactoryDev(a) /\ cfg = alu87a_read_config(dev, bad)
  BY DEF Init
<1>2. PICK bad : dev = FactoryDev(a) /\ cfg = alu87a_read_config(dev, bad)
  BY <1>1
<1>3. SoundDevice(dev) /\ \A p \in Profile : dev.rec[p][EffectAt] \in 0..14
  BY <1>2, FactoryIsSound
<1>4. Sound(cfg)
  BY <1>2, <1>3, ProbeIsSound, ProfilesAssumption DEF SoundDevice
<1> QED
  BY <1>3, <1>4 DEF Init, KbdInv, KbdTypeOK, StepInv, Idle

-----------------------------------------------------------------------------
(* Steps that push.                                                         *)

\* The queue of steps stays one.
LEMMA Tasks ==
    /\ alu87a_steps \in Seq(Range(alu87a_steps))
    /\ \A s \in {"polling", "colors", "brightness", "snap-tap", "profile"} :
         <<s>> \in Seq(Range(alu87a_steps))
    /\ \A q \in Seq(Range(alu87a_steps)) : q # <<>> => Tail(q) \in Seq(Range(alu87a_steps))
<1>1. Range(alu87a_steps) = {"polling", "colors", "brightness", "snap-tap", "profile"}
  <2>1. DOMAIN alu87a_steps = 1..5
    BY DEF alu87a_steps
  <2>2. /\ alu87a_steps[1] = "polling" /\ alu87a_steps[2] = "colors"
        /\ alu87a_steps[3] = "brightness" /\ alu87a_steps[4] = "snap-tap"
        /\ alu87a_steps[5] = "profile"
    BY DEF alu87a_steps
  <2> QED
    BY <2>1, <2>2 DEF Range
<1>2. alu87a_steps \in Seq({"polling", "colors", "brightness", "snap-tap", "profile"})
  BY DEF alu87a_steps
<1> QED
  BY <1>1, <1>2

\* An edit, whatever it sets.
LEMMA ChangeSound ==
    ASSUME KbdInv, NEW c, Sound(c),
           NEW s \in {"polling", "colors", "brightness", "snap-tap", "profile"}, Change(c, s)
    PROVE  KbdInv'
BY Tasks DEF Change, KbdInv, KbdTypeOK, StepInv, Idle

\* Every edit of the screen is a Change to a configuration.
LEMMA EditSound ==
    ASSUME KbdInv, Edit
    PROVE  \E c, s : /\ Change(c, s) /\ Sound(c)
                     /\ s \in {"polling", "colors", "brightness", "snap-tap", "profile"}
<1> USE DEF KbdInv, KbdTypeOK
<1>1. CASE EditLight
  BY <1>1, EditsAreSound, LightAssumption DEF EditLight
<1>2. CASE EditPolling
  BY <1>2, EditsAreSound DEF EditPolling
<1>3. CASE snap_set
  BY <1>3, EditsAreSound DEF snap_set
<1>4. CASE profile_set
  BY <1>4, EditsAreSound DEF profile_set
<1>5. CASE mode_set
  BY <1>5, EditsAreSound DEF mode_set
<1>6. CASE keys_set
  BY <1>6, EditsAreSound DEF keys_set
<1>7. CASE group_add
  <2>1. cfg.count \in Nat
    BY GroupAssumption DEF Sound, Config
  <2>2. Pair[(cfg.count % Len(Pair)) + 1] \in Range(Pair)
    BY <2>1, Pairs
  <2> QED
    BY <1>7, <2>2, EditsAreSound DEF group_add
<1>8. CASE group_del
  BY <1>8, EditsAreSound DEF group_del
<1> QED
  BY <1>1, <1>2, <1>3, <1>4, <1>5, <1>6, <1>7, <1>8 DEF Edit

\* What a step starts from is a record of that profile, or of none.
LEMMA HeldRecord ==
    ASSUME KbdInv, held # <<>>
    PROVE  /\ Record(held[1]) /\ BaseProfile \in Profile
           /\ held[1] = dev.rec[BaseProfile] \/ held[1] = Zeros
           /\ NewRecord[Number] = held[1][Number]
           /\ Record(NewRecord)
<1>1. BaseProfile \in Profile
  BY ProfilesAssumption DEF BaseProfile, KbdInv, KbdTypeOK, Sound, Config
<1>2. held[1] = dev.rec[BaseProfile] \/ held[1] = Zeros
  BY DEF KbdInv, StepInv
<1>3. Record(held[1])
  BY <1>1, <1>2, ZerosRecord DEF KbdInv, KbdTypeOK, SoundDevice
<1>4. cfg.light \in Light
  BY DEF KbdInv, KbdTypeOK, Sound, Config
<1>5. Number \in Offset \ {PollingAt}
  BY DEF Number, PollingAt, Offset
<1>6. NewRecord[Number] = held[1][Number] /\ Record(NewRecord)
  BY <1>3, <1>4, <1>5, LitRecord, PolledRecord DEF NewRecord
<1> QED
  BY <1>1, <1>2, <1>3, <1>6

\* Wherever the keyboard puts a record, it is that profile's.
LEMMA TakenSound ==
    ASSUME SoundDevice(dev), NEW r, Record(r), r[Number] \in Profile \cup {0}, NEW d \in Taken(r)
    PROVE  SoundDevice(d)
<1>0. 0 \notin Profile
  BY ProfilesAssumption
<1>1. CASE r[Number] # 0
  <2>1. SoundDevice([dev EXCEPT !.rec[r[Number]] = r])
    BY <1>1, DeviceWrites
  <2> QED
    BY <1>1, <2>1 DEF Taken
<1>2. CASE r[Number] = 0
  <2>1. ASSUME NEW p \in Profile PROVE SoundDevice([dev EXCEPT !.rec[p] = [r EXCEPT ![Number] = p]])
    <3>1. Record([r EXCEPT ![Number] = p]) /\ [r EXCEPT ![Number] = p][Number] = p
      BY ProfilesAssumption DEF Record, Number, Offset, ColorAt
    <3> QED
      BY <3>1, DeviceWrites
  <2> QED
    BY <1>2, <2>1 DEF Taken
<1> QED
  BY <1>1, <1>2

\* Every part of a push keeps the invariant.
LEMMA PushSound ==
    ASSUME KbdInv, Push
    PROVE  KbdInv'
<1> USE DEF KbdInv, KbdTypeOK, host
<1>0. cfg \in Config /\ cfg.profile \in Profile /\ 1 \in Profile /\ cfg.light \in Light
  BY ProfilesAssumption DEF Sound, Config
<1>1. CASE ReadBase
  <2>1. BaseProfile \in Profile /\ UNCHANGED <<task, cfg, dev, baseline, events, rest>>
    BY <1>0, <1>1 DEF ReadBase, BaseProfile
  <2>2. PICK r \in {dev.rec[BaseProfile], Zeros} : held' = <<r>>
    BY <1>1 DEF ReadBase
  <2>3. Record(r)
    BY <2>1, <2>2, ZerosRecord DEF SoundDevice
  <2>4. KbdTypeOK'
    BY <2>1, <2>2, <2>3
  <2>5. StepInv'
    BY <1>1, <2>1, <2>2 DEF StepInv, ReadBase, Idle, Step, Lighting, BaseProfile
  <2> QED
    BY <2>4, <2>5
<1>2. CASE WriteRecord
  <2>1. UNCHANGED <<cfg, baseline, events>> /\ held' = <<>> /\ task # <<>> /\ held # <<>>
    BY <1>2 DEF WriteRecord, Idle
  <2>2. SoundDevice(dev')
    <3>1. dev' = dev \/ dev' \in Taken(NewRecord)
      BY <1>2 DEF WriteRecord
    <3>2. NewRecord[Number] \in Profile \cup {0} /\ Record(NewRecord)
      BY <2>1, HeldRecord, ZerosRecord DEF SoundDevice
    <3> QED
      BY <3>1, <3>2, TakenSound
  <2>3. /\ rest' \in 0..2 /\ task' \in Seq(Range(alu87a_steps))
        /\ \/ rest' = 0
           \/ Lighting /\ HidEffect[cfg.light.fx + 1] = Custom /\ task' = task
    <3>1. rest = 0 /\ Tail(task) \in Seq(Range(alu87a_steps))
      BY <2>1, Tasks DEF StepInv
    <3>2. \/ rest' = 2 /\ task' = task /\ Lighting /\ HidEffect[cfg.light.fx + 1] = Custom
          \/ rest' = 0 /\ task' = Tail(task)
      BY <1>2, <3>1 DEF WriteRecord
    <3> QED
      BY <3>1, <3>2
  <2>4. KbdTypeOK'
    BY <2>1, <2>2, <2>3
  <2>5. Idle' => rest' = 0
    BY <2>1, <2>3 DEF Idle
  <2>6. rest' > 0 => Lighting' /\ HidEffect[cfg'.light.fx + 1] = Custom
    BY <2>1, <2>3 DEF Step, Lighting
  <2>7. StepInv'
    BY <2>1, <2>5, <2>6 DEF StepInv
  <2> QED
    BY <2>4, <2>7
<1>3. CASE WriteChunk
  <2>1. UNCHANGED <<cfg, baseline, events, held>> /\ task # <<>> /\ rest > 0 /\ rest' = rest - 1
    BY <1>3 DEF WriteChunk, Idle
  <2>2. SoundDevice(dev')
    <3>1. cfg.light.zone \in 0..4 /\ cfg.light.color \in Color /\ 3 - rest \in 1..2
      BY <1>0, <2>1 DEF Light, Setting
    <3>2. SoundDevice([dev EXCEPT !.matrix[cfg.profile][cfg.light.zone][3 - rest] =
                                      cfg.light.color])
      BY <1>0, <3>1, DeviceWrites
    <3> QED
      BY <1>3, <3>2 DEF WriteChunk
  <2>3. task' = (IF rest = 1 THEN Tail(task) ELSE task) /\ task' \in Seq(Range(alu87a_steps))
    BY <1>3, <2>1, Tasks DEF WriteChunk
  <2>4. KbdTypeOK'
    BY <2>1, <2>2, <2>3
  <2>5. StepInv'
    BY <2>1, <2>3 DEF StepInv, Idle, Step, Lighting
  <2> QED
    BY <2>4, <2>5
<1>4. CASE darkproject_apply_snap_tap \/ darkproject_apply_profile
  <2>1. UNCHANGED <<cfg, baseline, events, held, rest>> /\ task # <<>> /\ task' = Tail(task)
        /\ Step \notin {"polling", "colors", "brightness"}
    BY <1>4 DEF darkproject_apply_snap_tap, darkproject_apply_profile, Idle
  <2>2. SoundDevice(dev')
    <3>1. SoundDevice([dev EXCEPT !.snap[cfg.profile] = darkproject_build_snap_tap(cfg)])
      <4> DEFINE g == darkproject_build_snap_tap(cfg)
      <4>1. g \in SnapTap
        BY SentGroups
      <4> HIDE DEF g
      <4>2. SoundDevice([dev EXCEPT !.snap[cfg.profile] = g])
        BY <1>0, <4>1, DeviceWrites
      <4> QED
        BY <4>2 DEF g
    <3>2. SoundDevice([dev EXCEPT !.active = cfg.profile])
      BY <1>0, DeviceWrites
    <3> QED
      BY <1>4, <3>1, <3>2 DEF darkproject_apply_snap_tap, darkproject_apply_profile
  <2>3. held = <<>> /\ rest = 0
    BY <2>1 DEF StepInv, Lighting
  <2>4. KbdTypeOK'
    BY <2>1, <2>2, Tasks
  <2>5. StepInv'
    BY <2>1, <2>3 DEF StepInv
  <2> QED
    BY <2>4, <2>5
<1> QED
  BY <1>1, <1>2, <1>3, <1>4 DEF Push

-----------------------------------------------------------------------------
(* What the user does, and the typing.                                      *)

\* Hearing of a shortcut.
LEMMA HeardIsSound ==
    ASSUME NEW b, Sound(b), NEW c, Sound(c)
    PROVE  Sound(keyboard_event(b, c))
<1>1. keyboard_event(b, c) = [[b EXCEPT !.snap = c.snap] EXCEPT !.profile = c.profile]
  BY DEF keyboard_event
<1>2. c.snap \in 0..1 /\ c.profile \in Profile
  BY DEF Sound, Config
<1>3. Sound([b EXCEPT !.snap = c.snap])
  BY <1>2 DEF Sound, Config
<1>4. ASSUME NEW x, Sound(x) PROVE Sound([x EXCEPT !.profile = c.profile])
  BY <1>2, <1>4 DEF Sound, Config
<1> QED
  BY <1>1, <1>3, <1>4

\* A shortcut report read (parse_event) leaves a configuration.
LEMMA ParsedEvent ==
    ASSUME Sound(cfg), NEW e \in Event
    PROVE  /\ Sound(alu87a_parse_event(e))
           /\ alu87a_parse_event(e).profile = IF e.what = "profile" THEN e.val ELSE cfg.profile
<1>1. \/ e.what = "snap" /\ e.val \in 0..1
      \/ e.what = "profile" /\ e.val \in Profile
  BY DEF Event
<1>2. ASSUME NEW x \in 0..1
      PROVE  Sound([cfg EXCEPT !.snap = x]) /\ [cfg EXCEPT !.snap = x].profile = cfg.profile
  BY DEF Sound, Config
<1>3. ASSUME NEW p \in Profile
      PROVE  Sound([cfg EXCEPT !.profile = p]) /\ [cfg EXCEPT !.profile = p].profile = p
  BY DEF Sound, Config
<1>4. CASE e.what = "snap" /\ e.val \in 0..1
  BY <1>2, <1>4 DEF alu87a_parse_event
<1>5. CASE e.what = "profile" /\ e.val \in Profile
  BY <1>3, <1>5 DEF alu87a_parse_event
<1> QED
  BY <1>1, <1>4, <1>5

\* SAVE, REVERT, shortcuts and their reports keep the invariant.
LEMMA UserSound ==
    ASSUME KbdInv, Save \/ Revert \/ PressSwitch \/ PressSnap \/ PollEvent
    PROVE  KbdInv'
<1> USE DEF KbdInv, KbdTypeOK
<1>1. CASE Save \/ Revert
  <2>1. /\ Sound(cfg') /\ Sound(baseline') /\ UNCHANGED <<dev, events, held, rest>>
        /\ task' = alu87a_steps /\ Idle
    BY <1>1 DEF Save, Revert, PushAll
  <2>2. KbdTypeOK'
    BY <2>1, Tasks
  <2>3. StepInv'
    BY <2>1 DEF StepInv
  <2> QED
    BY <2>2, <2>3
<1>2. CASE PressSwitch \/ PressSnap
  <2>1. PICK e \in Event : /\ events' = Append(events, e)
                           /\ UNCHANGED <<cfg, baseline, task, held, rest>>
                           /\ SoundDevice(dev') /\ dev'.rec = dev.rec
    <3>1. CASE PressSwitch
      <4>1. PICK p \in Profile : Press([dev EXCEPT !.active = p], [what |-> "profile", val |-> p])
        BY <3>1 DEF PressSwitch
      <4>2. [what |-> "profile", val |-> p] \in Event
        BY DEF Event
      <4>3. SoundDevice([dev EXCEPT !.active = p])
        BY DeviceWrites
      <4>4. [dev EXCEPT !.active = p].rec = dev.rec
        BY DEF SoundDevice
      <4> QED
        BY <4>1, <4>2, <4>3, <4>4 DEF Press
    <3>2. CASE PressSnap
      <4> DEFINE a == dev.active
                 on == 1 - dev.snap[a].on
      <4>1. Press([dev EXCEPT !.snap[a].on = on], [what |-> "snap", val |-> on])
        BY <3>2 DEF PressSnap
      <4>2. a \in Profile /\ dev.snap[a].on \in 0..1
        BY DEF SoundDevice, SnapTap
      <4>3. [what |-> "snap", val |-> on] \in Event
        BY <4>2 DEF Event
      <4>4. SoundDevice([dev EXCEPT !.snap[a].on = on])
        BY <4>2, DeviceWrites
      <4>5. [dev EXCEPT !.snap[a].on = on].rec = dev.rec
        BY DEF SoundDevice
      <4> QED
        BY <4>1, <4>3, <4>4, <4>5 DEF Press
    <3> QED
      BY <1>2, <3>1, <3>2
  <2>2. KbdTypeOK'
    BY <2>1
  <2>3. StepInv'
    BY <2>1 DEF StepInv, Idle, Step, Lighting, BaseProfile
  <2> QED
    BY <2>2, <2>3
<1>3. CASE PollEvent
  <2>1. /\ Idle /\ UNCHANGED <<dev, task, held, rest>> /\ events # <<>> /\ events' = Tail(events)
        /\ cfg' = alu87a_parse_event(Head(events))
        /\ baseline' = IF cfg' = cfg THEN baseline ELSE keyboard_event(baseline, cfg')
    BY <1>3 DEF PollEvent
  <2>2. Head(events) \in Event /\ Tail(events) \in Seq(Event)
    BY <2>1
  <2>3. Sound(cfg') /\ Sound(baseline')
    BY <2>1, <2>2, ParsedEvent, HeardIsSound
  <2>4. KbdTypeOK'
    BY <2>1, <2>2, <2>3
  <2>5. StepInv'
    BY <2>1 DEF StepInv, Idle
  <2> QED
    BY <2>4, <2>5
<1> QED
  BY <1>1, <1>2, <1>3

\* Every step keeps the invariant.
LEMMA KbdStep ==
    ASSUME KbdInv, [Next]_vars
    PROVE  KbdInv'
<1>1. CASE Push
  BY <1>1, PushSound
<1>2. CASE Edit
  BY <1>2, EditSound, ChangeSound
<1>3. CASE Save \/ Revert \/ PressSwitch \/ PressSnap \/ PollEvent
  BY <1>3, UserSound
<1>4. CASE UNCHANGED vars
  BY <1>4 DEF vars, KbdInv, KbdTypeOK, StepInv, Idle, Step, Lighting, BaseProfile
<1> QED
  BY <1>1, <1>2, <1>3, <1>4 DEF Next

\* Groups, records and queues stay what they are (KbdTypeOK), whatever the
\* edits, shortcuts and failed transfers (group_add, group_del, the record's number).
THEOREM KbdTyping == Spec => []KbdTypeOK
<1>1. KbdInv => KbdTypeOK
  BY DEF KbdInv
<1> QED
  BY <1>1, InitSound, KbdStep, PTL DEF Spec

\* The invariant always holds.
LEMMA KbdAlways == Spec => []KbdInv
BY InitSound, KbdStep, PTL DEF Spec

-----------------------------------------------------------------------------
(* The profile on screen.                                                   *)

\* The screen follows the last switch the program has not heard of yet.
LastHeard(c, d, q) ==
    \/ (\A i \in 1..Len(q) : q[i].what # "profile") /\ c.profile = d.active
    \/ \E i \in 1..Len(q) :
          /\ q[i].what = "profile" /\ q[i].val = d.active
          /\ \A j \in i + 1..Len(q) : q[j].what # "profile"

SwitchInv == told => LastHeard(cfg, dev, events)

\* A new report, and one that was read.
LEMMA Reported ==
    ASSUME NEW q \in Seq(Event), NEW e \in Event, NEW c, NEW d, NEW d1,
           IF e.what = "profile" THEN d1.active = e.val
                                 ELSE d1.active = d.active /\ LastHeard(c, d, q)
    PROVE  LastHeard(c, d1, Append(q, e))
<1> DEFINE r == Append(q, e)
<1>1. /\ Len(r) = Len(q) + 1 /\ Len(q) \in Nat /\ r[Len(q) + 1] = e
      /\ \A i \in 1..Len(q) : r[i] = q[i]
  OBVIOUS
<1> HIDE DEF r
<1>2. LastHeard(c, d1, r)
  <2>1. CASE e.what = "profile"
    BY <1>1, <2>1 DEF LastHeard
  <2>2. CASE e.what # "profile"
    BY <1>1, <2>2 DEF LastHeard
  <2> QED
    BY <2>1, <2>2
<1> QED
  BY <1>2 DEF r

\* Reading the oldest report keeps the screen on the last switch.
LEMMA Heard ==
    ASSUME NEW q \in Seq(Event), q # <<>>, NEW c, NEW d, LastHeard(c, d, q), NEW c1,
           c1.profile = IF Head(q).what = "profile" THEN Head(q).val ELSE c.profile
    PROVE  LastHeard(c1, d, Tail(q))
<1> DEFINE r == Tail(q)
<1>1. /\ Len(q) \in Nat \ {0} /\ Len(r) = Len(q) - 1 /\ Head(q) = q[1]
      /\ \A i \in 1..Len(r) : r[i] = q[i + 1]
  OBVIOUS
<1> HIDE DEF r
<1>2. CASE (\A i \in 1..Len(q) : q[i].what # "profile") /\ c.profile = d.active
  BY <1>1, <1>2 DEF LastHeard
<1>3. ASSUME NEW i \in 1..Len(q), q[i].what = "profile", q[i].val = d.active,
             \A j \in i + 1..Len(q) : q[j].what # "profile"
      PROVE  LastHeard(c1, d, r)
  <2>1. CASE i = 1
    BY <1>1, <1>3, <2>1 DEF LastHeard
  <2>2. CASE i # 1
    <3>1. i - 1 \in 1..Len(r) /\ r[i - 1] = q[i] /\ (i - 1) + 1 = i
      BY <1>1, <2>2
    <3>2. \A j \in i..Len(r) : r[j].what # "profile"
      BY <1>1, <1>3
    <3>3. \E k \in 1..Len(r) :
            /\ r[k].what = "profile" /\ r[k].val = d.active
            /\ \A j \in k + 1..Len(r) : r[j].what # "profile"
      BY <1>3, <3>1, <3>2
    <3> QED
      BY <3>3 DEF LastHeard
  <2> QED
    BY <2>1, <2>2
<1>4. \/ (\A i \in 1..Len(q) : q[i].what # "profile") /\ c.profile = d.active
      \/ \E i \in 1..Len(q) :
           /\ q[i].what = "profile" /\ q[i].val = d.active
           /\ \A j \in i + 1..Len(q) : q[j].what # "profile"
  BY DEF LastHeard
<1>5. CASE \E i \in 1..Len(q) :
           /\ q[i].what = "profile" /\ q[i].val = d.active
           /\ \A j \in i + 1..Len(q) : q[j].what # "profile"
  <2>1. PICK i \in 1..Len(q) :
           /\ q[i].what = "profile" /\ q[i].val = d.active
           /\ \A j \in i + 1..Len(q) : q[j].what # "profile"
    BY <1>5
  <2>2. LastHeard(c1, d, r)
    BY <1>3, <2>1
  <2> QED
    BY <2>2 DEF r
<1> QED
  BY <1>2, <1>4, <1>5 DEF r

\* Every step keeps the screen on the last switch, or gives up the claim.
LEMMA SwitchStep ==
    ASSUME KbdInv, SwitchInv, [Next]_vars
    PROVE  SwitchInv'
<1> USE DEF KbdInv, KbdTypeOK
<1>1. CASE Push
  <2>1. CASE darkproject_apply_profile
    <3>1. UNCHANGED <<cfg, events>>
      BY <2>1 DEF darkproject_apply_profile, host
    <3>2. told' => NoSwitchUnread /\ dev' = [dev EXCEPT !.active = cfg.profile]
      BY <2>1 DEF darkproject_apply_profile
    <3>3. dev' = [dev EXCEPT !.active = cfg.profile] => dev'.active = cfg.profile
      BY DEF SoundDevice
    <3> QED
      BY <3>1, <3>2, <3>3 DEF SwitchInv, LastHeard, NoSwitchUnread
  <2>2. CASE ReadBase \/ WriteRecord \/ WriteChunk \/ darkproject_apply_snap_tap
    <3>1. UNCHANGED <<cfg, events, told>>
      BY <2>2 DEF ReadBase, WriteRecord, WriteChunk, darkproject_apply_snap_tap, host
    <3>2. dev'.active = dev.active
      <4>1. ASSUME NEW r, NEW d \in Taken(r) PROVE d.active = dev.active
        BY <4>1 DEF Taken, SoundDevice
      <4> QED
        BY <2>2, <4>1
           DEF ReadBase, WriteRecord, WriteChunk, darkproject_apply_snap_tap, SoundDevice
    <3> QED
      BY <3>1, <3>2 DEF SwitchInv, LastHeard
  <2> QED
    BY <1>1, <2>1, <2>2 DEF Push
<1>2. CASE Edit
  <2>1. PICK c, s : Change(c, s)
    BY <1>2, EditSound
  <2> QED
    BY <2>1 DEF Change, SwitchInv, LastHeard
<1>3. CASE Save \/ Revert
  BY <1>3 DEF Save, Revert, PushAll, SwitchInv, LastHeard
<1>4. CASE PressSwitch
  <2>1. PICK p \in Profile : Press([dev EXCEPT !.active = p], [what |-> "profile", val |-> p])
    BY <1>4 DEF PressSwitch
  <2>2. [what |-> "profile", val |-> p] \in Event
    BY DEF Event
  <2>3. dev'.active = p /\ events' = Append(events, [what |-> "profile", val |-> p])
    BY <2>1 DEF Press, SoundDevice
  <2>4. LastHeard(cfg', dev', events')
    BY <2>2, <2>3, Reported
  <2> QED
    BY <2>4 DEF SwitchInv
<1>5. CASE PressSnap
  <2> DEFINE a == dev.active
             on == 1 - dev.snap[a].on
             e == [what |-> "snap", val |-> on]
  <2>1. Press([dev EXCEPT !.snap[a].on = on], e) /\ told' = told
    BY <1>5 DEF PressSnap
  <2>2. a \in Profile /\ dev.snap[a].on \in 0..1
    BY DEF SoundDevice, SnapTap
  <2>3. e \in Event /\ e.what # "profile"
    BY <2>2 DEF Event
  <2>4. dev'.active = a /\ events' = Append(events, e) /\ cfg' = cfg
    BY <2>1 DEF Press, SoundDevice
  <2> HIDE DEF e
  <2>5. LastHeard(cfg, dev, events) => LastHeard(cfg, dev', events')
    BY <2>3, <2>4, Reported
  <2> QED
    BY <2>1, <2>4, <2>5 DEF SwitchInv
<1>6. CASE PollEvent
  <2>1. /\ events # <<>> /\ events' = Tail(events) /\ dev' = dev /\ told' = told
        /\ cfg' = alu87a_parse_event(Head(events))
    BY <1>6 DEF PollEvent
  <2>2. Head(events) \in Event
    BY <2>1
  <2>3. LastHeard(cfg, dev, events) => LastHeard(cfg', dev, Tail(events))
    BY <2>1, <2>2, ParsedEvent, Heard
  <2> QED
    BY <2>1, <2>3 DEF SwitchInv
<1>7. CASE UNCHANGED vars
  BY <1>7 DEF vars, SwitchInv, LastHeard
<1> QED
  BY <1>1, <1>2, <1>3, <1>4, <1>5, <1>6, <1>7 DEF Next

\* Once every report is read the screen names the keyboard's profile
\* (ScreenNamesProfile: the profile step against parse_event).
THEOREM ScreenFollows == Spec => []ScreenNamesProfile
<1>1. Init => SwitchInv
  <2> SUFFICES ASSUME Init, told PROVE LastHeard(cfg, dev, events)
    BY DEF SwitchInv
  <2>1. PICK a \in Profile : \E bad \in SUBSET {"current", "snap", "profile"} :
          /\ dev = FactoryDev(a) /\ cfg = alu87a_read_config(dev, bad)
          /\ told = ("current" \notin bad)
    BY DEF Init
  <2>2. PICK bad : /\ dev = FactoryDev(a) /\ cfg = alu87a_read_config(dev, bad)
                   /\ told = ("current" \notin bad)
    BY <2>1
  <2>3. SoundDevice(dev) /\ \A p \in Profile : dev.rec[p][EffectAt] \in 0..14
    BY <2>2, FactoryIsSound
  <2>4. cfg.profile = dev.active
    BY <2>2, <2>3, ProbeIsSound, ProfilesAssumption DEF SoundDevice
  <2>5. events = <<>>
    BY DEF Init
  <2> QED
    BY <2>4, <2>5 DEF LastHeard
<1>2. KbdInv /\ SwitchInv => ScreenNamesProfile
  BY DEF SwitchInv, LastHeard, ScreenNamesProfile, NoSwitchUnread, KbdInv, KbdTypeOK
<1> QED
  BY <1>1, <1>2, SwitchStep, KbdAlways, PTL DEF Spec

-----------------------------------------------------------------------------
(* What an apply_all has sent.                                              *)

\* How many steps are left to push.
Left == Len(task)

\* What the pushes of an apply_all that has failed nowhere have brought about.
InOrder ==
    /\ Left <= 5
    /\ \A i \in 1..Left : task[i] = alu87a_steps[5 - Left + i]
BaseIsRead == held # <<>> => held[1] = dev.rec[BaseProfile]
PollingSent == Left < 5 => dev.rec[1][PollingAt] = RateIndex(cfg.polling)
LightSent == Left < 4 \/ rest > 0 => Lit(dev.rec[cfg.profile], cfg.light)
MatrixSent == HidEffect[cfg.light.fx + 1] = Custom =>
    LET m == dev.matrix[cfg.profile][cfg.light.zone] IN
    /\ Left < 4 \/ rest = 1 => m[1] = cfg.light.color
    /\ Left < 4 => m[2] = cfg.light.color
SnapSent == Left < 2 => dev.snap[cfg.profile] = darkproject_build_snap_tap(cfg)
ProfileSent == Left < 1 => dev.active = cfg.profile

Sent == /\ InOrder /\ BaseIsRead /\ PollingSent /\ LightSent /\ MatrixSent /\ SnapSent
        /\ ProfileSent

SentInv == fresh => Sent

\* The five steps of apply_all, in their order.
LEMMA TheSteps ==
    /\ Len(alu87a_steps) = 5
    /\ alu87a_steps[1] = "polling" /\ alu87a_steps[2] = "colors" /\ alu87a_steps[3] = "brightness"
    /\ alu87a_steps[4] = "snap-tap" /\ alu87a_steps[5] = "profile"
BY DEF alu87a_steps

\* Where in the order the step under way is.
LEMMA StepPlace ==
    ASSUME KbdInv, InOrder, task # <<>>
    PROVE  /\ Left \in 1..5
           /\ Step = "polling" => Left = 5
           /\ Lighting => Left = 3 \/ Left = 4
           /\ Step = "snap-tap" => Left = 2
           /\ Step = "profile" => Left = 1
<1>1. Left \in Nat /\ Left # 0 /\ Step = task[1]
  <2>1. task \in Seq(Range(alu87a_steps))
    BY DEF KbdInv, KbdTypeOK
  <2> QED
    BY <2>1 DEF Left, Step
<1>2. Left \in 1..5 /\ 1 \in 1..Left
  BY <1>1 DEF InOrder
<1>3. Step = alu87a_steps[5 - Left + 1]
  BY <1>1, <1>2 DEF InOrder
<1>4. \/ Left = 1 /\ Step = "profile"
      \/ Left = 2 /\ Step = "snap-tap"
      \/ Left = 3 /\ Step = "brightness"
      \/ Left = 4 /\ Step = "colors"
      \/ Left = 5 /\ Step = "polling"
  <2> DEFINE k == 5 - Left + 1
  <2>1. \/ Left = 1 /\ k = 5
        \/ Left = 2 /\ k = 4
        \/ Left = 3 /\ k = 3
        \/ Left = 4 /\ k = 2
        \/ Left = 5 /\ k = 1
    BY <1>2
  <2> QED
    BY <1>3, <2>1, TheSteps
<1> QED
  BY <1>2, <1>4 DEF Lighting

\* A step that is done leaves the others in order.
LEMMA StaysInOrder ==
    ASSUME KbdInv, InOrder, task # <<>>, task' = Tail(task)
    PROVE  InOrder' /\ Left' = Left - 1
<1>1. Left \in 1..5
  BY StepPlace
<1>2. Left' = Left - 1 /\ \A i \in 1..Left' : task'[i] = task[i + 1]
  <2>1. task \in Seq(Range(alu87a_steps))
    BY DEF KbdInv, KbdTypeOK
  <2> QED
    BY <2>1 DEF Left
<1>3. ASSUME NEW i \in 1..Left' PROVE task'[i] = alu87a_steps[5 - Left' + i]
  <2>1. i + 1 \in 1..Left /\ 5 - Left' + i = 5 - Left + (i + 1)
    BY <1>1, <1>2
  <2> QED
    BY <1>2, <2>1 DEF InOrder
<1>4. Left' <= 5
  BY <1>1, <1>2
<1>5. \A i \in 1..Left' : task'[i] = alu87a_steps[5 - Left' + i]
  BY <1>3
<1> QED
  BY <1>2, <1>4, <1>5 DEF InOrder

\* With a record that was read, the write goes back to where it came from.
LEMMA WrittenBack ==
    ASSUME KbdInv, Sent, held # <<>>
    PROVE  Taken(NewRecord) = {[dev EXCEPT !.rec[BaseProfile] = NewRecord]}
<1>1. held[1] = dev.rec[BaseProfile]
  BY DEF Sent, BaseIsRead
<1>2. BaseProfile \in Profile /\ NewRecord[Number] = held[1][Number]
  BY HeldRecord
<1>3. dev.rec[BaseProfile][Number] = BaseProfile
  BY <1>2 DEF KbdInv, KbdTypeOK, SoundDevice
<1>4. BaseProfile \in 1..3
  BY <1>2, ProfilesAssumption
<1>5. NewRecord[Number] = BaseProfile /\ NewRecord[Number] # 0
  BY <1>1, <1>2, <1>3, <1>4
<1> QED
  BY <1>5 DEF Taken

\* Every part of a push that works brings about what its step is for.
LEMMA PushSends ==
    ASSUME KbdInv, SentInv, Push, fresh'
    PROVE  Sent'
<1>0. fresh /\ Sent /\ UNCHANGED cfg
  BY DEF Push, ReadBase, WriteRecord, WriteChunk, darkproject_apply_snap_tap,
         darkproject_apply_profile, Works, Fails, host, SentInv
<1>a. /\ cfg.profile \in Profile /\ 1 \in Profile /\ cfg.light \in Light /\ SoundDevice(dev)
      /\ cfg.light.zone \in 0..4 /\ cfg.light.color \in Color
  BY ProfilesAssumption DEF KbdInv, KbdTypeOK, Sound, Config, Light, Setting
<1>b. rest \in 0..2
  BY DEF KbdInv, KbdTypeOK
<1>1. CASE ReadBase
  <2>1. /\ UNCHANGED <<task, dev, rest>> /\ held' = <<dev.rec[BaseProfile]>>
    BY <1>1, <1>0 DEF ReadBase, Fails
  <2>2. Left' = Left
    BY <2>1 DEF Left
  <2>3. InOrder'
    BY <1>0, <2>1, <2>2 DEF Sent, InOrder
  <2>4. BaseIsRead'
    BY <1>0, <2>1 DEF BaseIsRead, BaseProfile, Step
  <2> QED
    BY <1>0, <2>1, <2>2, <2>3, <2>4
       DEF Sent, PollingSent, LightSent, MatrixSent, SnapSent, ProfileSent
<1>2. CASE WriteRecord
  <2> DEFINE r == NewRecord
             custom == HidEffect[cfg.light.fx + 1] = Custom
  <2>1. /\ task # <<>> /\ held # <<>> /\ held' = <<>> /\ rest = 0
        /\ Step = "polling" \/ Lighting
    BY <1>2 DEF WriteRecord, Idle, KbdInv, StepInv
  <2>2. /\ dev' = [dev EXCEPT !.rec[BaseProfile] = r]
        /\ IF Lighting /\ custom THEN rest' = 2 /\ task' = task ELSE rest' = 0 /\ task' = Tail(task)
    BY <1>0, <1>2, <2>1, WrittenBack DEF WriteRecord, Fails
  <2>3. BaseProfile \in Profile /\ Record(held[1]) /\ held[1] = dev.rec[BaseProfile]
    BY <1>0, <2>1, HeldRecord DEF Sent, BaseIsRead
  <2> HIDE DEF r
  <2>4. /\ dev'.rec[BaseProfile] = r /\ \A p \in Profile \ {BaseProfile} : dev'.rec[p] = dev.rec[p]
        /\ dev'.matrix = dev.matrix /\ dev'.snap = dev.snap /\ dev'.active = dev.active
    BY <1>a, <2>2, <2>3 DEF SoundDevice
  <2>5. CASE Step = "polling"
    <3>1. Left = 5 /\ Left' = 4 /\ rest' = 0 /\ BaseProfile = 1 /\ InOrder'
      <4>1. ~Lighting /\ BaseProfile = 1
        BY <2>5 DEF Lighting, BaseProfile
      <4>2. task' = Tail(task) /\ rest' = 0
        BY <2>2, <4>1
      <4>3. InOrder /\ Left = 5
        BY <1>0, <2>1, <2>5, StepPlace DEF Sent
      <4> QED
        BY <2>1, <4>1, <4>2, <4>3, StaysInOrder
    <3>2. r[PollingAt] = RateIndex(cfg.polling)
      BY <2>3, <2>5, PolledRecord DEF r, NewRecord, Lighting
    <3> QED
      BY <1>0, <2>1, <2>4, <3>1, <3>2
         DEF Sent, BaseIsRead, PollingSent, LightSent, MatrixSent, SnapSent, ProfileSent
  <2>6. CASE Lighting
    <3>1. (Left = 3 \/ Left = 4) /\ BaseProfile = cfg.profile
      BY <1>0, <2>1, <2>6, StepPlace DEF Sent, Lighting, BaseProfile
    <3>2. /\ custom => Left' = Left /\ rest' = 2
          /\ ~custom => Left' = Left - 1 /\ rest' = 0
          /\ InOrder' /\ (Left' = 2 \/ Left' = 3 \/ Left' = 4)
      <4>1. InOrder /\ (Left = 3 \/ Left = 4)
        BY <1>0, <3>1 DEF Sent
      <4>2. ASSUME custom PROVE rest' = 2 /\ InOrder' /\ Left' = Left
        <5>1. task' = task /\ rest' = 2
          BY <2>2, <2>6, <4>2
        <5>2. Left' = Left
          BY <5>1 DEF Left
        <5> QED
          BY <4>1, <5>1, <5>2 DEF InOrder
      <4>3. ASSUME ~custom PROVE Left' = Left - 1 /\ rest' = 0 /\ InOrder'
        BY <2>1, <2>2, <2>6, <4>1, <4>3, StaysInOrder
      <4> QED
        BY <4>1, <4>2, <4>3
    <3>3. Lit(r, cfg.light) /\ r[PollingAt] = dev.rec[cfg.profile][PollingAt]
      BY <1>a, <2>3, <2>6, <3>1, BuiltIsLit, LitRecord DEF r, NewRecord
    <3>4. PollingSent'
      <4>1. Left < 5
        BY <3>1
      <4>2. dev.rec[1][PollingAt] = RateIndex(cfg.polling)
        BY <1>0, <4>1 DEF Sent, PollingSent
      <4>3. dev'.rec[1][PollingAt] = dev.rec[1][PollingAt]
        BY <1>a, <2>4, <3>1, <3>3
      <4> QED
        BY <1>0, <4>2, <4>3 DEF PollingSent
    <3>5. LightSent' /\ BaseIsRead'
      BY <1>0, <2>1, <2>4, <3>1, <3>3 DEF LightSent, BaseIsRead
    <3>6. MatrixSent'
      BY <1>0, <2>4, <3>2 DEF Sent, MatrixSent
    <3>7. SnapSent' /\ ProfileSent'
      BY <3>1, <3>2 DEF SnapSent, ProfileSent
    <3> QED
      BY <3>2, <3>4, <3>5, <3>6, <3>7 DEF Sent
  <2> QED
    BY <2>1, <2>5, <2>6
<1>3. CASE WriteChunk
  <2> DEFINE p == cfg.profile
             z == cfg.light.zone
             k == cfg.light.color
  <2>1. /\ task # <<>> /\ rest \in 1..2 /\ held = <<>> /\ held' = <<>> /\ Lighting
        /\ rest' = rest - 1 /\ task' = IF rest = 1 THEN Tail(task) ELSE task
        /\ dev' = [dev EXCEPT !.matrix[p][z][3 - rest] = k]
    BY <1>0, <1>3, <1>b DEF WriteChunk, Idle, KbdInv, StepInv, Fails
  <2>2. /\ dev'.rec = dev.rec /\ dev'.snap = dev.snap /\ dev'.active = dev.active
        /\ dev'.matrix[p][z] = [dev.matrix[p][z] EXCEPT ![3 - rest] = k]
    BY <1>a, <2>1 DEF SoundDevice
  <2>3. dev.matrix[p][z] \in [1..2 -> Color]
    BY <1>a DEF SoundDevice
  <2>4. /\ Left = 3 \/ Left = 4
        /\ Left' = 2 \/ Left' = 3 \/ Left' = 4
        /\ rest = 2 => Left' = Left
        /\ InOrder'
    <3>1. InOrder /\ (Left = 3 \/ Left = 4)
      BY <1>0, <2>1, StepPlace DEF Sent
    <3>2. CASE rest = 1
      BY <2>1, <3>1, <3>2, StaysInOrder
    <3>3. CASE rest # 1
      <4>1. task' = task
        BY <2>1, <3>3
      <4>2. Left' = Left
        BY <4>1 DEF Left
      <4> QED
        BY <3>1, <4>1, <4>2 DEF InOrder
    <3> QED
      BY <3>2, <3>3
  <2>5. /\ rest = 2 => dev'.matrix[p][z][1] = k /\ dev'.matrix[p][z][2] = dev.matrix[p][z][2]
        /\ rest = 1 => dev'.matrix[p][z][2] = k /\ dev'.matrix[p][z][1] = dev.matrix[p][z][1]
    BY <2>2, <2>3
  <2>6. MatrixSent'
    <3>1. HidEffect[cfg.light.fx + 1] = Custom
      BY <2>1 DEF KbdInv, StepInv
    <3>2. CASE rest = 2
      <4>1. dev'.matrix[p][z][1] = k
        BY <2>5, <3>2
      <4>2. Left' < 4 => dev'.matrix[p][z][2] = k
        BY <1>0, <2>4, <2>5, <3>1, <3>2 DEF Sent, MatrixSent
      <4> QED
        BY <1>0, <4>1, <4>2 DEF MatrixSent
    <3>3. CASE rest = 1
      <4>1. dev'.matrix[p][z][1] = k
        BY <1>0, <2>5, <3>1, <3>3 DEF Sent, MatrixSent
      <4>2. dev'.matrix[p][z][2] = k
        BY <2>5, <3>3
      <4> QED
        BY <1>0, <4>1, <4>2 DEF MatrixSent
    <3> QED
      BY <2>1, <3>2, <3>3
  <2>7. PollingSent' /\ LightSent' /\ BaseIsRead'
    BY <1>0, <2>1, <2>2, <2>4 DEF Sent, PollingSent, LightSent, BaseIsRead
  <2>8. SnapSent' /\ ProfileSent'
    BY <2>4 DEF SnapSent, ProfileSent
  <2> QED
    BY <2>4, <2>6, <2>7, <2>8 DEF Sent
<1>4. CASE darkproject_apply_snap_tap
  <2>1. /\ task # <<>> /\ task' = Tail(task) /\ UNCHANGED <<held, rest>> /\ Step = "snap-tap"
        /\ dev' = [dev EXCEPT !.snap[cfg.profile] = darkproject_build_snap_tap(cfg)]
    BY <1>0, <1>4 DEF darkproject_apply_snap_tap, Idle, Fails
  <2>2. /\ dev'.rec = dev.rec /\ dev'.matrix = dev.matrix /\ dev'.active = dev.active
        /\ dev'.snap[cfg.profile] = darkproject_build_snap_tap(cfg)
    BY <1>a, <2>1 DEF SoundDevice
  <2>3. Left = 2 /\ Left' = 1 /\ InOrder'
    BY <1>0, <2>1, StepPlace, StaysInOrder DEF Sent
  <2>4. held = <<>> /\ rest = 0
    BY <1>b, <2>1 DEF KbdInv, StepInv, Lighting
  <2> QED
    BY <1>0, <2>1, <2>2, <2>3, <2>4
       DEF Sent, BaseIsRead, PollingSent, LightSent, MatrixSent, SnapSent, ProfileSent
<1>5. CASE darkproject_apply_profile
  <2>1. /\ task # <<>> /\ task' = Tail(task) /\ UNCHANGED <<held, rest>> /\ Step = "profile"
        /\ dev' = [dev EXCEPT !.active = cfg.profile]
    BY <1>0, <1>5 DEF darkproject_apply_profile, Idle, Fails
  <2>2. /\ dev'.rec = dev.rec /\ dev'.matrix = dev.matrix /\ dev'.snap = dev.snap
        /\ dev'.active = cfg.profile
    BY <1>a, <2>1 DEF SoundDevice
  <2>3. Left = 1 /\ Left' = 0 /\ InOrder'
    BY <1>0, <2>1, StepPlace, StaysInOrder DEF Sent
  <2>4. held = <<>> /\ rest = 0
    BY <1>b, <2>1 DEF KbdInv, StepInv, Lighting
  <2> QED
    BY <1>0, <2>1, <2>2, <2>3, <2>4
       DEF Sent, BaseIsRead, PollingSent, LightSent, MatrixSent, SnapSent, ProfileSent
<1> QED
  BY <1>1, <1>2, <1>3, <1>4, <1>5 DEF Push

\* Every step keeps the account of what was sent.
LEMMA SentStep ==
    ASSUME KbdInv, SentInv, [Next]_vars
    PROVE  SentInv'
<1>1. CASE Push
  BY <1>1, PushSends DEF SentInv
<1>2. CASE Save \/ Revert
  <2>1. task' = alu87a_steps /\ held' = <<>> /\ rest' = 0
    BY <1>2 DEF Save, Revert, PushAll, KbdInv, StepInv
  <2>2. Left' = 5
    BY <2>1, TheSteps DEF Left
  <2>3. InOrder'
    <3>1. ASSUME NEW i \in 1..5 PROVE 5 - 5 + i = i
      OBVIOUS
    <3> QED
      BY <2>1, <2>2, <3>1 DEF InOrder
  <2> QED
    BY <2>1, <2>2, <2>3
       DEF SentInv, Sent, BaseIsRead, PollingSent, LightSent, MatrixSent, SnapSent, ProfileSent
<1>3. CASE Edit \/ PressSwitch \/ PressSnap \/ PollEvent
  <2>1. Edit => ~fresh'
    <3>1. ASSUME Edit PROVE ~fresh'
      <4>1. PICK c, s : Change(c, s)
        BY <3>1, EditSound
      <4> QED
        BY <4>1 DEF Change
    <3> QED
      BY <3>1
  <2> QED
    BY <1>3, <2>1 DEF PressSwitch, PressSnap, Press, PollEvent, SentInv
<1>4. CASE UNCHANGED vars
  <2>1. Left' = Left
    BY <1>4 DEF vars, Left
  <2>2. BaseProfile' = BaseProfile
    BY <1>4 DEF vars, BaseProfile, Step
  <2>3. InOrder' = InOrder
    BY <1>4, <2>1 DEF vars, InOrder
  <2> QED
    BY <1>4, <2>1, <2>2, <2>3
       DEF vars, SentInv, Sent, BaseIsRead, PollingSent, LightSent, MatrixSent, SnapSent,
           ProfileSent
<1> QED
  BY <1>1, <1>2, <1>3, <1>4 DEF Next

\* A polling rate is read back as it was sent.
LEMMA RateBack == \A hz \in {125, 250, 500, 1000} : IndexRate(RateIndex(hz)) = hz
BY DEF IndexRate, RateIndex

\* What the next session reads once everything was sent.
LEMMA SentIsShown ==
    ASSUME KbdInv, Sent, Idle
    PROVE  NextSessionShows
<1> DEFINE p == cfg.profile
           s == dev.snap[p]
           r == dev.rec[p]
           c0 == [alu87a_config_defaults EXCEPT !.profile = p]
           c1 == darkproject_parse_snap_tap_data(s, c0)
           c == alu87a_read_config(dev, {})
<1>0. /\ Sound(cfg) /\ SoundDevice(dev) /\ p \in Profile /\ cfg.light \in Light
      /\ cfg.polling \in {125, 250, 500, 1000} /\ cfg.light.zone \in 0..4
  BY DEF KbdInv, KbdTypeOK, Sound, Config, Light, Setting
<1>1. Left = 0
  BY DEF Idle, Left
<1>2. /\ dev.active = p /\ s = darkproject_build_snap_tap(cfg) /\ Lit(r, cfg.light)
      /\ dev.rec[1][PollingAt] = RateIndex(cfg.polling)
  BY <1>1 DEF Sent, PollingSent, LightSent, SnapSent, ProfileSent
<1>3. c = alu87a_parse_profile_data(r, c1)
  BY <1>2 DEF alu87a_read_config
<1>4. s.on = cfg.snap /\ \A i \in 1..cfg.count : s.groups[i] = cfg.slots[i]
  BY <1>0, <1>2, SentGroups
<1>5. Filled(s.groups) = cfg.count /\ cfg.count \in 1..MaxGroups /\ MaxGroups \in Nat
  BY <1>0, <1>2, SentGroups, GroupAssumption
<1>6. /\ c0.light \in Light /\ c0.light.dir = 0 /\ c0.profile = p
      /\ DOMAIN c0 = {"light", "polling", "snap", "count", "slots", "profile"}
  BY LightAssumption DEF alu87a_config_defaults, Light, Setting
<1> HIDE DEF c, c0, r, s
<1>7. /\ DOMAIN c1 = DOMAIN c0 /\ c1.light = c0.light /\ c1.profile = p
      /\ c1.snap = cfg.snap /\ c1.count = cfg.count
      /\ \A i \in 1..cfg.count : c1.slots[i] = cfg.slots[i]
  BY <1>4, <1>5, <1>6 DEF darkproject_parse_snap_tap_data
<1> HIDE DEF c1
<1>8. /\ c.light = ParsedLight(r, c1.light) /\ c.polling = IndexRate(r[PollingAt])
      /\ c.profile = p /\ c.snap = cfg.snap /\ c.count = cfg.count /\ c.slots = c1.slots
  BY <1>3, <1>6, <1>7 DEF alu87a_parse_profile_data
<1>9. c.light = Held(cfg.light)
  BY <1>0, <1>2, <1>6, <1>7, <1>8, RoundTrip
<1>10. \A i \in 1..c.count : c.slots[i] = cfg.slots[i]
  BY <1>7, <1>8
<1>11. p = 1 => c.polling = cfg.polling
  BY <1>0, <1>2, <1>8, RateBack DEF r
<1>12. HidEffect[cfg.light.fx + 1] = Custom =>
         dev.matrix[p][cfg.light.zone] = <<cfg.light.color, cfg.light.color>>
  <2>1. ASSUME HidEffect[cfg.light.fx + 1] = Custom
        PROVE  dev.matrix[p][cfg.light.zone] = <<cfg.light.color, cfg.light.color>>
    <3>1. dev.matrix[p][cfg.light.zone] \in [1..2 -> Color]
      BY <1>0 DEF SoundDevice
    <3>2. /\ dev.matrix[p][cfg.light.zone][1] = cfg.light.color
          /\ dev.matrix[p][cfg.light.zone][2] = cfg.light.color
      BY <1>1, <2>1 DEF Sent, MatrixSent
    <3> QED
      BY <3>1, <3>2
  <2> QED
    BY <2>1
<1> QED
  BY <1>8, <1>9, <1>10, <1>11, <1>12 DEF NextSessionShows, c

\* After an apply_all that failed nowhere the next session's read_config
\* shows what this one showed (NextSessionShows).
THEOREM NextSession == Spec => []NextSessionShows
<1>1. Init => SentInv
  BY DEF Init, SentInv
<1>2. KbdInv /\ SentInv => NextSessionShows
  BY SentIsShown DEF SentInv, NextSessionShows
<1> QED
  BY <1>1, <1>2, SentStep, KbdAlways, PTL DEF Spec

-----------------------------------------------------------------------------
(* The store of profiles.                                                   *)

Aspects == {"polling", "light", "matrix", "snap"}

\* What the store holds when the keyboard is d.
Kept(d) ==
    [p \in Profile |->
        [polling |-> d.rec[p][PollingAt], light |-> [o \in LightAt |-> d.rec[p][o]],
         matrix |-> d.matrix[p], snap |-> d.snap[p]]]

\* Of profile p keyboard e has nothing but the aspects in as from elsewhere.
Apart(d, e, p, as) ==
    /\ e.active = d.active
    /\ \A q \in Profile :
         /\ (q = p /\ "polling" \in as) \/ e.rec[q][PollingAt] = d.rec[q][PollingAt]
         /\ (q = p /\ "light" \in as) \/ \A o \in LightAt : e.rec[q][o] = d.rec[q][o]
         /\ (q = p /\ "matrix" \in as) \/ e.matrix[q] = d.matrix[q]
         /\ (q = p /\ "snap" \in as) \/ e.snap[q] = d.snap[q]

\* Of profile p store t has nothing but the aspects in as from elsewhere.
SetOnly(s, t, p, as) ==
    t = [s EXCEPT ![p] = [a \in DOMAIN @ |-> IF a \in as THEN t[p][a] ELSE @[a]]]

\* The four aspects of a profile in the store.
LEMMA KeptFields ==
    ASSUME NEW d, NEW p \in Profile
    PROVE  /\ Kept(d)[p].polling = d.rec[p][PollingAt]
           /\ Kept(d)[p].light = [o \in LightAt |-> d.rec[p][o]]
           /\ Kept(d)[p].matrix = d.matrix[p]
           /\ Kept(d)[p].snap = d.snap[p]
           /\ Kept(d)[p] = [a \in Aspects |-> Kept(d)[p][a]]
<1> DEFINE k == [polling |-> d.rec[p][PollingAt], light |-> [o \in LightAt |-> d.rec[p][o]],
                 matrix |-> d.matrix[p], snap |-> d.snap[p]]
<1>1. Kept(d)[p] = k
  BY DEF Kept
<1>2. k = [a \in Aspects |-> k[a]]
  BY DEF Aspects
<1> QED
  BY <1>1, <1>2

\* A keyboard that differs in one profile is a store that was set there.
LEMMA ApartKept ==
    ASSUME NEW d, NEW e, NEW p \in Profile, NEW as, Apart(d, e, p, as)
    PROVE  SetOnly(Kept(d), Kept(e), p, as)
<1> DEFINE f == [a \in DOMAIN Kept(d)[p] |-> IF a \in as THEN Kept(e)[p][a] ELSE Kept(d)[p][a]]
<1>1. \A q \in Profile \ {p} : Kept(e)[q] = Kept(d)[q]
  <2>1. ASSUME NEW q \in Profile \ {p} PROVE Kept(e)[q] = Kept(d)[q]
    <3>1. /\ e.rec[q][PollingAt] = d.rec[q][PollingAt]
          /\ \A o \in LightAt : e.rec[q][o] = d.rec[q][o]
          /\ e.matrix[q] = d.matrix[q] /\ e.snap[q] = d.snap[q]
      BY DEF Apart
    <3>2. [o \in LightAt |-> e.rec[q][o]] = [o \in LightAt |-> d.rec[q][o]]
      BY <3>1
    <3> QED
      BY <3>1, <3>2 DEF Kept
  <2> QED
    BY <2>1
<1>2. \A a \in Aspects \ as : Kept(e)[p][a] = Kept(d)[p][a]
  <2>0. /\ "polling" \notin as => e.rec[p][PollingAt] = d.rec[p][PollingAt]
        /\ "light" \notin as => \A o \in LightAt : e.rec[p][o] = d.rec[p][o]
        /\ "matrix" \notin as => e.matrix[p] = d.matrix[p]
        /\ "snap" \notin as => e.snap[p] = d.snap[p]
    BY DEF Apart
  <2>1. /\ "polling" \notin as => Kept(e)[p].polling = Kept(d)[p].polling
        /\ "matrix" \notin as => Kept(e)[p].matrix = Kept(d)[p].matrix
        /\ "snap" \notin as => Kept(e)[p].snap = Kept(d)[p].snap
    BY <2>0 DEF Kept
  <2>2. "light" \notin as => Kept(e)[p].light = Kept(d)[p].light
    BY <2>0 DEF Kept
  <2> QED
    BY <2>1, <2>2 DEF Aspects
<1>3. Kept(e)[p] = f
  <2>1. Kept(e)[p] = [a \in Aspects |-> Kept(e)[p][a]] /\ DOMAIN Kept(d)[p] = Aspects
    BY KeptFields
  <2>2. f = [a \in Aspects |-> IF a \in as THEN Kept(e)[p][a] ELSE Kept(d)[p][a]]
    BY <2>1
  <2> QED
    BY <1>2, <2>1, <2>2
<1>4. DOMAIN Kept(e) = Profile /\ DOMAIN Kept(d) = Profile
  BY DEF Kept
<1>5. Kept(e) = [q \in Profile |-> Kept(e)[q]] /\ Kept(d) = [q \in Profile |-> Kept(d)[q]]
  BY DEF Kept
<1> HIDE DEF f
<1>6. Kept(e) = [Kept(d) EXCEPT ![p] = f]
  BY <1>1, <1>3, <1>4, <1>5
<1> QED
  BY <1>6 DEF f, SetOnly

\* A step of the store.
LEMMA StoreSet ==
    ASSUME NEW p \in Profile, NEW as, Apart(dev, dev', p, as), UNCHANGED cfg
    PROVE  Store!Set(p, as)
<1>1. SetOnly(Kept(dev), Kept(dev'), p, as)
  BY ApartKept
<1>2. dev'.active = dev.active /\ cfg'.profile = cfg.profile
  BY DEF Apart
<1> QED
  BY <1>1, <1>2 DEF Store!Set, Kept, SetOnly

\* What happens on screen only selects a profile ...
LEMMA StoreKept ==
    ASSUME dev' = dev, cfg'.profile \in Profile
    PROVE  Store!Select
BY DEF Store!Select

\* ... or nothing the store knows of.
LEMMA StoreStutters ==
    ASSUME dev' = dev, UNCHANGED cfg
    PROVE  UNCHANGED Store!vars
BY DEF Store!vars

StoreStep == Store!Next \/ UNCHANGED Store!vars

\* The number and the polling rate of a record are no part of its lighting.
LEMMA OffsetsApart == Number \notin LightAt /\ PollingAt \notin LightAt /\ PollingAt # Number
BY DEF LightAt, Number, PollingAt

\* A step of the store in the profile the screen names, or the active one.
LEMMA StoreNamed ==
    ASSUME UNCHANGED cfg
    PROVE  /\ cfg.profile \in Profile /\ Apart(dev, dev', cfg.profile, {"light"}) => Store!SetLight
           /\ cfg.profile \in Profile /\ Apart(dev, dev', cfg.profile, {"matrix"}) => Store!SetLight
           /\ cfg.profile \in Profile /\ Apart(dev, dev', cfg.profile, {"snap"}) => Store!SetSnap
           /\ dev.active \in Profile /\ Apart(dev, dev', dev.active, {"snap"}) => Store!SetSnap
<1>1. ASSUME cfg.profile \in Profile, Apart(dev, dev', cfg.profile, {"light"})
      PROVE  Store!SetLight
  <2>1. SetOnly(Kept(dev), Kept(dev'), cfg.profile, {"light"}) /\ dev'.active = dev.active
    BY <1>1, ApartKept DEF Apart
  <2> QED
    BY <2>1 DEF Store!SetLight, Store!Set, Kept, SetOnly
<1>2. ASSUME cfg.profile \in Profile, Apart(dev, dev', cfg.profile, {"matrix"})
      PROVE  Store!SetLight
  <2>1. SetOnly(Kept(dev), Kept(dev'), cfg.profile, {"matrix"}) /\ dev'.active = dev.active
    BY <1>2, ApartKept DEF Apart
  <2> QED
    BY <2>1 DEF Store!SetLight, Store!Set, Kept, SetOnly
<1>3. ASSUME cfg.profile \in Profile, Apart(dev, dev', cfg.profile, {"snap"})
      PROVE  Store!SetSnap
  <2>1. SetOnly(Kept(dev), Kept(dev'), cfg.profile, {"snap"}) /\ dev'.active = dev.active
    BY <1>3, ApartKept DEF Apart
  <2> QED
    BY <2>1 DEF Store!SetSnap, Store!Set, Kept, SetOnly
<1>4. ASSUME dev.active \in Profile, Apart(dev, dev', dev.active, {"snap"})
      PROVE  Store!SetSnap
  <2>1. SetOnly(Kept(dev), Kept(dev'), dev.active, {"snap"}) /\ dev'.active = dev.active
    BY <1>4, ApartKept DEF Apart
  <2> QED
    BY <2>1 DEF Store!SetSnap, Store!Set, Kept, SetOnly
<1> QED
  BY <1>1, <1>2, <1>3, <1>4

\* A record sent whole, over one that was read or over one that was not.
LEMMA WriteStores ==
    ASSUME KbdInv, held # <<>>, UNCHANGED cfg, dev' \in Taken(NewRecord),
           Step = "polling" \/ Lighting
    PROVE  StoreStep
<1> DEFINE b == BaseProfile
           r == NewRecord
<1>1. /\ Record(held[1]) /\ b \in Profile /\ b \in 1..3
      /\ held[1] = dev.rec[b] \/ held[1] = Zeros
      /\ r[Number] = held[1][Number] /\ Record(r)
  BY HeldRecord, ProfilesAssumption
<1>2. SoundDevice(dev) /\ cfg.light \in Light /\ cfg.profile \in Profile /\ 1 \in Profile
  BY ProfilesAssumption DEF KbdInv, KbdTypeOK, Sound, Config
<1>3. Lighting => r[PollingAt] = held[1][PollingAt] /\ b = cfg.profile
  BY <1>1, <1>2, LitRecord DEF NewRecord, BaseProfile, Lighting
<1>4. ~Lighting => b = 1 /\ \A o \in LightAt : r[o] = held[1][o]
  BY <1>1, PolledRecord DEF NewRecord, BaseProfile, LightAt
<1>5. CASE held[1] = dev.rec[b]
  <2>1. r[Number] = b /\ dev' = [dev EXCEPT !.rec[b] = r]
    BY <1>1, <1>2, <1>5 DEF SoundDevice, Taken
  <2> HIDE DEF r, b
  <2>2. /\ dev'.rec[b] = r /\ \A q \in Profile : q # b => dev'.rec[q] = dev.rec[q]
        /\ dev'.matrix = dev.matrix /\ dev'.snap = dev.snap /\ dev'.active = dev.active
    BY <1>1, <1>2, <2>1 DEF SoundDevice
  <2>3. CASE Lighting
    <3>1. Apart(dev, dev', cfg.profile, {"light"})
      BY <1>3, <1>5, <2>2, <2>3 DEF Apart
    <3> QED
      BY <1>2, <3>1, StoreNamed DEF StoreStep, Store!Next
  <2>4. CASE ~Lighting
    <3>1. Apart(dev, dev', 1, {"polling"})
      BY <1>4, <1>5, <2>2, <2>4 DEF Apart
    <3>2. Store!Set(1, {"polling"})
      BY <1>2, <3>1, StoreSet
    <3> QED
      BY <3>2 DEF StoreStep, Store!Next, Store!SetPolling
  <2> QED
    BY <2>3, <2>4
<1>6. CASE held[1] = Zeros
  <2>1. r[Number] = 0
    BY <1>1, <1>6, ZerosRecord
  <2>2. dev' = dev \/ \E p \in Profile : dev' = [dev EXCEPT !.rec[p] = [r EXCEPT ![Number] = p]]
    BY <2>1 DEF Taken
  <2>3. CASE dev' = dev
    BY <2>3, StoreStutters DEF StoreStep
  <2>4. ASSUME NEW p \in Profile, dev' = [dev EXCEPT !.rec[p] = [r EXCEPT ![Number] = p]]
        PROVE  StoreStep
    <3> HIDE DEF r, b
    <3> DEFINE n == [r EXCEPT ![Number] = p]
    <3>1. \A o \in LightAt \cup {PollingAt} : n[o] = r[o]
      BY <1>1, OffsetsApart DEF Record, LightAt, Offset
    <3>2. dev' = [dev EXCEPT !.rec[p] = n]
      BY <2>4
    <3> HIDE DEF n
    <3>3. /\ dev'.rec[p] = n /\ \A q \in Profile : q # p => dev'.rec[q] = dev.rec[q]
          /\ dev'.matrix = dev.matrix /\ dev'.snap = dev.snap /\ dev'.active = dev.active
      BY <1>2, <3>2 DEF SoundDevice
    <3>4. Apart(dev, dev', p, {"light", "polling"})
      BY <3>3 DEF Apart
    <3>5. Store!Set(p, {"light", "polling"})
      BY <3>4, StoreSet
    <3>6. n[PollingAt] = 0 \/ \A o \in LightAt : n[o] = Zeros[o]
      <4>1. Zeros[PollingAt] = 0
        BY DEF Zeros, Offset, PollingAt, ColorAt
      <4> QED
        BY <1>3, <1>4, <1>6, <3>1, <4>1
    <3>7. Kept(dev')[p].polling = 0 \/ Kept(dev')[p].light = [o \in LightAt |-> Zeros[o]]
      BY <3>3, <3>6 DEF Kept
    <3>8. Store!Overwrite(p)
      BY <3>5, <3>7 DEF Store!Overwrite, Kept
    <3> QED
      BY <3>8 DEF StoreStep, Store!Next
  <2> QED
    BY <2>2, <2>3, <2>4
<1> QED
  BY <1>1, <1>5, <1>6

\* Every part of a push is a step of the store.
LEMMA PushStores ==
    ASSUME KbdInv, Push
    PROVE  StoreStep
<1>0. /\ UNCHANGED cfg /\ SoundDevice(dev) /\ cfg.profile \in Profile
      /\ cfg.light.zone \in 0..4 /\ rest \in 0..2
  BY DEF KbdInv, KbdTypeOK, Sound, Config, Light, Setting, Push, ReadBase, WriteRecord, WriteChunk,
         darkproject_apply_snap_tap, darkproject_apply_profile, host
<1>1. CASE dev' = dev
  BY <1>0, <1>1, StoreStutters DEF StoreStep
<1>2. CASE WriteRecord /\ dev' # dev
  <2>1. held # <<>> /\ dev' \in Taken(NewRecord) /\ (Step = "polling" \/ Lighting)
    BY <1>2 DEF WriteRecord, Fails, KbdInv, StepInv
  <2> QED
    BY <1>0, <2>1, WriteStores
<1>3. CASE WriteChunk /\ dev' # dev
  <2> DEFINE p == cfg.profile
             z == cfg.light.zone
  <2>1. dev' = [dev EXCEPT !.matrix[p][z][3 - rest] = cfg.light.color]
    BY <1>3 DEF WriteChunk
  <2>2. /\ dev'.rec = dev.rec /\ dev'.snap = dev.snap /\ dev'.active = dev.active
        /\ \A q \in Profile : q # p => dev'.matrix[q] = dev.matrix[q]
    BY <1>0, <2>1 DEF SoundDevice
  <2>3. Apart(dev, dev', cfg.profile, {"matrix"})
    BY <2>2 DEF Apart
  <2> QED
    BY <1>0, <2>3, StoreNamed DEF StoreStep, Store!Next
<1>4. CASE darkproject_apply_snap_tap /\ dev' # dev
  <2> DEFINE p == cfg.profile
             g == darkproject_build_snap_tap(cfg)
  <2>1. dev' = [dev EXCEPT !.snap[p] = g]
    BY <1>4 DEF darkproject_apply_snap_tap
  <2> HIDE DEF g
  <2>2. /\ dev'.rec = dev.rec /\ dev'.matrix = dev.matrix /\ dev'.active = dev.active
        /\ \A q \in Profile : q # p => dev'.snap[q] = dev.snap[q]
    BY <1>0, <2>1 DEF SoundDevice
  <2>3. Apart(dev, dev', cfg.profile, {"snap"})
    BY <2>2 DEF Apart
  <2> QED
    BY <1>0, <2>3, StoreNamed DEF StoreStep, Store!Next
<1>5. CASE darkproject_apply_profile /\ dev' # dev
  <2>1. dev' = [dev EXCEPT !.active = cfg.profile]
    BY <1>5 DEF darkproject_apply_profile
  <2>2. dev'.rec = dev.rec /\ dev'.matrix = dev.matrix /\ dev'.snap = dev.snap
        /\ dev'.active = cfg.profile
    BY <1>0, <2>1 DEF SoundDevice
  <2>3. Store!Switch
    BY <1>0, <2>2 DEF Store!Switch
  <2> QED
    BY <2>3 DEF StoreStep, Store!Next
<1>6. CASE ReadBase
  BY <1>1, <1>6 DEF ReadBase
<1> QED
  BY <1>1, <1>2, <1>3, <1>4, <1>5, <1>6 DEF Push

\* So is everything the user does.
LEMMA UserStores ==
    ASSUME KbdInv, KbdInv', Next, ~Push
    PROVE  StoreStep
<1>0. SoundDevice(dev) /\ SoundDevice(dev') /\ cfg'.profile \in Profile
  BY DEF KbdInv, KbdTypeOK, Sound, Config
<1>1. CASE dev' = dev
  BY <1>0, <1>1, StoreKept DEF StoreStep, Store!Next
<1>2. CASE PressSwitch
  <2>1. PICK p \in Profile : dev' = [dev EXCEPT !.active = p] /\ UNCHANGED cfg
    BY <1>2 DEF PressSwitch, Press
  <2>2. dev'.rec = dev.rec /\ dev'.matrix = dev.matrix /\ dev'.snap = dev.snap
        /\ dev'.active \in Profile
    BY <1>0, <2>1 DEF SoundDevice
  <2>3. Store!Switch
    BY <2>1, <2>2 DEF Store!Switch
  <2> QED
    BY <2>3 DEF StoreStep, Store!Next
<1>3. CASE PressSnap
  <2> DEFINE a == dev.active
             on == 1 - dev.snap[a].on
  <2>1. dev' = [dev EXCEPT !.snap[a].on = on] /\ UNCHANGED cfg /\ a \in Profile
    BY <1>0, <1>3 DEF PressSnap, Press, SoundDevice
  <2> HIDE DEF on
  <2>2. /\ dev'.rec = dev.rec /\ dev'.matrix = dev.matrix /\ dev'.active = dev.active
        /\ \A q \in Profile : q # a => dev'.snap[q] = dev.snap[q]
    BY <1>0, <2>1 DEF SoundDevice
  <2>3. Apart(dev, dev', dev.active, {"snap"})
    BY <2>2 DEF Apart
  <2> QED
    BY <2>1, <2>3, StoreNamed DEF StoreStep, Store!Next
<1>4. CASE Edit
  <2>1. PICK c, s : Change(c, s)
    BY <1>4, EditSound
  <2> QED
    BY <1>1, <2>1 DEF Change
<1>5. CASE Save \/ Revert \/ PollEvent
  BY <1>1, <1>5 DEF Save, Revert, PushAll, PollEvent
<1> QED
  BY <1>2, <1>3, <1>4, <1>5 DEF Next

\* So is every step.
LEMMA KbdStores ==
    ASSUME KbdInv, KbdInv', [Next]_vars
    PROVE  [Store!Next]_Store!vars
<1>1. CASE Push
  BY <1>1, PushStores DEF StoreStep
<1>2. CASE Next /\ ~Push
  BY <1>2, UserStores DEF StoreStep
<1>3. CASE UNCHANGED vars
  BY <1>3, StoreStutters DEF vars
<1> QED
  BY <1>1, <1>2, <1>3

\* The keyboard, used by this program with shortcuts pressed at any moment, is a
\* store of profiles (ImplementsStore): a transfer changes one aspect of one
\* profile, and only a failed read costs more.
THEOREM KeyboardImplementsStore == Spec => ImplementsStore
<1>1. KbdInv => Store!Init
  BY DEF KbdInv, KbdTypeOK, Sound, Config, SoundDevice, Store!Init
<1> QED
  BY <1>1, InitSound, KbdAlways, KbdStores, PTL DEF Spec, ImplementsStore, Store!Spec

=============================================================================
