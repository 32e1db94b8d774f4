-------------------------- MODULE KeyboardProfiles --------------------------
(* The Dark Project ALU87A: three onboard profiles, each a record the program *)
(* can only read and write as a whole, a snap tap set-up per profile, and     *)
(* shortcuts on the keyboard itself that switch both while the program works. *)
(* A record is a function from the offsets the program knows to bytes; red,   *)
(* green and blue (59, 67, 75) are one colour at offset 59, a pair of keys is *)
(* one value. Every effect has its own brightness, speed and multicolour.     *)
EXTENDS Integers, Sequences, SequencesExt, FiniteSets

CONSTANTS
    Profile,     \* 1..3 on the hardware
    MaxGroups,   \* ALLOY_MAX_SNAP_TAP_GROUPS, 10 on the hardware
    Pair,        \* snap_tap_pairs, as a sequence
    Options,     \* light setting -> the values an edit may choose from
    Rates,       \* polling rates to choose from
    Color,       \* colours there are
    DefColor,    \* the backlight colour of the driver's defaults
    Black,       \* the colour of a record of zeros
    Factory,     \* profile -> the lighting the keyboard comes with
    FirstHeld,   \* the snap tap group every profile comes with, NoGroup for none
    Faults,      \* "read": a record cannot be read; "write": a report fails
    MaxActs, MaxPresses, MaxFaults  \* how often the user acts, on screen and off, and a transfer fails

ASSUME ProfilesAssumption == Profile \subseteq 1..3 /\ 1 \in Profile
ASSUME RatesAssumption == Rates \subseteq {125, 250, 500, 1000}

\* what the driver's lists, sliders and toggles can be set to
Setting == [fx |-> 0..14, bright |-> 0..100, speed |-> 1..5, multi |-> 0..1, dir |-> 0..3,
            zone |-> 0..4, color |-> Color]
Light == [fx : Setting.fx, bright : Setting.bright, speed : Setting.speed,
          multi : Setting.multi, dir : Setting.dir, zone : Setting.zone, color : Setting.color]

ASSUME LightAssumption ==
    /\ DefColor \in Color /\ Black \in Color
    /\ Factory \in [Profile -> Light]
    /\ \A f \in DOMAIN Options : f \in DOMAIN Setting /\ Options[f] \subseteq Setting[f]

VARIABLES
    cfg,       \* [light, polling, snap, count, slots, profile]
    baseline,
    dev,       \* [rec, snap, active, matrix]: what the keyboard holds
    events,    \* shortcut reports not read yet
    task,      \* apply steps still to push
    held,      \* <<>>, or the one record read as the base of the step under way
    rest,      \* halves of the key matrix still to send
    told,      \* the profile named on screen is, or will be, the keyboard's
    fresh,     \* everything was pushed, nothing failed, nothing happened since
    acts, presses, faults

vars == <<cfg, baseline, dev, events, task, held, rest, told, fresh, acts, presses, faults>>

-----------------------------------------------------------------------------
(* Records. *)

HidEffect == <<5, 0, 1, 3, 8, 13, 6, 7, 2, 11, 10, 9, 12, 4, 14>>
Wave == 0  Solid == 5  Spiral == 6  Custom == 14

Number == 2  PollingAt == 8  EffectAt == 9  DirAt == 52  ZoneAt == 53  ColorAt == 59  SpiralAt == 84
BrightAt(e) == 10 + e
SpeedAt(e) == 24 + e
MultiAt(e) == 38 + e
Offset == {Number, PollingAt, EffectAt, ColorAt, SpiralAt} \cup 10..53

Zeros == [o \in Offset |-> IF o = ColorAt THEN Black ELSE 0]

\* With(r, f) is record r with the bytes of f written over it.
With(r, f) == [o \in Offset |-> IF o \in DOMAIN f THEN f[o] ELSE r[o]]

Quarters(pct) == LET q == (pct * 4 + 50) \div 100 IN IF q > 4 THEN 4 ELSE q

\* 1 is the slowest for the user and the fastest for the hardware.
Speed(s) == IF s < 1 THEN 3 ELSE IF s > 5 THEN 5 ELSE s

Directed(e) == IF e = Wave THEN {DirAt} ELSE IF e = Spiral THEN {SpiralAt} ELSE {}

alu87a_build_lighting(r, l) ==
    LET e == HidEffect[l.fx + 1]
        own == {EffectAt, BrightAt(e), SpeedAt(e), MultiAt(e), ZoneAt, ColorAt} \cup Directed(e)
    IN With(r, [o \in own |->
         CASE o = EffectAt -> e
           [] o = BrightAt(e) -> Quarters(l.bright)
           [] o = SpeedAt(e) -> 6 - Speed(l.speed)
           [] o = MultiAt(e) -> IF e = Solid \/ l.multi = 0 THEN 0 ELSE 8
           [] o = DirAt /\ e = Wave -> l.dir % 4
           [] o = SpiralAt -> l.dir % 2
           [] o = ZoneAt -> IF e # Custom THEN 0 ELSE IF l.zone < 5 THEN l.zone + 1 ELSE 1
           [] o = ColorAt -> l.color])

RateIndex(hz) == CASE hz = 125 -> 1 [] hz = 250 -> 2 [] hz = 500 -> 3 [] OTHER -> 4

alu87a_build_polling(r, hz) == With(r, [o \in {PollingAt} |-> RateIndex(hz)])

IndexRate(i) == CASE i = 1 -> 125 [] i = 2 -> 250 [] i = 3 -> 500 [] OTHER -> 1000

EffectIndex(e) == IF e \in Range(HidEffect) THEN CHOOSE i \in 0..14 : HidEffect[i + 1] = e ELSE 0

\* The lighting of record r; what r does not say stays as in l.
ParsedLight(r, l) ==
    LET e == r[EffectAt]
        s == r[SpeedAt(e)]
        z == r[ZoneAt]
    IN [fx |-> EffectIndex(e),
        bright |-> IF r[BrightAt(e)] > 4 THEN 100 ELSE r[BrightAt(e)] * 25,
        speed |-> IF s \in 1..5 THEN 6 - s ELSE 3,
        multi |-> IF r[MultiAt(e)] = 8 THEN 1 ELSE 0,
        dir |-> CASE e = Wave -> r[DirAt] % 4 [] e = Spiral -> r[SpiralAt] % 2 [] OTHER -> l.dir,
        zone |-> IF z \in 1..5 THEN z - 1 ELSE 0,
        color |-> r[ColorAt]]

alu87a_parse_profile_data(r, c) ==
    [c EXCEPT !.polling = IndexRate(r[PollingAt]), !.light = ParsedLight(r, c.light)]

-----------------------------------------------------------------------------
(* Snap tap groups: the array keeps what lies beyond the count, the keyboard   *)
(* has an empty pair there.                                                   *)

NoGroup == [mode |-> 0, keys |-> "none"]
ASSUME GroupAssumption ==
    /\ MaxGroups \in Nat \ {0}
    /\ Pair \in Seq(Range(Pair)) /\ Pair # <<>> /\ NoGroup.keys \notin Range(Pair)

FirstGroup == [mode |-> 0, keys |-> Pair[1]]
Group == [mode : 0..1, keys : Range(Pair)]
ASSUME FirstHeldAssumption == FirstHeld \in Group \cup {NoGroup}

\* A group is sent with a pair of keys, whatever it names.
Keyed(g) == IF g.keys = NoGroup.keys THEN [g EXCEPT !.keys = FirstGroup.keys] ELSE g

darkproject_build_snap_tap(c) ==
    [on |-> c.snap,
     groups |-> [i \in 1..MaxGroups |-> IF i <= c.count THEN Keyed(c.slots[i])
                                        ELSE IF i = 1 THEN FirstGroup ELSE NoGroup]]

\* How many groups come before the first empty pair.
Filled(groups) ==
    CHOOSE n \in 0..MaxGroups :
        /\ \A i \in 1..n : groups[i].keys # NoGroup.keys
        /\ n < MaxGroups => groups[n + 1].keys = NoGroup.keys

darkproject_parse_snap_tap_data(s, c) ==
    LET n == Filled(s.groups) IN
    [c EXCEPT !.snap = s.on, !.count = IF n = 0 THEN 1 ELSE n,
              !.slots = [i \in 1..MaxGroups |-> IF i <= n THEN s.groups[i]
                                                ELSE IF n = 0 /\ i = 1 THEN FirstGroup ELSE @[i]]]

\* Groups up to a place, empty pairs from there on.
Layout(groups) == \E n \in 0..MaxGroups : \A i \in 1..MaxGroups : groups[i] \in Group <=> i <= n

\* A snap tap set-up the keyboard can hold.
SnapTap == {s \in [on : 0..1, groups : [1..MaxGroups -> Group \cup {NoGroup}]] : Layout(s.groups)}

alu87a_config_defaults ==
    [light |-> [fx |-> 0, bright |-> 100, speed |-> 3, multi |-> 1, dir |-> 0, zone |-> 0,
                color |-> DefColor],
     polling |-> 1000, snap |-> 0, count |-> 1,
     slots |-> [i \in 1..MaxGroups |-> IF i = 1 THEN FirstGroup ELSE NoGroup],
     profile |-> 1]

\* The configuration a session starts with; of the queries in bad no answer comes.
alu87a_read_config(d, bad) ==
    LET p == IF "current" \in bad THEN 1 ELSE d.active
        c0 == [alu87a_config_defaults EXCEPT !.profile = p]
        c1 == IF "snap" \in bad THEN c0 ELSE darkproject_parse_snap_tap_data(d.snap[p], c0)
    IN IF "profile" \in bad THEN c1 ELSE alu87a_parse_profile_data(d.rec[p], c1)

-----------------------------------------------------------------------------
(* Apply steps. A push reads the record it changes and writes it back.       *)

alu87a_steps == <<"polling", "colors", "brightness", "snap-tap", "profile">>

Idle == task = <<>>
Step == Head(task)
Lighting == Step \in {"colors", "brightness"}

\* mutant: every step starts from the first profile's record
BaseProfile_First == 1

\* The profile whose record the step under way starts from.
BaseProfile == IF Step = "polling" THEN 1 ELSE cfg.profile

host == <<cfg, baseline, acts, presses>>

\* A transfer that works, and one that does not.
Works == UNCHANGED <<faults, fresh>>
Fails(kind) == kind \in Faults /\ faults < MaxFaults /\ faults' = faults + 1 /\ fresh' = FALSE

ReadBase ==
    /\ ~Idle /\ held = <<>> /\ rest = 0
    /\ Step = "polling" \/ Lighting
    /\ \/ held' = <<dev.rec[BaseProfile]>> /\ Works
       \/ held' = <<Zeros>> /\ Fails("read")
    /\ UNCHANGED <<host, dev, events, task, rest, told>>

\* mutant: the polling step sends the lighting of the screen with it
NewRecord_Whole == alu87a_build_polling(alu87a_build_lighting(held[1], cfg.light), cfg.polling)

NewRecord == IF Lighting THEN alu87a_build_lighting(held[1], cfg.light)
                         ELSE alu87a_build_polling(held[1], cfg.polling)

\* What the keyboard may hold after record r was sent: r goes where its number
\* says; with no number it goes nowhere or into any profile.
Taken(r) ==
    IF r[Number] # 0
    THEN {[dev EXCEPT !.rec[r[Number]] = r]}
    ELSE {dev} \cup {[dev EXCEPT !.rec[p] = [r EXCEPT ![Number] = p]] : p \in Profile}

WriteRecord ==
    /\ ~Idle /\ held # <<>>
    /\ held' = <<>>
    /\ \/ /\ dev' \in Taken(NewRecord)
          /\ rest' = IF Lighting /\ HidEffect[cfg.light.fx + 1] = Custom THEN 2 ELSE 0
          /\ task' = IF rest' = 0 THEN Tail(task) ELSE task
          /\ Works
       \/ Fails("write") /\ task' = Tail(task) /\ UNCHANGED <<dev, rest>>
    /\ UNCHANGED <<host, events, told>>

\* One half of the key matrix of a custom lighting; nobody looks at the result.
WriteChunk ==
    /\ ~Idle /\ rest > 0
    /\ \/ /\ dev' = [dev EXCEPT !.matrix[cfg.profile][cfg.light.zone][3 - rest] = cfg.light.color]
          /\ Works
       \/ Fails("write") /\ UNCHANGED dev
    /\ rest' = rest - 1
    /\ task' = IF rest = 1 THEN Tail(task) ELSE task
    /\ UNCHANGED <<host, events, held, told>>

darkproject_apply_snap_tap ==
    /\ ~Idle /\ Step = "snap-tap"
    /\ \/ dev' = [dev EXCEPT !.snap[cfg.profile] = darkproject_build_snap_tap(cfg)] /\ Works
       \/ Fails("write") /\ UNCHANGED dev
    /\ task' = Tail(task)
    /\ UNCHANGED <<host, events, held, rest, told>>

NoSwitchUnread == \A i \in DOMAIN events : events[i].what # "profile"

darkproject_apply_profile ==
    /\ ~Idle /\ Step = "profile"
    /\ \/ /\ dev' = [dev EXCEPT !.active = cfg.profile]
          /\ told' = NoSwitchUnread
          /\ Works
       \/ Fails("write") /\ told' = FALSE /\ UNCHANGED dev
    /\ task' = Tail(task)
    /\ UNCHANGED <<host, events, held, rest>>

-----------------------------------------------------------------------------
(* The user at the screen, with live preview on.                             *)

Change(c, step) ==
    /\ Idle /\ acts < MaxActs
    /\ cfg' = c /\ task' = <<step>> /\ acts' = acts + 1
    /\ fresh' = FALSE
    /\ told' = (told /\ c.profile = cfg.profile)
    /\ UNCHANGED <<baseline, dev, events, held, rest, presses, faults>>

EditLight == \E f \in DOMAIN Options : \E v \in Options[f] \ {cfg.light[f]} :
    Change([cfg EXCEPT !.light[f] = v], IF f = "bright" THEN "brightness" ELSE "colors")

EditPolling == \E hz \in Rates \ {cfg.polling} : Change([cfg EXCEPT !.polling = hz], "polling")
snap_set == Change([cfg EXCEPT !.snap = 1 - @], "snap-tap")
profile_set == \E p \in Profile \ {cfg.profile} : Change([cfg EXCEPT !.profile = p], "profile")

mode_set == \E i \in 1..cfg.count : \E m \in 0..1 \ {cfg.slots[i].mode} :
    Change([cfg EXCEPT !.slots[i].mode = m], "snap-tap")
keys_set == \E i \in 1..cfg.count : \E k \in Range(Pair) \ {cfg.slots[i].keys} :
    Change([cfg EXCEPT !.slots[i].keys = k], "snap-tap")

group_add ==
    /\ cfg.count < MaxGroups
    /\ Change([cfg EXCEPT !.count = @ + 1,
            !.slots[cfg.count + 1] = [mode |-> 0, keys |-> Pair[(cfg.count % Len(Pair)) + 1]]],
            "snap-tap")

\* mutant: the last group can be deleted
group_del_Last == Change([cfg EXCEPT !.count = @ - 1], "snap-tap")

group_del == cfg.count > 1 /\ Change([cfg EXCEPT !.count = @ - 1], "snap-tap")

PushAll ==
    /\ Idle /\ acts < MaxActs
    /\ task' = alu87a_steps /\ acts' = acts + 1 /\ fresh' = TRUE
    /\ UNCHANGED <<dev, events, held, rest, presses, faults>>

Save == PushAll /\ baseline' = cfg /\ UNCHANGED <<cfg, told>>

Revert ==
    /\ PushAll
    /\ cfg' = baseline /\ told' = (told /\ cfg'.profile = cfg.profile)
    /\ UNCHANGED baseline

-----------------------------------------------------------------------------
(* Shortcuts. They take effect at once, also between a read and a write; the  *)
(* program hears of them when it is idle.                                     *)

Press(d, e) ==
    /\ presses < MaxPresses
    /\ presses' = presses + 1
    /\ dev' = d /\ events' = Append(events, e)
    /\ fresh' = FALSE
    /\ UNCHANGED <<cfg, baseline, task, held, rest, acts, faults>>

PressSwitch == \E p \in Profile \ {dev.active} :
    Press([dev EXCEPT !.active = p], [what |-> "profile", val |-> p]) /\ told' = TRUE

PressSnap ==
    LET on == 1 - dev.snap[dev.active].on IN
    /\ Press([dev EXCEPT !.snap[dev.active].on = on], [what |-> "snap", val |-> on])
    /\ UNCHANGED told

\* mutant: the profile in a report is ignored
alu87a_parse_event_SnapOnly(e) == IF e.what = "snap" THEN [cfg EXCEPT !.snap = e.val] ELSE cfg

\* What parse_event makes of the configuration.
alu87a_parse_event(e) == IF e.what = "snap" THEN [cfg EXCEPT !.snap = e.val]
                                            ELSE [cfg EXCEPT !.profile = e.val]

keyboard_event(b, c) == [b EXCEPT !.snap = c.snap, !.profile = c.profile]

PollEvent ==
    /\ Idle /\ events # <<>>
    /\ events' = Tail(events)
    /\ cfg' = alu87a_parse_event(Head(events))
    /\ baseline' = IF cfg' = cfg THEN baseline ELSE keyboard_event(baseline, cfg')
    /\ fresh' = FALSE
    /\ UNCHANGED <<dev, task, held, rest, told, acts, presses, faults>>

-----------------------------------------------------------------------------
FactoryDev(a) ==
    [rec |-> [p \in Profile |-> alu87a_build_polling(
                 alu87a_build_lighting([Zeros EXCEPT ![Number] = p], Factory[p]), 1000)],
     snap |-> [p \in Profile |-> [on |-> 0, groups |-> [i \in 1..MaxGroups |->
                                     IF i = 1 THEN FirstHeld ELSE NoGroup]]],
     active |-> a,
     matrix |-> [p \in Profile |-> [z \in 0..4 |-> <<Black, Black>>]]]

Init ==
    \E a \in Profile : \E bad \in SUBSET (IF "read" \in Faults THEN {"current", "snap", "profile"} ELSE {}) :
        /\ dev = FactoryDev(a)
        /\ cfg = alu87a_read_config(dev, bad)
        /\ baseline = cfg
        /\ told = ("current" \notin bad) /\ fresh = FALSE
        /\ events = <<>> /\ task = <<>> /\ held = <<>> /\ rest = 0
        /\ acts = 0 /\ presses = 0 /\ faults = 0

Push == ReadBase \/ WriteRecord \/ WriteChunk \/ darkproject_apply_snap_tap \/ darkproject_apply_profile
Edit == \/ EditLight \/ EditPolling \/ snap_set \/ profile_set \/ mode_set \/ keys_set
        \/ group_add \/ group_del
Next == Push \/ Edit \/ Save \/ Revert \/ PressSwitch \/ PressSnap \/ PollEvent

Spec == Init /\ [][Next]_vars

-----------------------------------------------------------------------------
(* Properties. *)

Config == [light : Light, polling : {125, 250, 500, 1000}, snap : 0..1, count : 1..MaxGroups,
           slots : [1..MaxGroups -> Group \cup {NoGroup}], profile : Profile]

Sound(c) == c \in Config /\ \A i \in 1..c.count : c.slots[i] \in Group

Record(r) ==
    /\ DOMAIN r = Offset
    /\ r[ColorAt] \in Color /\ \A o \in Offset \ {ColorAt} : r[o] \in 0..255

SoundDevice(d) ==
    /\ DOMAIN d = {"rec", "snap", "active", "matrix"}
    /\ DOMAIN d.rec = Profile
    /\ \A p \in Profile : Record(d.rec[p]) /\ d.rec[p][Number] = p
    /\ d.snap \in [Profile -> SnapTap]
    /\ d.active \in Profile
    /\ d.matrix \in [Profile -> [0..4 -> [1..2 -> Color]]]

Event == [what : {"profile"}, val : Profile] \cup [what : {"snap"}, val : 0..1]

\* Every group in use, on screen and in what REVERT goes back to, names a pair;
\* the groups stay within the limits of the array; and no record of the
\* keyboard ends up in another's place (group_add, group_del, apply_profile,
\* the record's own number).
KbdTypeOK ==
    /\ Sound(cfg) /\ Sound(baseline) /\ SoundDevice(dev)
    /\ events \in Seq(Event)
    /\ task \in Seq(Range(alu87a_steps))
    /\ Len(held) <= 1 /\ \A i \in DOMAIN held : Record(held[i])
    /\ rest \in 0..2

\* A lighting as the keyboard can hold it: brightness in quarters, no
\* multicolour of a solid colour, a direction and a zone only where there is one.
Held(l) ==
    LET e == HidEffect[l.fx + 1] IN
    [fx |-> l.fx, speed |-> l.speed, color |-> l.color,
     bright |-> 25 * Quarters(l.bright), multi |-> IF e = Solid THEN 0 ELSE l.multi,
     dir |-> CASE e = Wave -> l.dir [] e = Spiral -> l.dir % 2 [] OTHER -> 0,
     zone |-> IF e = Custom THEN l.zone ELSE 0]

\* When everything was pushed and nothing failed, the next session probes what
\* this one shows (read_config after apply_all); the polling rate is the one of
\* profile 1 whatever the active profile, so it is compared there only.
NextSessionShows == fresh /\ Idle =>
    LET c == alu87a_read_config(dev, {}) IN
    /\ c.light = Held(cfg.light)
    /\ c.snap = cfg.snap /\ c.count = cfg.count
    /\ \A i \in 1..c.count : c.slots[i] = cfg.slots[i]
    /\ c.profile = cfg.profile
    /\ cfg.profile = 1 => c.polling = cfg.polling
    /\ HidEffect[cfg.light.fx + 1] = Custom =>
         dev.matrix[cfg.profile][cfg.light.zone] = <<cfg.light.color, cfg.light.color>>

\* Screen and keyboard name the same profile once all reports are read, unless
\* a push crossed a shortcut or failed (profile step against parse_event).
ScreenNamesProfile == Idle /\ NoSwitchUnread /\ told => cfg.profile = dev.active

\* Every transfer changes one aspect of one profile, whatever shortcuts come
\* between its read and its write; only a failed read costs more.
LightAt == Offset \ {Number, PollingAt}

Store == INSTANCE ProfileStore WITH
    First <- 1,
    NoRate <- 0, NoLight <- [o \in LightAt |-> Zeros[o]],
    store <- [p \in Profile |->
        [polling |-> dev.rec[p][PollingAt], light |-> [o \in LightAt |-> dev.rec[p][o]],
         matrix |-> dev.matrix[p], snap |-> dev.snap[p]]],
    active <- dev.active,
    target <- cfg.profile
ImplementsStore == Store!Spec
=============================================================================
