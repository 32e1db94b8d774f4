---------------------------------- MODULE Menu ----------------------------------
(* The keys of the interface: which control is lit, which one a key acts on, and *)
(* where the controls are drawn.  tui_input.c, tui_modal.c and tui_render.c over  *)
(* the screens and item lists of mouse.c, keyboard.c, light.c and widgets.c.  An  *)
(* item is a record, the settings a function from <<name, index>> to numbers;     *)
(* pushing an edit, SAVE and REVERT in full are Session's.                        *)
EXTENDS Integers, Sequences, SequencesExt, FiniteSetsExt, TLC

CONSTANTS
    Driver,     \* [kind, wireless, zones, fx, ctrls, hues (effects without a colour), caps,
                \*  rates, buttons, limit, levels, lo, hi, grid, groups, pairs]
    Terminal,   \* <<columns, lines>>, large enough for tui_render() to draw
    EnoughLines,
    Palette,    \* the colours on offer; which one was picked (ui->swatch) is left open
    Hexes,      \* sequences of hex digits one may type
    MaxGroups, MaxEdits,
    MaxAway     \* panes whose cursor has left its first place, at a time

ASSUME TerminalAssumption == \A t \in Terminal : t[1] >= 100 /\ t[2] >= 28

\* settings there is one of, or a fixed number, on any device
Single == {"brightness", "sleep", "groups", "profile", "count", "active", "rate", "smart", "dim",
           "snap", "acceleration", "deceleration", "snapping", "accel"}
CtrlName(d) == {c.name : c \in UNION {Range(d.ctrls[i]) : i \in DOMAIN d.ctrls}}

\* a mouse with lights has buttons too, a light has effects, and each effect a list of
\* controls
ASSUME DriverAssumption ==
    /\ MaxGroups \in Nat \ {0}
    /\ \A d \in Driver :
         /\ d.wireless \in BOOLEAN /\ d.buttons \in Nat /\ d.zones \in Nat /\ d.rates \in Nat /\ d.fx \in Nat
         /\ d.kind = "mouse" /\ d.zones > 0 => d.buttons > 0
         /\ d.zones > 0 => d.fx > 0
         /\ \A i \in 1..d.fx : i \in DOMAIN d.ctrls /\ d.ctrls[i] \in Seq(Range(d.ctrls[i]))
         /\ CtrlName(d) \cap ({"fx", "color", "dpi", "button", "keys", "mode"} \cup Single) = {}
         /\ d.limit \in 0..5 /\ d.levels \in 0..d.limit /\ d.groups \in 1..MaxGroups

VARIABLES
    drv,
    screen,    \* "main" or "light"
    focus,     \* a pane of the screen, or the footer after the last one
    cursor,    \* pane -> slot, from 0; may lie beyond a list that has become shorter
    zone,      \* the zone being edited
    cfg, baseline,
    modal,     \* <<>>, or what waits for a key: [kind, it, n]
    quit, edits

ui == <<screen, focus, cursor, zone>>
vars == <<drv, ui, cfg, baseline, modal, quit, edits>>

Limit(v, lo, hi) == Min({Max({v, lo}), hi})

\* the configuration a session opens with, by <<name, index>>; edits counts the
\* changes since it was shown last
Key(d) == (({"fx", "color"} \cup CtrlName(d)) \X (1..d.zones)) \cup ({"dpi"} \X (1..5))
          \cup ({"button"} \X (1..d.buttons)) \cup ({"keys", "mode"} \X (1..MaxGroups))
          \cup (Single \X {0})
Defaults(d) == [k \in Key(d) |->
    CASE k[1] = "color" -> <<255, 0, 128>>
      [] k[1] \in CtrlName(d) -> 3
      [] k[1] = "dpi" -> IF k[2] <= d.levels THEN 800 * k[2] ELSE 0
      [] k[1] = "button" -> 9
      [] k[1] = "brightness" -> 100
      [] k[1] = "sleep" -> 5
      [] k[1] = "groups" -> d.groups
      [] k[1] = "profile" -> 1
      [] k[1] = "count" -> d.levels
      [] OTHER -> 0]

-----------------------------------------------------------------------------
(* Items. *)

Item(kind, set) == [kind |-> kind, set |-> set, lo |-> 0, hi |-> 0, step |-> 1, big |-> 1, n |-> 0,
                    off |-> FALSE, rows |-> 1, do |-> "adjust", sub |-> 0]
Heading == Item("heading", <<>>)
Spacer == Item("spacer", <<>>)
Static(r) == [Heading EXCEPT !.rows = r]
Slider(set, lo, hi, step, big) ==
    [Item("slider", set) EXCEPT !.lo = lo, !.hi = hi, !.step = step, !.big = big, !.rows = 2]
Stepper(set, lo, hi, step, big) == [Slider(set, lo, hi, step, big) EXCEPT !.kind = "stepper", !.rows = 1]
Gauge(set, lo, hi, off) == [Stepper(set, lo, hi, 1, 1) EXCEPT !.off = off]
Choice(set, n) == [Item("choice", set) EXCEPT !.n = n]
Toggle(set) == Item("toggle", set)
Button(do, i) == [Item("button", <<do, i>>) EXCEPT !.do = do]

\* five stops: red, green, blue, the palette, the hex field
Colour(z, off) ==
    [s \in 1..5 |-> [Item("color", <<"color", z>>) EXCEPT !.off = off, !.sub = s - 1, !.rows = IF s = 1 THEN 8 ELSE 0]]

If(test, s) == IF test THEN s ELSE <<>>
Each(n, F(_)) == [i \in 1..n |-> F(i)]
EachTwo(n, F(_), G(_)) == [k \in 1..(2 * n) |-> IF k % 2 = 1 THEN F((k + 1) \div 2) ELSE G(k \div 2)]

actions_items == Each(drv.buttons, LAMBDA b : [Button("remap", b) EXCEPT !.kind = "custom", !.rows = 2])

levels_items ==
    EachTwo(cfg[<<"count", 0>>],
            LAMBDA i : [Slider(<<"dpi", i>>, drv.lo, drv.hi, drv.grid, 10 * drv.grid) EXCEPT !.do = "level"],
            LAMBDA i : Spacer)
    \o If(cfg[<<"count", 0>>] < drv.limit, <<Button("create", 0)>>)

power_items == <<Stepper(<<"sleep", 0>>, 0, 20, 1, 5), Toggle(<<"smart", 0>>),
                 Stepper(<<"dim", 0>>, 0, 1200, 15, 60)>>

alloy_widget_polling ==
    If(drv.rates > 0, <<Heading, Static(4), Slider(<<"rate", 0>>, 0, drv.rates - 1, 1, 1)>>)
alloy_widget_brightness == If("brightness" \in drv.caps, <<Slider(<<"brightness", 0>>, 0, 100, 5, 20)>>)

\* the engine switch writes its own record, see EngineControl
tuning_items ==
    <<Heading, Static(8), Stepper(<<"acceleration", 0>>, 0, 100, 5, 50),
      Stepper(<<"deceleration", 0>>, 0, 100, 5, 50), Spacer, Heading, Static(3),
      Stepper(<<"snapping", 0>>, 0, 45, 1, 5), Toggle(<<"accel", 0>>), Spacer>>
    \o alloy_widget_polling

alloy_light_available ==
    drv.zones > 1 \/ (drv.zones = 1 /\ (drv.fx > 1 \/ {"color", "reactive"} \cap drv.caps # {}))
alloy_light_gateway == If(alloy_light_available, <<Button("goto", 0)>>)

light_ctrls(fx) == drv.ctrls[fx + 1]
fx_has_color(fx) == fx \notin drv.hues
ctrl_item(c, set, off) ==
    CASE c.type = "choice" -> Choice(set, c.hi) [] c.type = "toggle" -> Toggle(set)
      [] OTHER -> Gauge(set, c.lo, c.hi, off)
effects_items ==
    LET fx == cfg[<<"fx", zone>>]
        ctrls == light_ctrls(fx)
    IN <<Heading, Spacer, [Choice(<<"fx", zone>>, drv.fx) EXCEPT !.do = "effect"]>>
       \o If("global" \in drv.caps, <<Heading>>) \o <<Spacer>>
       \o Each(Len(ctrls), LAMBDA i : ctrl_item(ctrls[i], <<ctrls[i].name, zone>>, fx = 0))
       \o If("color" \in drv.caps, <<Spacer, Heading>> \o Colour(zone, ~fx_has_color(fx)))
       \o If("brightness" \in drv.caps, <<Spacer, Heading>> \o alloy_widget_brightness)

preview_items == Each(drv.zones, LAMBDA z : Button("tab", z))

controls_items ==
    LET n == cfg[<<"groups", 0>>] IN
    If("brightness" \in drv.caps, <<Heading>> \o alloy_widget_brightness \o <<Spacer>>)
    \o alloy_widget_polling
    \o If("snap" \in drv.caps,
          <<Spacer, Heading, Toggle(<<"snap", 0>>)>>
          \o EachTwo(n, LAMBDA g : Choice(<<"keys", g>>, drv.pairs), LAMBDA g : Choice(<<"mode", g>>, 2))
          \o If(n < MaxGroups, <<Button("add", 0)>>) \o If(n > 1, <<Button("del", 0)>>))
    \o If("profile" \in drv.caps, <<Spacer, Heading, Stepper(<<"profile", 0>>, 1, 3, 1, 1)>>)

-----------------------------------------------------------------------------
(* Panes: id, column, width in percent (0 shares what is left) and its bounds,   *)
(* height in rows or percent, whether drawn at all, upwards from the bottom, and *)
(* with a hint.                                                                  *)

Pane(id, col, pct, hint) == [id |-> id, col |-> col, pct |-> pct, min |-> 0, max |-> 9999,
    rows |-> 0, hpct |-> 0, shown |-> TRUE, art |-> FALSE, hint |-> hint]

mouse_main_panes == [wireless \in BOOLEAN |->
    <<[Pane("actions", 0, 24, FALSE) EXCEPT !.hpct = 72], Pane("macro", 0, 24, FALSE),
      [Pane("device", 1, 0, FALSE) EXCEPT !.rows = 5, !.shown = wireless],
      [Pane("center", 1, 0, FALSE) EXCEPT !.art = TRUE],
      Pane("levels", 2, 22, TRUE), [Pane("power", 2, 22, TRUE) EXCEPT !.rows = 9, !.shown = wireless],
      Pane("tuning", 3, 24, TRUE)>>]
keyboard_main_panes ==
    <<[Pane("center", 0, 0, FALSE) EXCEPT !.art = TRUE],
      [Pane("controls", 1, 28, TRUE) EXCEPT !.min = 26, !.max = 34]>>
alloy_light_panes ==
    <<[Pane("effects", 0, 28, TRUE) EXCEPT !.min = 26, !.max = 36],
      [Pane("preview", 1, 0, FALSE) EXCEPT !.art = TRUE]>>

PanesOf(d, s) == IF s = "light" THEN alloy_light_panes
                 ELSE IF d.kind = "mouse" THEN mouse_main_panes[d.wireless] ELSE keyboard_main_panes
Panes == PanesOf(drv, screen)
Footer == Len(Panes) + 1

mouse_items(p) ==
    CASE p.id = "actions" -> actions_items [] p.id = "macro" -> <<Button("macro", 0)>>
      [] p.id = "device" -> <<Static(3)>> [] p.id = "center" -> alloy_light_gateway
      [] p.id = "levels" -> levels_items [] p.id = "power" -> power_items
      [] p.id = "tuning" -> tuning_items
keyboard_items(p) ==
    CASE p.id = "center" -> alloy_light_gateway [] p.id = "controls" -> controls_items
alloy_light_items(p) ==
    CASE p.id = "effects" -> effects_items [] p.id = "preview" -> preview_items

tui_pane_items(p) ==
    IF screen = "light" THEN alloy_light_items(p)
    ELSE IF drv.kind = "mouse" THEN mouse_items(p) ELSE keyboard_items(p)

item_selectable(it) == it.kind \notin {"heading", "spacer"}

\* the places of the items one can move to; the slots are these, in order
tui_pane_slots(items) == {k \in DOMAIN items : item_selectable(items[k])}
tui_pane_slot_count(p) ==
    IF p = Footer THEN 3
    ELSE IF Panes[p].shown THEN Cardinality(tui_pane_slots(tui_pane_items(Panes[p]))) ELSE 0

\* the item of slot n, from 0, and the last slot
Rank(S, k) == Cardinality({j \in S : j < k})
Slot(items, n) == LET S == tui_pane_slots(items) IN items[CHOOSE k \in S : Rank(S, k) = n]
LastSlot(items) == Cardinality(tui_pane_slots(items)) - 1

\* the lit item, as draw_pane() has it
Lit(p) == LET items == tui_pane_items(Panes[p]) IN Slot(items, Min({cursor[p], LastSlot(items)}))

\* mutant: a cursor beyond the list counts from its start again
focused_item_Wraps(p) ==
    LET items == tui_pane_items(Panes[p]) IN Slot(items, cursor[p] % (LastSlot(items) + 1))

\* and the one a key acts on
focused_item(p) ==
    LET items == tui_pane_items(Panes[p]) IN Slot(items, Limit(cursor[p], 0, LastSlot(items)))

-----------------------------------------------------------------------------
(* Where things are drawn, panes p on a terminal t.                             *)

MainLines(t) == t[2] - 3
Shown(p) == {i \in DOMAIN p : p[i].shown}
InColumn(p, c) == {i \in Shown(p) : p[i].col = c}
Width(pane, t) == Limit((t[1] * pane.pct) \div 100, pane.min, pane.max)

\* column -> its left edge and width; the last one takes what rounding leaves
column_layout(p, t) ==
    LET cols == 0..Max({p[i].col : i \in Shown(p)})
        flex == {c \in cols : \E i \in InColumn(p, c) : p[i].pct = 0}
        fixed == [c \in cols \ flex |-> Max({Width(p[i], t) : i \in InColumn(p, c)})]
        rest == t[1] - MapThenSumSet(LAMBDA c : fixed[c], DOMAIN fixed)
        w == [c \in cols |-> IF c \in flex THEN Max({rest \div Cardinality(flex), 8}) ELSE fixed[c]]
        x == [c \in cols |-> MapThenSumSet(LAMBDA b : w[b], 0..(c - 1))]
    IN [c \in cols |-> [x |-> x[c], w |-> IF c = Max(cols) THEN t[1] - x[c] ELSE w[c]]]

\* mutant: what rounding leaves below a column belongs to nobody
tui_layout_NoRemainder(p, t) ==
    [i \in Shown(p) |->
        LET c == column_layout(p, t)[p[i].col]
            h == MainLines(t) \div Cardinality(InColumn(p, p[i].col))
        IN [y |-> h * Cardinality({j \in InColumn(p, p[i].col) : j < i}), x |-> c.x, w |-> c.w, h |-> h]]

\* pane -> rectangle; the last pane of a column takes what rounding leaves
tui_layout(p, t) ==
    LET cols == column_layout(p, t)
        same(i) == InColumn(p, p[i].col)
        fix(i) == IF p[i].rows # 0 THEN p[i].rows ELSE (MainLines(t) * p[i].hpct) \div 100
        loose(i) == {j \in same(i) : fix(j) = 0}
        left(i) == MainLines(t) - MapThenSumSet(fix, same(i))
        h == [i \in Shown(p) |-> IF i \in loose(i) THEN left(i) \div Cardinality(loose(i)) ELSE fix(i)]
        y == [i \in Shown(p) |-> MapThenSumSet(LAMBDA j : h[j], {j \in same(i) : j < i})]
    IN [i \in Shown(p) |-> [y |-> y[i], x |-> cols[p[i].col].x, w |-> cols[p[i].col].w,
                             h |-> IF i = Max(same(i)) THEN MainLines(t) - y[i] ELSE h[i]]]

Screens == {"main", "light"}
Layout == [d \in Driver, s \in Screens, t \in Terminal |-> tui_layout(PanesOf(d, s), t)]

\* draw_pane() stops at the first item that does not fit above frame and hint
draw_pane(i, t) ==
    LET items == tui_pane_items(Panes[i])
        room == Layout[drv, screen, t][i].h - 1 - (IF Panes[i].hint THEN 2 ELSE 0)
        upto[k \in 0..Len(items)] == IF k = 0 THEN 2 ELSE upto[k - 1] + items[k].rows
    IN IF Panes[i].art THEN DOMAIN items ELSE {k \in DOMAIN items : upto[k] <= room}

-----------------------------------------------------------------------------
(* What keys do to the settings.                                                *)

Idle == ~quit /\ modal = <<>>
Commit(c) == /\ c # cfg => edits < MaxEdits
             /\ cfg' = c /\ edits' = edits + (IF c = cfg THEN 0 ELSE 1)

\* sync_global_fx() after an edit of the lighting
ZoneSetting == {"fx", "color"} \cup CtrlName(drv)
Mirrored(c) == IF "global" \notin drv.caps THEN c
               ELSE [k \in DOMAIN c |-> IF k[1] \in ZoneSetting THEN c[<<k[1], zone>>] ELSE c[k]]
Written(it, v) ==
    LET c == [cfg EXCEPT ![it.set] = v] IN IF it.set[1] \in ZoneSetting THEN Mirrored(c) ELSE c

color_adjust(it, step) == Written(it, [cfg[it.set] EXCEPT ![it.sub + 1] = Limit(@ + step, 0, 255)])

tui_item_adjust(it, dir, big) ==
    LET val == cfg[it.set]
        step == dir * (IF big THEN it.big ELSE it.step)
    IN IF it.kind = "button" \/ it.do = "remap" \/ it.off THEN cfg
       ELSE CASE it.kind = "color" -> color_adjust(it, dir * (IF big THEN 16 ELSE 1))
              [] it.kind = "toggle" -> Written(it, IF dir > 0 THEN 1 ELSE 0)
              [] it.kind = "choice" -> Written(it, (val + dir + it.n) % it.n)
              [] OTHER -> Written(it, Limit(val + step, it.lo, it.hi))

dpi_create ==
    LET n == cfg[<<"count", 0>>]
        v == (Limit(cfg[<<"dpi", n>>] * 2, drv.lo, drv.hi) \div drv.grid) * drv.grid
    IN IF n >= drv.limit THEN cfg ELSE [cfg EXCEPT ![<<"dpi", n + 1>>] = v, ![<<"count", 0>>] = n + 1]

group_add ==
    LET n == cfg[<<"groups", 0>>] IN
    IF n >= MaxGroups THEN cfg
    ELSE [cfg EXCEPT ![<<"groups", 0>>] = n + 1, ![<<"mode", n + 1>>] = 0, ![<<"keys", n + 1>>] = n % drv.pairs]
group_del == IF cfg[<<"groups", 0>>] <= 1 THEN cfg ELSE [cfg EXCEPT ![<<"groups", 0>>] = @ - 1]

\* what ENTER makes of the settings at once
tui_item_activate(it, swatch) ==
    LET val == cfg[it.set]
        live == it.do = "adjust" /\ ~it.off
    IN CASE live /\ it.kind = "color" -> IF it.sub = 3 THEN Written(it, swatch) ELSE cfg
         [] it.do = "level" -> [cfg EXCEPT ![<<"active", 0>>] = it.set[2] - 1]
         [] it.do = "create" -> dpi_create [] it.do = "add" -> group_add [] it.do = "del" -> group_del
         [] live /\ it.kind = "toggle" -> Written(it, 1 - val)
         [] live /\ it.kind = "choice" -> Written(it, (val + 1) % it.n)
         [] OTHER -> cfg

\* and what it opens, a menu with n choices; remap_choices come as a click, a key yet
\* to press, and nothing
Dialog(kind, it, n) == [kind |-> kind, it |-> it, n |-> n]
Opens(it, sub) ==
    CASE it.kind = "color" /\ ~it.off /\ sub = 4 -> Dialog("hex", it, 0)
      [] it.do = "remap" -> Dialog("remap", it, 3)
      [] it.do = "macro" -> Dialog("message", it, 0)
      [] it.do = "effect" -> IF it.n < 2 THEN Dialog("message", it, 0)
                             ELSE Dialog("effect", it, it.n)
      [] OTHER -> <<>>

-----------------------------------------------------------------------------
(* Keys, in the frame loop.                                                     *)

alloy_ui_goto_screen(s) ==
    screen' = s /\ focus' = 1 /\ cursor' = [p \in DOMAIN cursor |-> 0] /\ UNCHANGED zone

EscKey == /\ Idle /\ screen # "main" /\ alloy_ui_goto_screen("main")
          /\ UNCHANGED <<drv, cfg, baseline, modal, quit, edits>>

QuitKey ==
    /\ Idle
    /\ IF screen # "main" THEN alloy_ui_goto_screen("main") /\ UNCHANGED <<modal, quit>>
       ELSE /\ modal' = IF cfg # baseline THEN Dialog("confirm", Heading, 3) ELSE <<>>
            /\ quit' = (cfg = baseline) /\ UNCHANGED ui
    /\ UNCHANGED <<drv, cfg, baseline, edits>>

\* mutant: the next pane, whatever it holds
focus_step_AnyPane ==
    /\ Idle
    /\ \E dir \in {-1, 1} : focus' = ((focus - 1 + dir) % Footer) + 1
    /\ UNCHANGED <<drv, screen, cursor, zone, cfg, baseline, modal, quit, edits>>

\* the next pane in direction dir that offers anything
focus_step ==
    /\ Idle
    /\ \E dir \in {-1, 1} :
         LET at(k) == ((focus - 1 + dir * k) % Footer) + 1
             found == {k \in 1..Footer : tui_pane_slot_count(at(k)) > 0}
         IN focus' = IF found = {} THEN 1 ELSE at(Min(found))
    /\ UNCHANGED <<drv, screen, cursor, zone, cfg, baseline, modal, quit, edits>>

CursorKey ==
    /\ Idle /\ tui_pane_slot_count(focus) > 0
    /\ \E dir \in {-1, 1} : cursor' = [cursor EXCEPT ![focus] = (@ + dir) % tui_pane_slot_count(focus)]
    /\ Cardinality({p \in DOMAIN Panes : cursor'[p] # 0}) <= MaxAway
    /\ UNCHANGED <<drv, screen, focus, zone, cfg, baseline, modal, quit, edits>>

have == focus # Footer /\ tui_pane_slots(tui_pane_items(Panes[focus])) # {}

AdjustKey ==
    /\ Idle /\ have
    /\ LET it == focused_item(focus)
       IN /\ it.kind # "color" \/ it.sub < 3
          /\ \E dir \in {-1, 1}, big \in BOOLEAN : Commit(tui_item_adjust(it, dir, big))
    /\ UNCHANGED <<drv, ui, baseline, modal, quit>>

EnterKey ==
    /\ Idle /\ have
    /\ LET it == focused_item(focus)
       IN /\ \E swatch \in Palette : Commit(tui_item_activate(it, swatch))
          /\ modal' = Opens(it, it.sub)
          /\ IF it.do = "goto" THEN alloy_ui_goto_screen("light")
             ELSE zone' = (IF it.do = "tab" THEN it.set[2] ELSE zone) /\ UNCHANGED <<screen, focus, cursor>>
    /\ UNCHANGED <<drv, baseline, quit>>

\* 'x': straight to the hex field of a colour
HexKey ==
    /\ Idle /\ have
    /\ LET it == focused_item(focus)
       IN /\ it.kind = "color"
          /\ cursor' = [cursor EXCEPT ![focus] = @ + 4 - it.sub]
          /\ modal' = Opens(it, 4)
    /\ UNCHANGED <<drv, screen, focus, zone, cfg, baseline, quit, edits>>

\* live preview, the first stop of the footer, is Session's
FooterRevert ==
    /\ Idle /\ focus = Footer /\ cursor[Footer] = 1
    /\ cfg' = baseline /\ edits' = (IF baseline = Defaults(drv) THEN 0 ELSE edits)
    /\ UNCHANGED <<drv, ui, baseline, modal, quit>>

SaveKey ==
    /\ Idle
    /\ baseline' \in {cfg, baseline}
    /\ UNCHANGED <<drv, ui, cfg, modal, quit, edits>>

-----------------------------------------------------------------------------
(* Keys, in a dialog.                                                           *)

Open(kinds) == ~quit /\ modal # <<>> /\ modal.kind \in kinds
Menus == {"remap", "effect", "confirm"}

\* a menu is left with one of its choices; its cursor stays inside the loop
Chosen == 0..(modal.n - 1)

\* escape, any key to a message, a key that cannot be bound
Dismiss ==
    /\ Open(Menus \cup {"message", "capture", "hex"})
    /\ modal' = <<>>
    /\ UNCHANGED <<drv, ui, cfg, baseline, quit, edits>>

EffectPick == /\ Open({"effect"}) /\ (\E sel \in Chosen : Commit(Written(modal.it, sel))) /\ modal' = <<>>
              /\ UNCHANGED <<drv, ui, baseline, quit>>
RemapPick ==
    /\ Open({"remap"})
    /\ \E sel \in Chosen :
         IF sel = 1 THEN modal' = [modal EXCEPT !.kind = "capture"] /\ UNCHANGED <<cfg, edits>>
         ELSE Commit([cfg EXCEPT ![<<"button", modal.it.set[2]>>] = sel]) /\ modal' = <<>>
    /\ UNCHANGED <<drv, ui, baseline, quit>>
KeyCaptured == /\ Open({"capture"}) /\ Commit([cfg EXCEPT ![<<"button", modal.it.set[2]>>] = 40]) /\ modal' = <<>>
               /\ UNCHANGED <<drv, ui, baseline, quit>>
\* three digits stand for six, each twice
tui_parse_hex_color(buf) ==
    [i \in 1..3 |-> IF Len(buf) = 3 THEN 17 * buf[i] ELSE 16 * buf[2 * i - 1] + buf[2 * i]]

\* the prompt, up to ENTER
HexTyped == /\ Open({"hex"})
            /\ \E buf \in Hexes : Commit(IF Len(buf) \in {3, 6} THEN Written(modal.it, tui_parse_hex_color(buf)) ELSE cfg)
            /\ modal' = <<>>
            /\ UNCHANGED <<drv, ui, baseline, quit>>

\* save and quit, quit without saving, or stay
tui_modal_confirm_quit ==
    /\ Open({"confirm"})
    /\ modal' = <<>>
    /\ \/ \E ok \in BOOLEAN : baseline' = (IF ok THEN cfg ELSE baseline) /\ quit' = ok /\ UNCHANGED cfg
       \/ cfg' = baseline /\ quit' = TRUE /\ UNCHANGED baseline
       \/ UNCHANGED <<cfg, baseline, quit>>
    /\ UNCHANGED <<drv, ui, edits>>

-----------------------------------------------------------------------------
\* focus_first(): the first pane that offers anything
Init ==
    /\ drv \in Driver
    /\ screen = "main" /\ cursor = [p \in 1..8 |-> 0] /\ zone = 1
    /\ cfg = Defaults(drv) /\ baseline = cfg
    /\ focus = Min({p \in 1..Footer : tui_pane_slot_count(p) > 0})
    /\ modal = <<>> /\ quit = FALSE /\ edits = 0

FrameKey == \/ EscKey \/ QuitKey \/ focus_step \/ CursorKey \/ AdjustKey \/ EnterKey \/ HexKey
            \/ FooterRevert \/ SaveKey
DialogKey == Dismiss \/ EffectPick \/ RemapPick \/ KeyCaptured \/ HexTyped \/ tui_modal_confirm_quit
Next == FrameKey \/ DialogKey

Spec == Init /\ [][Next]_vars

-----------------------------------------------------------------------------
(* Properties. *)

\* The focus rests on a pane that is shown and offers something, also after a
\* screen was left for another, which puts it on the first pane whatever that
\* holds (focus_step, focus_first, alloy_ui_goto_screen).
FocusSelectable == tui_pane_slot_count(focus) > 0

\* The settings the lit control is about, the others of its group included.
About(it) ==
    CASE it.do = "create" -> {<<"count", 0>>} \cup ({"dpi"} \X (1..5))
      [] it.do \in {"add", "del"} -> {<<"groups", 0>>} \cup ({"keys", "mode"} \X (1..MaxGroups))
      [] it.do = "remap" -> {<<"button", it.set[2]>>}
      [] it.do = "level" -> {it.set, <<"active", 0>>}
      [] OTHER -> IF it.set[1] \in ZoneSetting /\ "global" \in drv.caps THEN ZoneSetting \X (1..drv.zones)
                  ELSE {it.set}

\* Whatever keys were pressed and lists grew or shrank under the cursor, an edit
\* changes what the lit control is about, and nothing that is greyed; all else is
\* REVERT (focused_item against draw_pane, the dialogs).
LitOnly == [][cfg' = cfg \/ cfg' = baseline \/
    /\ focus # Footer /\ ~Lit(focus).off
    /\ {k \in DOMAIN cfg : cfg'[k] # cfg[k]} \subseteq About(Lit(focus))]_vars

\* The panes tile the terminal without a gap or an overlap; and where there are
\* lines enough, every control one can move to is drawn (tui_layout, draw_pane).
Apart(a, b) == a.x + a.w <= b.x \/ b.x + b.w <= a.x \/ a.y + a.h <= b.y \/ b.y + b.h <= a.y
Tiles(r, t) ==
    /\ \A i \in DOMAIN r : r[i].w > 0 /\ r[i].h > 0 /\ r[i].x + r[i].w <= t[1] /\ r[i].y + r[i].h <= MainLines(t)
    /\ \A i, j \in DOMAIN r : i # j => Apart(r[i], r[j])
    /\ MapThenSumSet(LAMBDA i : r[i].w * r[i].h, DOMAIN r) = t[1] * MainLines(t)
AllTiled == \A d \in Driver, s \in Screens, t \in Terminal : Tiles(Layout[d, s, t], t)
ShownInFull == Idle =>
    /\ AllTiled
    /\ \A t \in {t \in Terminal : t[2] >= EnoughLines} : \A i \in Shown(Panes) :
         tui_pane_slots(tui_pane_items(Panes[i])) \subseteq draw_pane(i, t)
=============================================================================
