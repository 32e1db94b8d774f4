-------------------------------- MODULE MCMenu --------------------------------
(* Bounded instances of Menu. *)
EXTENDS Menu

Ctrl(name, type, lo, hi) == [name |-> name, type |-> type, lo |-> lo, hi |-> hi]
Mouse == [kind |-> "mouse", wireless |-> FALSE, zones |-> 2, fx |-> 2, ctrls |-> <<<<>>, <<>>>>,
          hues |-> {1}, caps |-> {"color", "brightness"}, rates |-> 2, buttons |-> 1,
          limit |-> 5, levels |-> 1, lo |-> 200, hi |-> 8500, grid |-> 100, groups |-> 1, pairs |-> 2]

\* the Rival 3 Gen 2 with two of its zones and a button; the Aerox 3 Wireless less its lighting,
\* and over Bluetooth, without buttons and polling rates; a Rival 3, one effect for all
\* zones, with two zones and a button; the Apex 100; the ALU87A with three of its effects
\* and one snap group short of the limit
MCDriver == {
    Mouse,
    [Mouse EXCEPT !.wireless = TRUE, !.zones = 0, !.fx = 0, !.caps = {}, !.buttons = 8],
    [Mouse EXCEPT !.wireless = TRUE, !.zones = 0, !.fx = 0, !.caps = {}, !.buttons = 0, !.rates = 0],
    [Mouse EXCEPT !.caps = {"color", "global"}],
    [Mouse EXCEPT !.kind = "keyboard", !.zones = 1, !.buttons = 0, !.limit = 0, !.levels = 0, !.hues = {},
                  !.caps = {"brightness", "global"},
                  !.ctrls = LET s == <<Ctrl("speed", "slider", 1, 10)>> IN <<s, s>>],
    [Mouse EXCEPT !.kind = "keyboard", !.zones = 1, !.buttons = 0, !.limit = 0, !.levels = 0, !.hues = {2},
                  !.fx = 3, !.groups = 9, !.caps = @ \cup {"global", "snap", "profile"},
                  !.ctrls = LET s == Ctrl("speed", "slider", 1, 5)
                                m == Ctrl("multi", "toggle", 0, 0)
                                d == Ctrl("dir", "choice", 0, 4)
                            IN <<<<>>, <<s, m, d>>, <<m>>>>]}

MCPalette == {<<0, 0, 0>>}
MCHexes == {<<1, 2>>, <<1, 2, 3>>, <<1, 1, 2, 2, 3, 3>>}
MCTerminal == {<<100, 28>>, <<101, 31>>, <<173, 46>>}
=============================================================================
