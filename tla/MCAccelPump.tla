----------------------------- MODULE MCAccelPump -----------------------------
EXTENDS AccelPump

\* a slow, a diagonal and a fast move, a click, a move with a click in it
MCReports == {
    <<Ev("X", 1), Syn>>,
    <<Ev("X", -3), Ev("Y", 2), Syn>>,
    <<Ev("X", 30), Ev("Y", -4), Syn>>,
    <<Ev("BTN", 1), Syn>>,
    <<Ev("Y", -1), Ev("WHEEL", 1), Ev("X", -1), Syn>> }

Setting(a, d, s) == [accel |-> a, decel |-> d, snap |-> s]

\* neutral, each knob, both, all
MCSettings == {Setting(0, 0, 0), Setting(40, 0, 0), Setting(0, 90, 0),
               Setting(100, 100, 0), Setting(30, 70, 15), Setting(0, 0, 45)}
==============================================================================
