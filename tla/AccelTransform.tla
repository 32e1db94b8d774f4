--------------------------- MODULE AccelTransform ---------------------------
(***************************************************************************)
(* The pure pointer-transform arithmetic of drivers/lib/accel_transform.c: *)
(* angle snapping, the speed-dependent fixed-point gain and the carry of   *)
(* the sub-count remainder.  Integers are unbounded here: the code widens  *)
(* every product to 64 bits, and the gain and the remainder fit 32         *)
(* (GainRange and AxisStep in AccelPumpProofs).                            *)
(***************************************************************************)
EXTENDS Integers

FP == 65536           \* ALLOY_ACCEL_FP, one count
GAIN_MIN == FP \div 4
GAIN_MAX == FP * 4
SREF2 == 400          \* ALLOY_ACCEL_SREF2

\* tan(deg) * FP
TAN_FP == <<
    1144, 2289, 3435, 4583, 5734, 6888, 8047, 9210, 10380,
    11556, 12739, 13930, 15130, 16340, 17560, 18792, 20036, 21294, 22566,
    23853, 25157, 26478, 27818, 29179, 30560, 31964, 33392, 34846, 36327,
    37837, 39378, 40951, 42560, 44205, 45889, 47615, 49385, 51202, 53070,
    54991, 56970, 59009, 61113, 63287, 65536 >>

\* struct alloy_accel_params and struct alloy_accel_state
Params == [accel : 0..100, decel : 0..100, snap : 0..45]
Fraction == {r \in Int : -FP < r /\ r < FP}
Carry == [x : Fraction, y : Fraction]
NoCarry == [x |-> 0, y |-> 0]

Clamp(v, lo, hi) == IF v < lo THEN lo ELSE IF v > hi THEN hi ELSE v
Abs(v) == IF v < 0 THEN -v ELSE v
\* C's division, which truncates toward zero
Quot(a, b) == IF a < 0 THEN -((-a) \div b) ELSE a \div b

\* alloy_accel_from_config(): the stored values are an int8 and two uint8
FromConfig(acceleration, deceleration, angle_snapping) ==
    [accel |-> Clamp(acceleration, 0, 100),
     decel |-> Clamp(deceleration, 0, 100),
     snap  |-> Clamp(angle_snapping, 0, 45)]

-----------------------------------------------------------------------------
(* alloy_accel_gain_fp                                                     *)

\* 0..FP, saturating at the reference speed
Ramp(s2) == Clamp((s2 * FP) \div SREF2, 0, FP)

\* a knob's share of the gain: up to 0.75
Share(knob, ramp) == (((knob * ramp) \div 100) * 3) \div 4

Gain(p, s2) ==
    Clamp(FP + Share(p.accel, Ramp(s2)) - Share(p.decel, FP - Ramp(s2)),
          GAIN_MIN, GAIN_MAX)

-----------------------------------------------------------------------------
(* alloy_accel_transform: a step is [rem, ox, oy].                         *)

\* (dx, dy) within the cone around the axis of dx
InCone(p, along, across) ==
    p.snap > 0 /\ Abs(across) * FP < Abs(along) * TAN_FP[p.snap]

\* the axis that is zeroed, its remainder with it
SnapsX(p, dx, dy) == InCone(p, dx, dy)
SnapsY(p, dx, dy) == ~SnapsX(p, dx, dy) /\ InCone(p, dy, dx)

\* one axis: whole counts out of what is carried and what is new
Whole(carried, d, g) == Quot(carried + d * g, FP)

\* mutant: the remainder of the last report is overwritten, not carried on
Rest_Dropped(carried, d, g) == d * g - Quot(d * g, FP) * FP

\* mutant: the whole counts are emitted and kept as well
Rest_Kept(carried, d, g) == carried + d * g

Rest(carried, d, g) == (carried + d * g) - Whole(carried, d, g) * FP

Transform(p, rem, dx, dy) ==
    LET sx == IF SnapsY(p, dx, dy) THEN 0 ELSE dx
        sy == IF SnapsX(p, dx, dy) THEN 0 ELSE dy
        rx == IF SnapsY(p, dx, dy) THEN 0 ELSE rem.x
        ry == IF SnapsX(p, dx, dy) THEN 0 ELSE rem.y
        g  == Gain(p, sx * sx + sy * sy)
    IN  [rem |-> [x |-> Rest(rx, sx, g), y |-> Rest(ry, sy, g)],
         ox  |-> Whole(rx, sx, g),
         oy  |-> Whole(ry, sy, g)]
=============================================================================
