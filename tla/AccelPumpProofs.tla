--------------------------- MODULE AccelPumpProofs ---------------------------
(***************************************************************************)
(* What the pointer transform guarantees for every motion and every        *)
(* setting, and, from it, that the pump keeps its books for every sequence *)
(* of reports, every setting and every buffer size: it loses no motion as  *)
(* long as no report is split between two reads (cuts = 0), and never a    *)
(* button or a boundary.                                                   *)
(***************************************************************************)
EXTENDS AccelPump, TLAPS

-----------------------------------------------------------------------------
(* The transform. Integer division and products are kept behind the first    *)
(* four lemmas, and FP behind FPNat: the solvers need neither its value nor  *)
(* nonlinear arithmetic after that.                                          *)

\* FP and the reference speed are positive; their values do not matter below.
LEMMA FPNat == FP \in Nat \ {0} /\ SREF2 \in Nat \ {0}
BY DEF FP, SREF2

\* Division by a positive number, C's and TLA+'s alike on naturals.
LEMMA DivBounds ==
    ASSUME NEW a \in Nat, NEW b \in Nat \ {0}
    PROVE  a \div b \in Nat /\ (a \div b) * b <= a /\ a < (a \div b) * b + b
OBVIOUS

\* Division is monotone.
LEMMA DivGrows ==
    ASSUME NEW a \in Nat, NEW c \in Nat, NEW b \in Nat \ {0}, a <= c
    PROVE  a \div b <= c \div b
OBVIOUS

\* A product of naturals is monotone.
LEMMA ProductGrows ==
    ASSUME NEW a \in Nat, NEW b \in Nat, NEW c \in Nat, a <= b
    PROVE  c * a <= c * b /\ c * a \in Nat /\ c * b \in Nat /\ a * c <= b * c
OBVIOUS

\* A clamped value lies in its range.
LEMMA ClampRange ==
    ASSUME NEW v \in Int, NEW hi \in Nat
    PROVE  Clamp(v, 0, hi) \in 0..hi
BY DEF Clamp

\* Clamping is monotone.
LEMMA ClampGrows ==
    ASSUME NEW v \in Int, NEW w \in Int, NEW hi \in Nat, v <= w
    PROVE  Clamp(v, 0, hi) <= Clamp(w, 0, hi)
BY DEF Clamp

\* C's division by FP leaves less than one count and keeps the sign, the fact
\* the carry of alloy_accel_transform rests on.
LEMMA QuotFP ==
    ASSUME NEW a \in Int
    PROVE  /\ Quot(a, FP) \in Int
           /\ a - Quot(a, FP) * FP \in Fraction
           /\ a >= 0 => Quot(a, FP) >= 0 /\ a - Quot(a, FP) * FP >= 0
           /\ a <= 0 => Quot(a, FP) <= 0 /\ a - Quot(a, FP) * FP <= 0
<1>1. FP \in Nat \ {0}
  BY FPNat
<1>2. CASE a >= 0
  <2>1. Quot(a, FP) = a \div FP
    BY <1>2 DEF Quot
  <2>2. a \div FP \in Nat /\ (a \div FP) * FP <= a /\ a < (a \div FP) * FP + FP
    BY <1>1, <1>2, DivBounds
  <2>3. a = 0 => a \div FP = 0
    BY <1>1
  <2> DEFINE q == a \div FP
             m == q * FP
  <2>4. m \in Int /\ m <= a /\ a < m + FP
    BY <2>2, <1>1
  <2>5. q \in Nat /\ Quot(a, FP) = q /\ (a = 0 => q = 0)
    BY <2>1, <2>2, <2>3
  <2>6. a - Quot(a, FP) * FP = a - m
    BY <2>1
  <2>7. a = 0 => m = 0
    BY <2>3, <1>1
  <2> HIDE DEF m, q
  <2>8. a - m \in Fraction /\ a - m >= 0 /\ (a = 0 => a - m = 0)
    BY <2>4, <2>7, <1>1, <1>2, <2>5 DEF Fraction
  <2> QED
    BY <2>5, <2>6, <2>8, <1>2
<1>3. CASE a < 0
  <2>1. Quot(a, FP) = -((-a) \div FP)
    BY <1>3 DEF Quot
  <2>2. (-a) \div FP \in Nat /\ ((-a) \div FP) * FP <= -a /\ -a < ((-a) \div FP) * FP + FP
    BY <1>1, <1>3, DivBounds
  <2> DEFINE q == (-a) \div FP
             m == q * FP
  <2>3. m \in Int /\ m <= -a /\ -a < m + FP /\ (-q) * FP = -m
    BY <2>2, <1>1
  <2>4. q \in Nat
    BY <2>2
  <2>5. Quot(a, FP) = -q
    BY <2>1
  <2> HIDE DEF m, q
  <2>6. a - Quot(a, FP) * FP = a + m
    BY <2>3, <2>5
  <2>7. a + m \in Fraction /\ a + m <= 0
    BY <2>3, <1>1, <1>3 DEF Fraction
  <2> QED
    BY <2>4, <2>5, <2>6, <2>7, <1>3
<1> QED
  BY <1>2, <1>3

\* The ramp stays between 0 and one count.
LEMMA RampRange ==
    ASSUME NEW s2 \in Nat
    PROVE  Ramp(s2) \in 0..FP /\ FP - Ramp(s2) \in 0..FP
<1>1. s2 * FP \in Nat /\ FP \in Nat /\ (s2 * FP) \div SREF2 \in Int
  BY FPNat, DivBounds
<1>2. Ramp(s2) \in 0..FP
  BY <1>1, ClampRange DEF Ramp
<1> QED
  BY <1>1, <1>2

\* A faster hand is further up the ramp.
LEMMA RampGrows ==
    ASSUME NEW s \in Nat, NEW t \in Nat, s <= t
    PROVE  Ramp(s) <= Ramp(t)
<1>1. s * FP \in Nat /\ t * FP \in Nat /\ s * FP <= t * FP
  BY FPNat, ProductGrows
<1>2. /\ (s * FP) \div SREF2 \in Int /\ (t * FP) \div SREF2 \in Int
      /\ (s * FP) \div SREF2 <= (t * FP) \div SREF2
  BY <1>1, FPNat, DivBounds, DivGrows
<1> QED
  BY <1>2, FPNat, ClampGrows DEF Ramp

\* The largest share of the gain a knob can have, 3/4.
Third == (FP * 3) \div 4

\* A knob moves the gain by at most 3/4 of a count.
LEMMA ShareRange ==
    ASSUME NEW k \in 0..100, NEW r \in 0..FP
    PROVE  Share(k, r) \in 0..Third
<1>1. k * r \in Nat /\ k * r <= 100 * FP
  <2>1. k * r \in Nat /\ k * r <= k * FP
    BY FPNat, ProductGrows
  <2>2. k * FP \in Nat /\ k * FP <= 100 * FP
    BY FPNat, ProductGrows
  <2> QED
    BY <2>1, <2>2, FPNat
<1> DEFINE m == k * r
<1> HIDE DEF m
<1>2. m \in Nat /\ m <= 100 * FP
  BY <1>1 DEF m
<1>3. m \div 100 \in Nat /\ m \div 100 <= FP
  BY <1>2, FPNat
<1>4. ((m \div 100) * 3) \div 4 \in Nat /\ ((m \div 100) * 3) \div 4 <= Third
  BY <1>3, FPNat, DivBounds, DivGrows DEF Third
<1>5. Third \in Nat
  BY FPNat DEF Third
<1> QED
  BY <1>4, <1>5 DEF Share, m

\* A knob's share grows with the ramp.
LEMMA ShareGrows ==
    ASSUME NEW k \in 0..100, NEW q \in 0..FP, NEW r \in 0..FP, q <= r
    PROVE  Share(k, q) <= Share(k, r)
<1>1. k * q \in Nat /\ k * r \in Nat /\ k * q <= k * r
  BY FPNat, ProductGrows
<1> DEFINE m == k * q
           n == k * r
<1> HIDE DEF m, n
<1>2. m \in Nat /\ n \in Nat /\ m <= n
  BY <1>1 DEF m, n
<1>3. ((m \div 100) * 3) \div 4 <= ((n \div 100) * 3) \div 4
  BY <1>2, DivBounds, DivGrows
<1> QED
  BY <1>3 DEF Share, m, n

\* The gain lies between 1/4 and 7/4 of a count whatever the settings and the
\* speed: alloy_accel_gain_fp's clamp to at most 4 never acts, and the lower
\* one never either.
THEOREM GainRange ==
    ASSUME NEW p \in Params, NEW s2 \in Nat
    PROVE  /\ Gain(p, s2) \in GAIN_MIN..(FP + Third)
           /\ Gain(p, s2) = FP + Share(p.accel, Ramp(s2)) - Share(p.decel, FP - Ramp(s2))
<1>1. Ramp(s2) \in 0..FP /\ FP - Ramp(s2) \in 0..FP
  BY RampRange
<1>2. p.accel \in 0..100 /\ p.decel \in 0..100
  BY DEF Params
<1> DEFINE up == Share(p.accel, Ramp(s2))
           down == Share(p.decel, FP - Ramp(s2))
<1>3. up \in 0..Third /\ down \in 0..Third
  BY <1>1, <1>2, ShareRange
<1>4. Gain(p, s2) = Clamp(FP + up - down, GAIN_MIN, GAIN_MAX)
  BY DEF Gain
<1> HIDE DEF up, down
<1>5. /\ Third \in Nat /\ GAIN_MIN \in Nat /\ GAIN_MAX \in Nat
      /\ FP - Third = GAIN_MIN /\ FP + Third <= GAIN_MAX
  BY DEF Third, GAIN_MIN, GAIN_MAX, FP
<1>6. FP + up - down \in Int /\ GAIN_MIN <= FP + up - down /\ FP + up - down <= FP + Third
  BY <1>3, <1>5, FPNat
<1>7. Clamp(FP + up - down, GAIN_MIN, GAIN_MAX) = FP + up - down
  BY <1>5, <1>6, FPNat DEF Clamp
<1> QED
  BY <1>4, <1>5, <1>6, <1>7, FPNat DEF up, down

\* A faster hand never gets a smaller gain, whatever the mix of the two knobs:
\* alloy_accel_gain_fp fades the deceleration out as the acceleration comes in.
THEOREM GainGrows ==
    ASSUME NEW p \in Params, NEW s \in Nat, NEW t \in Nat, s <= t
    PROVE  Gain(p, s) <= Gain(p, t)
<1>1. /\ Ramp(s) \in 0..FP /\ Ramp(t) \in 0..FP /\ Ramp(s) <= Ramp(t)
      /\ FP - Ramp(s) \in 0..FP /\ FP - Ramp(t) \in 0..FP
      /\ FP - Ramp(t) <= FP - Ramp(s)
  BY RampRange, RampGrows, FPNat
<1>2. p.accel \in 0..100 /\ p.decel \in 0..100
  BY DEF Params
<1>3. Share(p.accel, Ramp(s)) <= Share(p.accel, Ramp(t))
  BY <1>1, <1>2, ShareGrows
<1>4. Share(p.decel, FP - Ramp(t)) <= Share(p.decel, FP - Ramp(s))
  BY <1>1, <1>2, ShareGrows
<1>5. /\ Share(p.accel, Ramp(s)) \in 0..Third /\ Share(p.accel, Ramp(t)) \in 0..Third
      /\ Share(p.decel, FP - Ramp(s)) \in 0..Third
      /\ Share(p.decel, FP - Ramp(t)) \in 0..Third
  BY <1>1, <1>2, ShareRange
<1>6. /\ Gain(p, s) = FP + Share(p.accel, Ramp(s)) - Share(p.decel, FP - Ramp(s))
      /\ Gain(p, t) = FP + Share(p.accel, Ramp(t)) - Share(p.decel, FP - Ramp(t))
  BY GainRange
<1> QED
  BY <1>3, <1>4, <1>5, <1>6, FPNat

\* One axis of a report: what is emitted and what is carried on add up to what
\* was carried and what the report is due, less than a count is carried, and
\* nothing is emitted against the motion.
THEOREM AxisStep ==
    ASSUME NEW r \in Fraction, NEW d \in Int, NEW g \in Nat
    PROVE  /\ Whole(r, d, g) \in Int /\ Rest(r, d, g) \in Fraction
           /\ Whole(r, d, g) * FP + Rest(r, d, g) = r + d * g
           /\ d >= 0 => Whole(r, d, g) >= 0
           /\ d <= 0 => Whole(r, d, g) <= 0
<1> DEFINE a == r + d * g
           w == Quot(a, FP)
<1>1. d * g \in Int /\ (d >= 0 => d * g >= 0) /\ (d <= 0 => d * g <= 0)
  OBVIOUS
<1>2. r \in Int /\ -FP < r /\ r < FP /\ FP \in Nat \ {0}
  BY FPNat DEF Fraction
<1>3. a \in Int /\ (d >= 0 => -FP < a) /\ (d <= 0 => a < FP)
  BY <1>1, <1>2
<1>4. Whole(r, d, g) = w
  BY DEF Whole
<1> HIDE DEF w, a
<1>5. Rest(r, d, g) = a - w * FP
  BY <1>4 DEF Rest, a
<1>6. /\ w \in Int /\ a - w * FP \in Fraction
      /\ a >= 0 => w >= 0 /\ a - w * FP >= 0
      /\ a <= 0 => w <= 0 /\ a - w * FP <= 0
  BY <1>3, QuotFP DEF w
<1> DEFINE m == w * FP
<1>7. m \in Int /\ (w >= 1 => m >= FP) /\ (w <= -1 => m <= -FP)
  BY <1>2, <1>6
<1>8. /\ a >= 0 => w >= 0 /\ a - m >= 0
      /\ a <= 0 => w <= 0 /\ a - m <= 0
  BY <1>6 DEF m
<1> HIDE DEF m
<1>9. (d >= 0 => w >= 0) /\ (d <= 0 => w <= 0)
  BY <1>2, <1>3, <1>6, <1>7, <1>8
<1>10. m + (a - m) = a
  BY <1>3, <1>7
<1>11. Whole(r, d, g) * FP = m
  BY <1>4 DEF m
<1>12. Rest(r, d, g) = a - m /\ a - m \in Fraction
  BY <1>5, <1>6 DEF m
<1>13. Whole(r, d, g) * FP + Rest(r, d, g) = r + d * g
  BY <1>10, <1>11, <1>12 DEF a
<1> QED
  BY <1>4, <1>6, <1>9, <1>12, <1>13

-----------------------------------------------------------------------------
(* The pump. *)

\* What alloy_accel_transform does to a report: less than one count is carried,
\* no axis moves against the hand, and without snapping nothing is lost.
LEMMA TransformStep ==
    ASSUME NEW p \in Params, NEW c \in Carry, NEW x \in Int, NEW y \in Int,
           NEW t, t = Transform(p, c, x, y)
    PROVE  /\ t.rem \in Carry /\ t.ox \in Int /\ t.oy \in Int
           /\ (x >= 0 => t.ox >= 0) /\ (x <= 0 => t.ox <= 0)
           /\ (y >= 0 => t.oy >= 0) /\ (y <= 0 => t.oy <= 0)
           /\ p.snap = 0 =>
                 LET g == Gain(p, x * x + y * y)
                 IN  /\ t.ox * FP + t.rem.x = c.x + x * g
                     /\ t.oy * FP + t.rem.y = c.y + y * g
<1> DEFINE sx == IF SnapsY(p, x, y) THEN 0 ELSE x
           sy == IF SnapsX(p, x, y) THEN 0 ELSE y
           rx == IF SnapsY(p, x, y) THEN 0 ELSE c.x
           ry == IF SnapsX(p, x, y) THEN 0 ELSE c.y
           g  == Gain(p, sx * sx + sy * sy)
<1>1. /\ t.rem = [x |-> Rest(rx, sx, g), y |-> Rest(ry, sy, g)]
      /\ t.ox = Whole(rx, sx, g) /\ t.oy = Whole(ry, sy, g)
  BY DEF Transform
<1>2. /\ sx \in Int /\ sy \in Int
      /\ (x >= 0 => sx >= 0) /\ (x <= 0 => sx <= 0)
      /\ (y >= 0 => sy >= 0) /\ (y <= 0 => sy <= 0)
  OBVIOUS
<1>3. rx \in Fraction /\ ry \in Fraction
  <2>1. 0 \in Fraction /\ c.x \in Fraction /\ c.y \in Fraction
    BY FPNat DEF Fraction, Carry
  <2> QED
    BY <2>1
<1>4. p.snap = 0 => sx = x /\ sy = y /\ rx = c.x /\ ry = c.y
  BY DEF SnapsX, SnapsY, InCone
<1> HIDE DEF sx, sy, rx, ry
<1>5. g \in Nat
  <2>1. sx * sx + sy * sy \in Nat
    BY <1>2
  <2>2. GAIN_MIN \in Nat /\ FP + Third \in Nat
    BY FPNat DEF GAIN_MIN, FP, Third
  <2> QED
    BY <2>1, <2>2, GainRange
<1>6. p.snap = 0 => g = Gain(p, x * x + y * y)
  BY <1>4
<1> HIDE DEF g
<1>7. /\ Whole(rx, sx, g) \in Int /\ Rest(rx, sx, g) \in Fraction
      /\ Whole(rx, sx, g) * FP + Rest(rx, sx, g) = rx + sx * g
      /\ (sx >= 0 => Whole(rx, sx, g) >= 0) /\ (sx <= 0 => Whole(rx, sx, g) <= 0)
  BY <1>2, <1>3, <1>5, AxisStep
<1>8. /\ Whole(ry, sy, g) \in Int /\ Rest(ry, sy, g) \in Fraction
      /\ Whole(ry, sy, g) * FP + Rest(ry, sy, g) = ry + sy * g
      /\ (sy >= 0 => Whole(ry, sy, g) >= 0) /\ (sy <= 0 => Whole(ry, sy, g) <= 0)
  BY <1>2, <1>3, <1>5, AxisStep
<1>9. t.rem \in Carry /\ t.ox \in Int /\ t.oy \in Int
  BY <1>1, <1>7, <1>8 DEF Carry
<1>10. /\ (x >= 0 => t.ox >= 0) /\ (x <= 0 => t.ox <= 0)
       /\ (y >= 0 => t.oy >= 0) /\ (y <= 0 => t.oy <= 0)
  BY <1>1, <1>2, <1>7, <1>8
<1>11. ASSUME p.snap = 0
       PROVE  /\ t.ox * FP + t.rem.x = c.x + x * Gain(p, x * x + y * y)
              /\ t.oy * FP + t.rem.y = c.y + y * Gain(p, x * x + y * y)
  BY <1>11, <1>1, <1>4, <1>6, <1>7, <1>8
<1> QED
  BY <1>9, <1>10, <1>11

\* What is left of the buffer after one event is handled.
LEMMA TailLength ==
    ASSUME NEW S, NEW s \in Seq(S), s # <<>>
    PROVE  Len(s) \in Nat /\ Len(Tail(s)) = Len(s) - 1
OBVIOUS

-----------------------------------------------------------------------------
(* Typing                                                                  *)

\* A SYN_REPORT is an event, and events carry integers.
LEMMA EventFacts ==
    /\ Syn \in Event /\ Syn.kind = "SYN"
    /\ \A e \in Event : e.v \in Int
BY DEF Syn, Ev, Event

\* The pump never carries a whole count and never overruns its buffer, for
\* every chunk size, every set of reports and every setting.
THEOREM PumpTyping == PumpSpec => []PumpTypeOK
<1>1. PumpInit => PumpTypeOK
  <2> SUFFICES ASSUME PumpInit PROVE PumpTypeOK
    OBVIOUS
  <2>1. NoCarry \in Carry
    BY FPNat DEF NoCarry, Carry, Fraction
  <2> QED
    BY <2>1, PumpAssumption DEF PumpInit, PumpTypeOK, Still, Moves
<1>2. PumpTypeOK /\ [PumpNext]_pumpVars => PumpTypeOK'
  <2> SUFFICES ASSUME PumpTypeOK, [PumpNext]_pumpVars PROVE PumpTypeOK'
    OBVIOUS
  <2>1. ASSUME NEW r \in Reports, Report(r) PROVE PumpTypeOK'
    <3>1. r \in Seq(Event)
      BY PumpAssumption
    <3>2. queue' \in Seq(Event) /\ Len(queue') <= MaxQueue
      BY <2>1, <3>1 DEF PumpTypeOK, Report
    <3>3. sent' \in 0..MaxReports
      BY <2>1, PumpAssumption DEF PumpTypeOK, Report
    <3> QED
      BY <2>1, <3>2, <3>3 DEF PumpTypeOK, Report
  <2>2. CASE Read
    <3> DEFINE n == IF Len(queue) < Chunk THEN Len(queue) ELSE Chunk
    <3>1. n \in 0..Len(queue) /\ n <= Chunk
      BY PumpAssumption DEF PumpTypeOK
    <3>2. evs' = SubSeq(queue, 1, n) /\ queue' = SubSeq(queue, n + 1, Len(queue))
      BY <2>2 DEF Read
    <3> HIDE DEF n
    <3>3. evs' \in Seq(Event) /\ Len(evs') <= Chunk
      BY <3>1, <3>2 DEF PumpTypeOK
    <3>4. queue' \in Seq(Event) /\ Len(queue') <= MaxQueue
      BY <3>1, <3>2, PumpAssumption DEF PumpTypeOK
    <3> QED
      BY <2>2, <3>3, <3>4 DEF PumpTypeOK, Read
  <2>3. CASE Handle
    <3> DEFINE e == Head(evs)
    <3>1. e \in Event /\ e.v \in Int
      BY <2>3, EventFacts DEF PumpTypeOK, Handle
    <3>2. evs' \in Seq(Event) /\ Len(evs') <= Chunk
      BY <2>3, PumpAssumption DEF PumpTypeOK, Handle
    <3>3. Witness(e) /\ (OnX(e) \/ OnY(e) \/ OnSyn(e) \/ PassOn(e))
      BY <2>3 DEF Handle
    <3>4. UNCHANGED <<params, queue, sent, cuts>>
      BY <2>3 DEF Handle
    <3> HIDE DEF e
    <3>5. hand' \in Moves
      <4>1. Still \in Moves
        BY DEF Still, Moves
      <4>2. [hand EXCEPT !.x = @ + e.v] \in Moves /\ [hand EXCEPT !.y = @ + e.v] \in Moves
        <5>1. hand \in [x : Int, y : Int] /\ hand.x + e.v \in Int /\ hand.y + e.v \in Int
          BY <3>1 DEF PumpTypeOK, Moves
        <5> QED
          BY <5>1 DEF Moves
      <4>3. \/ hand' = Still \/ hand' = hand
            \/ hand' = [hand EXCEPT !.x = @ + e.v] \/ hand' = [hand EXCEPT !.y = @ + e.v]
        BY <3>3, Zenon DEF Witness
      <4> QED
        BY <4>1, <4>2, <4>3 DEF PumpTypeOK
    <3>6. due' \in Moves
      <4> DEFINE g == Gain(params, hand.x * hand.x + hand.y * hand.y)
      <4>1. hand.x \in Int /\ hand.y \in Int /\ due.x \in Int /\ due.y \in Int
        BY DEF PumpTypeOK, Moves
      <4>2. hand.x * hand.x + hand.y * hand.y \in Nat
        BY <4>1
      <4>3. params \in Params
        BY PumpAssumption DEF PumpTypeOK
      <4>4. g \in Int
        BY <4>2, <4>3, GainRange
      <4> HIDE DEF g
      <4>5. due.x + hand.x * g \in Int /\ due.y + hand.y * g \in Int
        BY <4>1, <4>4
      <4>6. [x |-> due.x + hand.x * g, y |-> due.y + hand.y * g] \in Moves
        BY <4>5 DEF Moves
      <4>7. due' = due \/ due' = [x |-> due.x + hand.x * g, y |-> due.y + hand.y * g]
        BY <3>3 DEF Witness, g
      <4> QED
        BY <4>6, <4>7 DEF PumpTypeOK
    <3>7. taken' \in Seq(Event)
      BY <3>1, <3>3 DEF PumpTypeOK, Witness
    <3>8. dx' \in Int /\ dy' \in Int
      BY <3>1, <3>3 DEF PumpTypeOK, OnX, OnY, OnSyn, PassOn
    <3>9. passed' \in Seq(Event)
      <4>1. passed' = passed \/ passed' = Append(passed, Syn) \/ passed' = Append(passed, e)
        BY <3>3, Zenon DEF OnX, OnY, OnSyn, PassOn
      <4>2. passed \in Seq(Event) /\ Syn \in Event /\ e \in Event
        BY <3>1, EventFacts DEF PumpTypeOK
      <4>3. Append(passed, Syn) \in Seq(Event) /\ Append(passed, e) \in Seq(Event)
        BY <4>2
      <4> QED
        BY <4>1, <4>2, <4>3
    <3>10. rem' \in Carry /\ moved' \in Moves
      <4>1. CASE OnSyn(e)
        <5> DEFINE t == Transform(params, rem, dx, dy)
        <5>1. params \in Params /\ rem \in Carry /\ dx \in Int /\ dy \in Int
          BY PumpAssumption DEF PumpTypeOK
        <5>2. t.rem \in Carry /\ t.ox \in Int /\ t.oy \in Int
          BY <5>1, TransformStep
        <5>3. rem' = t.rem /\ moved' = [x |-> moved.x + t.ox, y |-> moved.y + t.oy]
          BY <4>1 DEF OnSyn
        <5> HIDE DEF t
        <5> QED
          BY <5>2, <5>3 DEF PumpTypeOK, Moves
      <4>2. CASE OnX(e) \/ OnY(e) \/ PassOn(e)
        BY <4>2 DEF PumpTypeOK, OnX, OnY, PassOn
      <4> QED
        BY <3>3, <4>1, <4>2
    <3> QED
      BY <3>2, <3>4, <3>5, <3>6, <3>7, <3>8, <3>9, <3>10 DEF PumpTypeOK
  <2>4. CASE UNCHANGED pumpVars
    BY <2>4 DEF PumpTypeOK, pumpVars
  <2> QED
    BY <2>1, <2>2, <2>3, <2>4 DEF PumpNext
<1> QED
  BY <1>1, <1>2, PTL DEF PumpSpec

-----------------------------------------------------------------------------
(* The books.  As long as every read takes whole reports, the sums of the  *)
(* loop are what the hand has done since the last report.                  *)

WholeReports == evs # <<>> => evs[Len(evs)] = Syn

InStep ==
    /\ hand = [x |-> dx, y |-> dy]
    /\ evs = <<>> => dx = 0 /\ dy = 0

Books == (cuts = 0) => WholeReports /\ InStep

\* Every step of the loop keeps the sums and the hand together.
LEMMA BooksStep ==
    ASSUME PumpTypeOK, Books, [PumpNext]_pumpVars
    PROVE  Books'
<1> SUFFICES ASSUME cuts' = 0 PROVE WholeReports' /\ InStep'
  BY DEF Books
<1>0. cuts = 0 /\ WholeReports /\ InStep
  <2>1. cuts = 0
    BY DEF PumpTypeOK, PumpNext, Report, Read, Handle, pumpVars
  <2> QED
    BY <2>1 DEF Books
<1>1. ASSUME NEW r \in Reports, Report(r) PROVE WholeReports' /\ InStep'
  BY <1>0, <1>1 DEF WholeReports, InStep, Report
<1>2. CASE Read
  <2> DEFINE n == IF Len(queue) < Chunk THEN Len(queue) ELSE Chunk
  <2>1. queue \in Seq(Event) /\ n \in 1..Len(queue)
    <3>1. queue \in Seq(Event) /\ queue # <<>>
      BY <1>2 DEF PumpTypeOK, Read
    <3>2. Len(queue) \in Nat \ {0}
      BY <3>1
    <3> QED
      BY <3>1, <3>2, PumpAssumption
  <2>2. /\ evs' = SubSeq(queue, 1, n) /\ evs = <<>> /\ queue[n] = Syn
        /\ dx' = 0 /\ dy' = 0 /\ hand' = hand
    <3>1. /\ evs' = SubSeq(queue, 1, n) /\ evs = <<>>
          /\ cuts' = (IF queue[n] = Syn THEN cuts ELSE cuts + 1)
          /\ dx' = 0 /\ dy' = 0 /\ hand' = hand
      BY <1>2 DEF Read
    <3> HIDE DEF n
    <3> QED
      BY <1>0, <3>1
  <2> HIDE DEF n
  <2>3. Len(evs') = n /\ evs'[n] = queue[n]
    BY <2>1, <2>2
  <2> QED
    BY <1>0, <2>2, <2>3 DEF WholeReports, InStep
<1>3. CASE Handle
  <2> DEFINE e == Head(evs)
  <2>1. /\ evs # <<>> /\ evs' = Tail(evs) /\ queue' = queue /\ evs \in Seq(Event)
        /\ e \in Event /\ e.v \in Int
    BY <1>3, EventFacts DEF Handle, PumpTypeOK
  <2>2. Witness(e) /\ (OnX(e) \/ OnY(e) \/ OnSyn(e) \/ PassOn(e))
    BY <1>3 DEF Handle
  <2>3. evs' # <<>> => evs'[Len(evs')] = evs[Len(evs)]
    BY <2>1
  <2>4. evs' = <<>> => e = evs[Len(evs)]
    <3> SUFFICES ASSUME evs' = <<>> PROVE e = evs[Len(evs)]
      OBVIOUS
    <3>1. Len(evs') = Len(evs) - 1 /\ Len(evs) \in Nat
      <4>1. evs \in Seq(Event) /\ evs # <<>> /\ evs' = Tail(evs)
        BY <2>1
      <4>2. Len(evs) \in Nat /\ Len(Tail(evs)) = Len(evs) - 1
        BY <4>1, Zenon, TailLength
      <4> QED
        BY <4>1, <4>2
    <3>2. Len(evs') = 0
      OBVIOUS
    <3>3. Len(evs) = 1
      BY <3>1, <3>2
    <3> QED
      BY <2>1, <3>3
  <2> HIDE DEF e
  <2>5. WholeReports'
    BY <1>0, <2>1, <2>3 DEF WholeReports
  <2>6. hand' = [x |-> dx', y |-> dy']
    <3>1. hand = [x |-> dx, y |-> dy] /\ dx \in Int /\ dy \in Int
      BY <1>0 DEF InStep, PumpTypeOK
    <3>2. CASE OnX(e)
      BY <2>1, <2>2, <3>1, <3>2 DEF OnX, Witness
    <3>3. CASE OnY(e)
      BY <2>1, <2>2, <3>1, <3>3 DEF OnY, Witness
    <3>4. CASE OnSyn(e)
      <4>1. hand' = Still /\ dx' = 0 /\ dy' = 0
        BY <2>2, <3>4 DEF OnSyn, Witness
      <4> QED
        BY <4>1 DEF Still
    <3>5. CASE PassOn(e)
      BY <2>2, <3>1, <3>5 DEF PassOn, Witness
    <3> QED
      BY <2>2, <3>2, <3>3, <3>4, <3>5
  <2>7. ASSUME evs' = <<>> PROVE dx' = 0 /\ dy' = 0
    <3>1. e.kind = "SYN"
      BY <1>0, <2>1, <2>4, <2>7, EventFacts DEF WholeReports
    <3> QED
      BY <2>2, <3>1 DEF OnX, OnY, OnSyn, PassOn
  <2> QED
    BY <2>5, <2>6, <2>7 DEF InStep
<1>4. CASE UNCHANGED pumpVars
  BY <1>0, <1>4 DEF WholeReports, InStep, pumpVars
<1> QED
  BY <1>1, <1>2, <1>3, <1>4 DEF PumpNext

\* The sums of the loop are what the hand did since the last report, until a
\* read ends inside one.
THEOREM PumpBooks == PumpSpec => []Books
<1>1. PumpInit => Books
  BY DEF PumpInit, Books, WholeReports, InStep, Still
<1>2. PumpTypeOK /\ Books /\ [PumpNext]_pumpVars => Books'
  BY BooksStep
<1> QED
  BY <1>1, <1>2, PumpTyping, PTL DEF PumpSpec

\* What NothingLost adds up is kept by every step that reads whole reports.
LEMMA LedgerStep ==
    ASSUME PumpTypeOK, Books, NothingLost, [PumpNext]_pumpVars
    PROVE  NothingLost'
<1> SUFFICES ASSUME cuts' = 0, params'.snap = 0
             PROVE  /\ moved'.x * FP + rem'.x = due'.x
                    /\ moved'.y * FP + rem'.y = due'.y
  BY DEF NothingLost
<1>0. cuts = 0 /\ hand = [x |-> dx, y |-> dy]
  <2>1. cuts = 0
    BY DEF PumpTypeOK, PumpNext, Report, Read, Handle, pumpVars
  <2> QED
    BY <2>1 DEF Books, InStep
<1>1. params' = params
  BY DEF PumpNext, Report, Read, Handle, pumpVars
<1>2. /\ moved.x * FP + rem.x = due.x
      /\ moved.y * FP + rem.y = due.y
  BY <1>0, <1>1 DEF NothingLost
<1>3. CASE UNCHANGED <<moved, rem, due>>
  BY <1>2, <1>3
<1>4. ASSUME Handle, OnSyn(Head(evs))
      PROVE  /\ moved'.x * FP + rem'.x = due'.x
             /\ moved'.y * FP + rem'.y = due'.y
  <2> DEFINE t == Transform(params, rem, dx, dy)
             g == Gain(params, dx * dx + dy * dy)
  <2>1. params \in Params /\ rem \in Carry /\ dx \in Int /\ dy \in Int
    BY PumpAssumption DEF PumpTypeOK
  <2>2. /\ t.rem \in Carry /\ t.ox \in Int /\ t.oy \in Int
        /\ t.ox * FP + t.rem.x = rem.x + dx * g
        /\ t.oy * FP + t.rem.y = rem.y + dy * g
    BY <1>1, <2>1, TransformStep
  <2>3. rem' = t.rem /\ moved' = [x |-> moved.x + t.ox, y |-> moved.y + t.oy]
    BY <1>4 DEF OnSyn
  <2>4. due' = [x |-> due.x + dx * g, y |-> due.y + dy * g]
    BY <1>0, <1>4, Zenon DEF Handle, Witness, OnSyn
  <2>5. g \in Int
    BY <2>1, GainRange
  <2> HIDE DEF t, g
  <2>6. /\ moved.x \in Int /\ moved.y \in Int /\ FP \in Int
        /\ t.rem.x \in Int /\ t.rem.y \in Int /\ rem.x \in Int /\ rem.y \in Int
        /\ due.x \in Int /\ due.y \in Int /\ dx * g \in Int /\ dy * g \in Int
    <3>1. dx * g \in Int /\ dy * g \in Int
      BY <2>1, <2>5
    <3>2. moved.x \in Int /\ moved.y \in Int /\ due.x \in Int /\ due.y \in Int
      BY DEF PumpTypeOK, Moves
    <3>3. /\ t.rem.x \in Int /\ t.rem.y \in Int /\ rem.x \in Int /\ rem.y \in Int
      BY <2>1, <2>2 DEF Carry, Fraction
    <3> QED
      BY <3>1, <3>2, <3>3, FPNat
  <2>7. /\ (moved.x + t.ox) * FP = moved.x * FP + t.ox * FP
        /\ (moved.y + t.oy) * FP = moved.y * FP + t.oy * FP
    BY <2>2, <2>6
  <2>8. /\ (moved.x + t.ox) * FP + t.rem.x = due.x + dx * g
        /\ (moved.y + t.oy) * FP + t.rem.y = due.y + dy * g
    <3> DEFINE mx == moved.x * FP  my == moved.y * FP
               ox == t.ox * FP     oy == t.oy * FP
               gx == dx * g        gy == dy * g
    <3>1. /\ mx \in Int /\ my \in Int /\ ox \in Int /\ oy \in Int
          /\ gx \in Int /\ gy \in Int
      BY <2>2, <2>6
    <3>2. mx + rem.x = due.x /\ my + rem.y = due.y
      BY <1>2
    <3>3. ox + t.rem.x = rem.x + gx /\ oy + t.rem.y = rem.y + gy
      BY <2>2
    <3> HIDE DEF mx, my, ox, oy, gx, gy
    <3>4. (mx + ox) + t.rem.x = due.x + gx /\ (my + oy) + t.rem.y = due.y + gy
      BY <2>6, <3>1, <3>2, <3>3
    <3> QED
      BY <2>7, <3>4 DEF mx, my, ox, oy, gx, gy
  <2> QED
    BY <2>3, <2>4, <2>8
<1>5. \/ UNCHANGED <<moved, rem, due>>
      \/ Handle /\ OnSyn(Head(evs))
  BY Zenon DEF PumpNext, Report, Read, Handle, Witness, OnX, OnY, PassOn, pumpVars
<1> QED
  BY <1>3, <1>4, <1>5

\* No motion is lost for any setting without snapping, any reports and any
\* buffer, until a read ends inside a report.
THEOREM PumpNothingLost == PumpSpec => []NothingLost
<1>1. PumpInit => NothingLost
  BY FPNat DEF PumpInit, NothingLost, NoCarry, Still
<1>2. PumpTypeOK /\ Books /\ NothingLost /\ [PumpNext]_pumpVars => NothingLost'
  BY LedgerStep
<1> QED
  BY <1>1, <1>2, PumpTyping, PumpBooks, PTL DEF PumpSpec

\* The pointer never moves against the hand, for any setting, until a read
\* ends inside a report.
THEOREM PumpNeverBackwards == PumpSpec => NeverBackwards
<1> DEFINE Along == /\ hand.x >= 0 => moved'.x >= moved.x
                    /\ hand.x <= 0 => moved'.x <= moved.x
                    /\ hand.y >= 0 => moved'.y >= moved.y
                    /\ hand.y <= 0 => moved'.y <= moved.y
<1>1. PumpTypeOK /\ Books /\ [PumpNext]_pumpVars => [cuts = 0 => Along]_pumpVars
  <2> SUFFICES ASSUME PumpTypeOK, Books, PumpNext, cuts = 0 PROVE Along
    OBVIOUS
  <2>1. moved.x \in Int /\ moved.y \in Int
    BY DEF PumpTypeOK, Moves
  <2>2. CASE moved' = moved
    BY <2>1, <2>2
  <2>3. ASSUME Handle, OnSyn(Head(evs)) PROVE Along
    <3> DEFINE t == Transform(params, rem, dx, dy)
    <3>1. params \in Params /\ rem \in Carry /\ dx \in Int /\ dy \in Int
      BY PumpAssumption DEF PumpTypeOK
    <3>2. /\ t.ox \in Int /\ t.oy \in Int
          /\ (dx >= 0 => t.ox >= 0) /\ (dx <= 0 => t.ox <= 0)
          /\ (dy >= 0 => t.oy >= 0) /\ (dy <= 0 => t.oy <= 0)
      BY <3>1, TransformStep
    <3>3. moved' = [x |-> moved.x + t.ox, y |-> moved.y + t.oy]
      BY <2>3 DEF OnSyn
    <3>4. hand.x = dx /\ hand.y = dy
      BY DEF Books, InStep
    <3> HIDE DEF t
    <3> QED
      BY <2>1, <3>1, <3>2, <3>3, <3>4
  <2>4. moved' = moved \/ (Handle /\ OnSyn(Head(evs)))
    BY Zenon DEF PumpNext, Report, Read, Handle, OnX, OnY, PassOn
  <2> QED
    BY <2>2, <2>3, <2>4
<1>2. PumpTypeOK /\ Books /\ [PumpNext]_pumpVars =>
        [cuts = 0 => /\ hand.x >= 0 => moved'.x >= moved.x
                     /\ hand.x <= 0 => moved'.x <= moved.x
                     /\ hand.y >= 0 => moved'.y >= moved.y
                     /\ hand.y <= 0 => moved'.y <= moved.y]_pumpVars
  BY <1>1
<1> QED
  BY <1>2, PumpTyping, PumpBooks, PTL DEF PumpSpec, NeverBackwards

-----------------------------------------------------------------------------
(* What is not motion.                                                     *)

\* The closing events under way carry what the kernel, and the pump, give them.
Closed(s) == \A i \in 1 .. Len(s) : s[i].kind = "SYN" => s[i] = Syn

Framed == Framing /\ Closed(queue) /\ Closed(evs)

\* An event that is not motion is emitted as it was read, and nothing else is.
LEMMA FramedStep ==
    ASSUME PumpTypeOK, Framed, [PumpNext]_pumpVars
    PROVE  Framed'
<1> USE DEF Framed, Framing, Closed
<1>1. ASSUME NEW r \in Reports, Report(r) PROVE Framed'
  <2>1. r \in Seq(Event) /\ Closed(r)
    BY PumpAssumption
  <2>2. queue \in Seq(Event) /\ queue' = queue \o r /\ UNCHANGED <<evs, taken, passed>>
    BY <1>1 DEF Report, PumpTypeOK
  <2>3. Closed(queue')
    <3>1. ASSUME NEW i \in 1 .. Len(queue') PROVE queue'[i].kind = "SYN" => queue'[i] = Syn
      <4>1. CASE i <= Len(queue)
        BY <2>1, <2>2, <4>1
      <4>2. CASE i > Len(queue)
        <5>1. i - Len(queue) \in 1 .. Len(r) /\ queue'[i] = r[i - Len(queue)]
          BY <2>1, <2>2, <4>2
        <5> QED BY <2>1, <5>1
      <4> QED BY <2>2, <4>1, <4>2
    <3> QED BY <3>1
  <2> QED BY <2>2, <2>3
<1>2. CASE Read
  <2> DEFINE n == IF Len(queue) < Chunk THEN Len(queue) ELSE Chunk
  <2>1. n \in 0..Len(queue) /\ queue \in Seq(Event)
    BY PumpAssumption DEF PumpTypeOK
  <2>2. /\ evs' = SubSeq(queue, 1, n) /\ queue' = SubSeq(queue, n + 1, Len(queue))
        /\ UNCHANGED <<taken, passed>>
    BY <1>2 DEF Read
  <2> HIDE DEF n
  <2>3. Closed(evs')
    BY <2>1, <2>2
  <2>4. Closed(queue')
    <3>1. Len(queue') = Len(queue) - n
      BY <2>1, <2>2
    <3>2. \A i \in 1 .. Len(queue') : queue'[i] = queue[i + n] /\ i + n \in 1 .. Len(queue)
      BY <2>1, <2>2, <3>1
    <3> QED BY <3>2
  <2> QED BY <2>2, <2>3, <2>4
<1>3. CASE Handle
  <2> DEFINE e == Head(evs)
  <2>1. evs # <<>> /\ evs \in Seq(Event) /\ evs' = Tail(evs) /\ queue' = queue
    BY <1>3 DEF Handle, PumpTypeOK
  <2>2. Witness(e) /\ (OnX(e) \/ OnY(e) \/ OnSyn(e) \/ PassOn(e))
    BY <1>3 DEF Handle
  <2>3. e.kind = "SYN" => e = Syn
    <3>1. e = evs[1] /\ 1 \in 1 .. Len(evs)
      BY <2>1
    <3> QED BY <3>1
  <2>4. Closed(evs')
    <3>1. Len(evs') = Len(evs) - 1 /\ Len(evs) \in Nat
      BY <2>1, TailLength
    <3>2. \A i \in 1 .. Len(evs') : evs'[i] = evs[i + 1] /\ i + 1 \in 1 .. Len(evs)
      BY <2>1, <3>1
    <3> QED BY <3>2
  <2> HIDE DEF e
  <2>5. passed' = taken'
    BY <2>2, <2>3 DEF Witness, OnX, OnY, OnSyn, PassOn, Passing
  <2> QED BY <2>1, <2>4, <2>5
<1>4. CASE UNCHANGED pumpVars
  BY <1>4 DEF pumpVars
<1> QED BY <1>1, <1>2, <1>3, <1>4 DEF PumpNext

\* Buttons, wheel and report boundaries come out exactly as they came in, for
\* every sequence of reports, every setting and every buffer size, also when a
\* read ends inside a report.
THEOREM PumpKeepsFrames == PumpSpec => []Framing
<1>1. PumpInit => Framed
  BY DEF PumpInit, Framed, Framing, Closed
<1>2. PumpTypeOK /\ Framed /\ [PumpNext]_pumpVars => Framed'
  BY FramedStep
<1>3. Framed => Framing
  BY DEF Framed
<1> QED
  BY <1>1, <1>2, <1>3, PumpTyping, PTL DEF PumpSpec
=============================================================================
