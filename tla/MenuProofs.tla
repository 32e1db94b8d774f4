------------------------------ MODULE MenuProofs ------------------------------
(***************************************************************************)
(* What is proved of Menu, whatever the devices: the focus always rests on *)
(* a pane that offers something, and an edit changes what the lit control  *)
(* is about.  The argument is about the item lists: what kinds of items    *)
(* they hold, that whether a pane offers anything never depends on the     *)
(* settings, and that the five stops of a colour stand side by side.       *)
(***************************************************************************)
EXTENDS Menu, FiniteSetTheorems, TLAPS

Plain == {"slider", "stepper", "toggle", "choice"}

\* what an item one can move to may be
Shape(it) == item_selectable(it) =>
    \/ it.do = "adjust" /\ it.kind \in Plain /\ it.set[1] \notin {"fx", "count", "groups"}
    \/ it.do = "adjust" /\ it.kind = "color" /\ it.set[1] = "color" /\ it.sub \in 0..4
    \/ it.do = "level" /\ it.kind = "slider" /\ it.set[1] = "dpi" /\ it.off = FALSE
    \/ /\ it.do = "effect" /\ it.kind = "choice" /\ it.set = <<"fx", zone>> /\ it.n = drv.fx
       /\ zone \in 1..drv.zones /\ it.off = FALSE
    \/ it.do = "remap" /\ it.kind = "custom" /\ it.off = FALSE
    \/ it.do = "tab" /\ it.kind = "button" /\ it.set[2] \in 1..drv.zones /\ it.off = FALSE
    \/ it.do \in {"create", "add", "del", "macro"} /\ it.kind = "button" /\ it.off = FALSE
    \/ it.do = "goto" /\ it.kind = "button" /\ it.off = FALSE /\ alloy_light_available

\* the next stop of the same colour
NextStop(a, b) == /\ b.kind = "color" /\ b.set = a.set /\ b.off = a.off /\ b.do = a.do
                  /\ b.sub = a.sub + 1

Sequence(s) == \E S : s \in Seq(S)
WellFormed(s) ==
    /\ Sequence(s)
    /\ \A i \in 1..Len(s) : Shape(s[i])
    /\ \A i \in 1..Len(s) : s[i].kind = "color" /\ s[i].sub < 4 =>
           i < Len(s) /\ NextStop(s[i], s[i + 1])
Some(s) == \E i \in 1..Len(s) : item_selectable(s[i])

\* whether pane p offers anything, by the device and the screen alone
Offers(p) ==
    /\ Panes[p].shown /\ Panes[p].id # "device"
    /\ Panes[p].id = "actions" => drv.buttons > 0
    /\ Panes[p].id = "center" => alloy_light_available
    /\ Panes[p].id = "levels" => drv.limit > 0
    /\ Panes[p].id = "controls" =>
           {"brightness", "snap", "profile"} \cap drv.caps # {} \/ drv.rates > 0

Settled(c) ==
    /\ DOMAIN c = Key(drv)
    /\ c[<<"count", 0>>] \in 0..drv.limit
    /\ c[<<"groups", 0>>] \in 1..MaxGroups
    /\ \A z \in 1..drv.zones : c[<<"fx", z>>] \in 0..(drv.fx - 1)

Place ==
    /\ drv \in Driver
    /\ screen \in Screens
    /\ screen = "light" => alloy_light_available
    /\ zone \in Nat /\ (drv.zones > 0 => zone \in 1..drv.zones)

At == focus \in 1..Footer /\ cursor \in [1..8 -> Nat]

FocusOffers == focus # Footer => Offers(focus)

\* the items of the pane in focus
Focus == tui_pane_items(Panes[focus])

\* a dialog about a setting is about the lit control
FocusLit == Lit(focus)
Dialogs == modal # <<>> /\ modal.kind \in {"hex", "effect", "remap", "capture"} =>
    /\ focus # Footer /\ tui_pane_slots(Focus) # {}
    /\ ~FocusLit.off
    /\ modal.it.set = FocusLit.set
    /\ modal.kind = "hex" => FocusLit.kind = "color"
    /\ modal.kind = "effect" => FocusLit.do = "effect" /\ modal.n = drv.fx
    /\ modal.kind \in {"remap", "capture"} => FocusLit.do = "remap"

MenuInv == Place /\ At /\ Settled(cfg) /\ Settled(baseline) /\ FocusOffers /\ Dialogs

-----------------------------------------------------------------------------
(* Slots: the places that can be selected, counted. *)

LEMMA RankNext ==
    ASSUME NEW S \in SUBSET Nat, IsFiniteSet(S)
    PROVE  \A k \in S : /\ Rank(S, k) \in Nat
                        /\ Rank(S, k + 1) = Rank(S, k) + 1
                        /\ Rank(S, k) < Cardinality(S)
<1> TAKE k \in S
<1> DEFINE below == {j \in S : j < k}
<1>0. k \in Nat /\ \A j \in S : j \in Nat /\ (j < k + 1 <=> j < k \/ j = k)
    <2>1. \A j \in S : j \in Nat
        OBVIOUS
    <2> QED BY <2>1
<1>1. IsFiniteSet(below) /\ Cardinality(below) \in Nat
    BY FS_Subset, FS_CardinalityType
<1>2. below \cup {k} = {j \in S : j < k + 1} /\ k \notin below
    <2>1. \A x : x \in below \cup {k} <=> x \in S /\ x < k + 1
        BY <1>0
    <2> QED BY <2>1, <1>0
<1>3. Cardinality(below \cup {k}) = Cardinality(below) + 1
    BY <1>1, <1>2, FS_AddElement
<1>4. Cardinality(below \cup {k}) <= Cardinality(S) /\ Cardinality(S) \in Nat
    <2>1. below \cup {k} \in SUBSET S
        OBVIOUS
    <2> QED BY <2>1, FS_Subset, FS_CardinalityType
<1> HIDE DEF below
<1>5. Rank(S, k) = Cardinality(below) /\ Rank(S, k + 1) = Cardinality(below \cup {k})
    BY <1>2 DEF below, Rank
<1> QED BY <1>1, <1>3, <1>4, <1>5

\* a later place has a higher rank
LEMMA RankGrows ==
    ASSUME NEW S \in SUBSET Nat, IsFiniteSet(S)
    PROVE  \A k, l \in S : /\ k < l => Rank(S, k) < Rank(S, l)
                           /\ Rank(S, k) = Rank(S, l) => k = l
<1>0. \A j \in S : j \in Nat
    OBVIOUS
<1>1. \A k, l \in S : k < l => Rank(S, k) < Rank(S, l)
    <2> SUFFICES ASSUME NEW k \in S, NEW l \in S, k < l PROVE Rank(S, k) < Rank(S, l)
        OBVIOUS
    <2>1. {j \in S : j < k + 1} \in SUBSET {j \in S : j < l}
        <3>1. \A j \in S : j < k + 1 => j < l
            BY <1>0
        <3> QED BY <3>1
    <2>2. IsFiniteSet({j \in S : j < l})
        BY FS_Subset
    <2>3. Rank(S, k + 1) <= Rank(S, l)
        BY <2>1, <2>2, FS_Subset DEF Rank
    <2>4. Rank(S, k) \in Nat /\ Rank(S, l) \in Nat /\ Rank(S, k + 1) = Rank(S, k) + 1
        BY RankNext
    <2> QED BY <2>3, <2>4
<1>2. \A k \in S : Rank(S, k) \in Nat
    BY RankNext
<1> QED BY <1>0, <1>1, <1>2

\* every number up to the last slot is the rank of one place
LEMMA RankOnto ==
    ASSUME NEW S \in SUBSET Nat, IsFiniteSet(S)
    PROVE  \A n \in 0..(Cardinality(S) - 1) : \E k \in S : Rank(S, k) = n
<1> DEFINE N == Cardinality(S)
           T == 0..(N - 1)
           f == [k \in S |-> Rank(S, k)]
<1>1. N \in Nat
    BY FS_CardinalityType
<1>2. IsFiniteSet(T) /\ Cardinality(T) = N
    <2>1. IsFiniteSet(T) /\ Cardinality(T) = IF 0 > N - 1 THEN 0 ELSE (N - 1) - 0 + 1
        <3> HIDE DEF N
        <3>1. 0 \in Int /\ N - 1 \in Int
            BY <1>1
        <3> QED BY <3>1, FS_Interval
    <2> QED BY <1>1, <2>1
<1>3. \A k \in S : Rank(S, k) \in T
    <2>1. \A k \in S : Rank(S, k) \in Nat /\ Rank(S, k) < Cardinality(S)
        BY RankNext
    <2> QED BY <1>1, <2>1
<1>4. \A k, l \in S : Rank(S, k) = Rank(S, l) => k = l
    BY RankGrows
<1> HIDE DEF N, T
<1>5. f \in Injection(S, T)
    BY <1>3, <1>4 DEF Injection, IsInjective
<1>6. f \in Surjection(S, T)
    BY <1>2, <1>5, FS_Injection DEF N
<1> QED BY <1>6 DEF Surjection, T, N

\* so a cursor that stands at the rank of a place, or beyond the last, picks its item
LEMMA SlotIs ==
    ASSUME NEW s, tui_pane_slots(s) \in SUBSET Nat, IsFiniteSet(tui_pane_slots(s))
    PROVE  \A k \in tui_pane_slots(s) : Slot(s, Rank(tui_pane_slots(s), k)) = s[k]
<1> TAKE k \in tui_pane_slots(s)
<1> DEFINE S == tui_pane_slots(s)
           c == CHOOSE j \in S : Rank(S, j) = Rank(S, k)
<1>1. c \in S /\ Rank(S, c) = Rank(S, k)
    OBVIOUS
<1>2. \A j, l \in S : Rank(S, j) = Rank(S, l) => j = l
    BY RankGrows
<1>3. c = k
    BY <1>1, <1>2
<1> QED BY <1>3 DEF Slot

LEMMA SlotAt ==
    ASSUME NEW s, tui_pane_slots(s) \in SUBSET Nat, IsFiniteSet(tui_pane_slots(s))
    PROVE  \A n \in 0..LastSlot(s) : \E k \in tui_pane_slots(s) :
               Rank(tui_pane_slots(s), k) = n /\ Slot(s, n) = s[k]
<1> TAKE n \in 0..LastSlot(s)
<1> DEFINE S == tui_pane_slots(s)
<1> HIDE DEF S
<1>1. S \in SUBSET Nat /\ IsFiniteSet(S) /\ n \in 0..(Cardinality(S) - 1)
    BY DEF S, LastSlot
<1> PICK k \in S : Rank(S, k) = n
    BY <1>1, RankOnto
<1> QED BY SlotIs DEF S

-----------------------------------------------------------------------------
(* Item lists. *)

LEMMA JoinIs ==
    ASSUME NEW s, NEW t, Sequence(s), Sequence(t)
    PROVE  /\ Sequence(s \o t) /\ Len(s) \in Nat /\ Len(t) \in Nat
           /\ Len(s \o t) = Len(s) + Len(t)
           /\ \A i \in 1..Len(s) : (s \o t)[i] = s[i]
           /\ \A i \in (Len(s) + 1)..(Len(s) + Len(t)) : (s \o t)[i] = t[i - Len(s)]
<1>1. PICK S : s \in Seq(S)
    BY DEF Sequence
<1>2. PICK T : t \in Seq(T)
    BY DEF Sequence
<1> DEFINE U == S \cup T
<1>3. s \in Seq(U) /\ t \in Seq(U)
    BY <1>1, <1>2
<1> HIDE DEF U
<1> QED BY <1>3 DEF Sequence

LEMMA Join ==
    ASSUME NEW s, NEW t, WellFormed(s), WellFormed(t)
    PROVE  WellFormed(s \o t) /\ (Some(s \o t) <=> Some(s) \/ Some(t))
<1> DEFINE u == s \o t
           m == Len(s)
           n == Len(t)
<1>1. /\ Sequence(u) /\ m \in Nat /\ n \in Nat /\ Len(u) = m + n
      /\ \A i \in 1..m : u[i] = s[i]
      /\ \A i \in (m + 1)..(m + n) : u[i] = t[i - m]
    BY JoinIs DEF WellFormed
<1>2. /\ \A i \in 1..m : Shape(s[i])
      /\ \A i \in 1..m : s[i].kind = "color" /\ s[i].sub < 4 => i < m /\ NextStop(s[i], s[i + 1])
      /\ \A i \in 1..n : Shape(t[i])
      /\ \A i \in 1..n : t[i].kind = "color" /\ t[i].sub < 4 => i < n /\ NextStop(t[i], t[i + 1])
      /\ Some(s) <=> \E i \in 1..m : item_selectable(s[i])
      /\ Some(t) <=> \E i \in 1..n : item_selectable(t[i])
    BY DEF WellFormed, Some
<1> HIDE DEF u, m, n
<1>3. \A i \in 1..(m + n) : i \in 1..m \/ (i - m \in 1..n /\ i \in (m + 1)..(m + n))
    <2>1. m \in Nat /\ n \in Nat
        BY <1>1
    <2> QED BY <2>1
<1>4. \A i \in 1..(m + n) : Shape(u[i])
    BY <1>1, <1>2, <1>3
<1>5. ASSUME NEW i \in 1..(m + n), u[i].kind = "color", u[i].sub < 4
      PROVE  i < m + n /\ NextStop(u[i], u[i + 1])
    <2>1. CASE i \in 1..m
        <3>1. u[i] = s[i] /\ i < m /\ NextStop(s[i], s[i + 1])
            BY <1>1, <1>2, <1>5, <2>1
        <3>2. i + 1 \in 1..m /\ i < m + n
            BY <1>1, <3>1, <2>1
        <3> QED BY <1>1, <3>1, <3>2
    <2>2. CASE i - m \in 1..n /\ i \in (m + 1)..(m + n)
        <3>1. u[i] = t[i - m] /\ i - m < n /\ NextStop(t[i - m], t[(i - m) + 1])
            BY <1>1, <1>2, <1>5, <2>2
        <3>2. i + 1 \in (m + 1)..(m + n) /\ i < m + n /\ (i - m) + 1 = (i + 1) - m
            BY <1>1, <3>1, <2>2
        <3> QED BY <1>1, <3>1, <3>2
    <2> QED BY <1>3, <2>1, <2>2
<1>6. (\E i \in 1..(m + n) : item_selectable(u[i]))
        <=> (\E i \in 1..m : item_selectable(s[i])) \/ (\E i \in 1..n : item_selectable(t[i]))
    <2>1. \A i \in 1..m : i \in 1..(m + n) /\ u[i] = s[i]
        BY <1>1
    <2>2. \A i \in 1..n : i + m \in 1..(m + n) /\ u[i + m] = t[i]
        <3> TAKE i \in 1..n
        <3>1. i + m \in (m + 1)..(m + n) /\ i + m \in 1..(m + n) /\ (i + m) - m = i
            BY <1>1
        <3> QED BY <1>1, <3>1
    <2>3. \A i \in 1..(m + n) : \/ i \in 1..m /\ u[i] = s[i]
                                \/ i - m \in 1..n /\ u[i] = t[i - m]
        BY <1>1, <1>3
    <2> QED BY <2>1, <2>2, <2>3
<1>7. Len(u) = m + n /\ Sequence(u)
    BY <1>1
<1>8. WellFormed(u)
    BY <1>4, <1>5, <1>7 DEF WellFormed
<1>9. Some(u) <=> Some(s) \/ Some(t)
    BY <1>2, <1>6, <1>7 DEF Some
<1> QED BY <1>8, <1>9 DEF u

\* a list without colours
LEMMA Flat ==
    ASSUME NEW s, Sequence(s), \A i \in 1..Len(s) : Shape(s[i]) /\ s[i].kind # "color"
    PROVE  WellFormed(s)
BY DEF WellFormed

LEMMA FunctionList ==
    ASSUME NEW f, NEW n \in Nat, DOMAIN f = 1..n, f = [i \in DOMAIN f |-> f[i]]
    PROVE  Sequence(f) /\ Len(f) = n
<1> DEFINE S == {f[i] : i \in 1..n}
<1>1. f \in [1..n -> S]
    OBVIOUS
<1> HIDE DEF S
<1>2. f \in Seq(S) /\ Len(f) = n
    BY <1>1
<1> QED BY <1>2 DEF Sequence

LEMMA Nothing == WellFormed(<<>>) /\ ~Some(<<>>)
<1>1. <<>> \in Seq({}) /\ Len(<<>>) = 0
    OBVIOUS
<1> QED BY <1>1 DEF WellFormed, Some, Sequence

LEMMA Optional ==
    ASSUME NEW test \in BOOLEAN, NEW s, test => WellFormed(s)
    PROVE  WellFormed(If(test, s)) /\ (Some(If(test, s)) <=> test /\ Some(s))
BY Nothing DEF If

LEMMA One ==
    ASSUME NEW it, Shape(it), it.kind # "color"
    PROVE  WellFormed(<<it>>) /\ (Some(<<it>>) <=> item_selectable(it))
<1>1. <<it>> \in Seq({it}) /\ Len(<<it>>) = 1 /\ \A i \in 1..1 : <<it>>[i] = it
    OBVIOUS
<1>2. Sequence(<<it>>)
    BY <1>1 DEF Sequence
<1> QED BY <1>1, <1>2, Flat DEF Some

LEMMA Two ==
    ASSUME NEW a, NEW b, Shape(a), Shape(b), a.kind # "color", b.kind # "color"
    PROVE  WellFormed(<<a, b>>) /\ (Some(<<a, b>>) <=> item_selectable(a) \/ item_selectable(b))
<1> DEFINE s == <<a, b>>
<1>1. s \in Seq({a, b}) /\ Len(s) = 2 /\ s[1] = a /\ s[2] = b
    OBVIOUS
<1> HIDE DEF s
<1>2. \A i \in 1..2 : i = 1 \/ i = 2
    OBVIOUS
<1>3. Sequence(s)
    BY <1>1 DEF Sequence
<1>4. WellFormed(s)
    BY <1>1, <1>2, <1>3, Flat
<1>5. Some(s) <=> item_selectable(a) \/ item_selectable(b)
    <2>1. 1 \in 1..2 /\ 2 \in 1..2
        OBVIOUS
    <2> QED BY <1>1, <1>2, <2>1 DEF Some
<1> QED BY <1>4, <1>5 DEF s

LEMMA Three ==
    ASSUME NEW a, NEW b, NEW c, Shape(a), Shape(b), Shape(c),
           a.kind # "color", b.kind # "color", c.kind # "color"
    PROVE  /\ WellFormed(<<a, b, c>>)
           /\ Some(<<a, b, c>>) <=> item_selectable(a) \/ item_selectable(b) \/ item_selectable(c)
<1> DEFINE s == <<a, b, c>>
<1>1. s \in Seq({a, b, c}) /\ Len(s) = 3 /\ s[1] = a /\ s[2] = b /\ s[3] = c
    OBVIOUS
<1> HIDE DEF s
<1>2. \A i \in 1..3 : i = 1 \/ i = 2 \/ i = 3
    OBVIOUS
<1>3. Sequence(s)
    BY <1>1 DEF Sequence
<1>4. WellFormed(s)
    BY <1>1, <1>2, <1>3, Flat
<1>5. Some(s) <=> item_selectable(a) \/ item_selectable(b) \/ item_selectable(c)
    <2>1. 1 \in 1..3 /\ 2 \in 1..3 /\ 3 \in 1..3
        OBVIOUS
    <2> QED BY <1>1, <1>2, <2>1 DEF Some
<1> QED BY <1>4, <1>5 DEF s

\* what cannot be selected
LEMMA Unselectable ==
    ASSUME NEW it, it.kind \in {"heading", "spacer"}
    PROVE  Shape(it) /\ ~item_selectable(it) /\ it.kind # "color"
BY DEF Shape, item_selectable

\* and the plain controls
LEMMA Selectable ==
    ASSUME NEW it,
           \/ it.do = "adjust" /\ it.kind \in Plain /\ it.set[1] \notin {"fx", "count", "groups"}
           \/ it.do = "level" /\ it.kind = "slider" /\ it.set[1] = "dpi" /\ it.off = FALSE
           \/ /\ it.do = "effect" /\ it.kind = "choice" /\ it.set = <<"fx", zone>> /\ it.n = drv.fx
              /\ zone \in 1..drv.zones /\ it.off = FALSE
           \/ it.do = "remap" /\ it.kind = "custom" /\ it.off = FALSE
           \/ it.do = "tab" /\ it.kind = "button" /\ it.set[2] \in 1..drv.zones /\ it.off = FALSE
           \/ it.do \in {"create", "add", "del", "macro"} /\ it.kind = "button" /\ it.off = FALSE
           \/ it.do = "goto" /\ it.kind = "button" /\ it.off = FALSE /\ alloy_light_available
    PROVE  Shape(it) /\ item_selectable(it) /\ it.kind # "color"
BY DEF Shape, item_selectable, Plain

LEMMA Fillers ==
    \A it : it = Heading \/ it = Spacer \/ (\E r : it = Static(r)) =>
        Shape(it) /\ ~item_selectable(it) /\ it.kind # "color"
<1> SUFFICES ASSUME NEW it, it = Heading \/ it = Spacer \/ \E r : it = Static(r)
             PROVE  it.kind \in {"heading", "spacer"}
    BY Unselectable
<1> QED BY DEF Heading, Spacer, Static, Item

LEMMA ActionsList == drv \in Driver =>
    WellFormed(actions_items) /\ (Some(actions_items) <=> drv.buttons > 0)
<1> SUFFICES ASSUME drv \in Driver
             PROVE  WellFormed(actions_items) /\ (Some(actions_items) <=> drv.buttons > 0)
    OBVIOUS
<1> DEFINE f == actions_items
           n == drv.buttons
<1>1. n \in Nat
    BY DriverAssumption
<1>2. /\ DOMAIN f = 1..n /\ f = [i \in DOMAIN f |-> f[i]]
      /\ \A i \in 1..n : f[i] = [Button("remap", i) EXCEPT !.kind = "custom", !.rows = 2]
    BY DEF actions_items, Each
<1> HIDE DEF f, n
<1>3. \A i \in 1..n : Shape(f[i]) /\ item_selectable(f[i]) /\ f[i].kind # "color"
    <2> TAKE i \in 1..n
    <2>1. f[i].do = "remap" /\ f[i].kind = "custom" /\ f[i].off = FALSE
        BY <1>2 DEF Button, Item
    <2> QED BY <2>1, Selectable
<1>4. Sequence(f) /\ Len(f) = n
    BY <1>1, <1>2, FunctionList
<1>5. WellFormed(f)
    BY <1>3, <1>4, Flat
<1>6. Some(f) <=> n > 0
    <2>1. n > 0 <=> 1 \in 1..n
        BY <1>1
    <2>2. n > 0 \/ 1..n = {}
        BY <1>1
    <2> QED BY <1>1, <1>3, <1>4, <2>1, <2>2 DEF Some
<1> QED BY <1>5, <1>6 DEF f, n

\* pairs of items, none of them a colour
LEMMA PairsList ==
    ASSUME NEW n \in Nat, NEW f, DOMAIN f = 1..(2 * n), f = [i \in DOMAIN f |-> f[i]],
           \A i \in 1..(2 * n) : Shape(f[i]) /\ f[i].kind # "color"
    PROVE  WellFormed(f) /\ (n > 0 /\ item_selectable(f[1]) => Some(f)) /\ (n = 0 => ~Some(f))
<1>1. 2 * n \in Nat
    OBVIOUS
<1>2. Sequence(f) /\ Len(f) = 2 * n
    BY <1>1, FunctionList
<1>3. WellFormed(f)
    BY <1>2, Flat
<1>4. n > 0 => 1 \in 1..(2 * n)
    OBVIOUS
<1>5. n = 0 => 1..(2 * n) = {}
    OBVIOUS
<1> QED BY <1>2, <1>3, <1>4, <1>5 DEF Some

LEMMA LevelsList == drv \in Driver /\ Settled(cfg) =>
    WellFormed(levels_items) /\ (Some(levels_items) <=> drv.limit > 0)
<1> SUFFICES ASSUME drv \in Driver, Settled(cfg)
             PROVE  WellFormed(levels_items) /\ (Some(levels_items) <=> drv.limit > 0)
    OBVIOUS
<1> DEFINE n == cfg[<<"count", 0>>]
           limit == drv.limit
           slider(i) == [Slider(<<"dpi", i>>, drv.lo, drv.hi, drv.grid, 10 * drv.grid) EXCEPT !.do = "level"]
           f == [k \in 1..(2 * n) |-> IF k % 2 = 1 THEN slider((k + 1) \div 2) ELSE Spacer]
           create == If(n < limit, <<Button("create", 0)>>)
<1>1. limit \in Nat /\ n \in 0..limit
    BY DriverAssumption DEF Settled
<1>2. levels_items = f \o create
    BY DEF levels_items, EachTwo
<1>3. \A i : Shape(slider(i)) /\ item_selectable(slider(i)) /\ slider(i).kind # "color"
    <2> TAKE i
    <2>1. slider(i).kind = "slider" /\ slider(i).set = <<"dpi", i>> /\ slider(i).do = "level"
          /\ slider(i).off = FALSE
        BY DEF Slider, Item
    <2> HIDE DEF slider
    <2>2. slider(i).set[1] = "dpi"
        BY <2>1
    <2> QED BY <2>1, <2>2, Selectable
<1>4. WellFormed(create) /\ (Some(create) <=> n < limit)
    <2> DEFINE it == Button("create", 0)
    <2>1. it.do = "create" /\ it.kind = "button" /\ it.off = FALSE
        BY DEF Button, Item
    <2> HIDE DEF it
    <2>2. WellFormed(<<it>>) /\ Some(<<it>>)
        BY <2>1, Selectable, One
    <2>3. (n < limit) \in BOOLEAN
        OBVIOUS
    <2> QED BY <2>2, <2>3, Optional DEF it
<1> HIDE DEF create, slider
<1>5. /\ n \in Nat /\ DOMAIN f = 1..(2 * n) /\ f = [i \in DOMAIN f |-> f[i]]
      /\ \A i \in 1..(2 * n) : f[i] = Spacer \/ \E j : f[i] = slider(j)
    BY <1>1
<1>6. n > 0 => item_selectable(f[1])
    <2> SUFFICES ASSUME n > 0 PROVE item_selectable(f[1])
        OBVIOUS
    <2>1. 1 \in 1..(2 * n) /\ 1 % 2 = 1
        BY <1>1
    <2>2. f[1] = slider((1 + 1) \div 2)
        BY <2>1
    <2> QED BY <1>3, <2>2
<1> HIDE DEF f, n
<1>7. WellFormed(f) /\ (n > 0 => Some(f)) /\ (n = 0 => ~Some(f))
    <2>1. \A i \in 1..(2 * n) : Shape(f[i]) /\ f[i].kind # "color"
        BY <1>3, <1>5, Fillers
    <2> QED BY <1>5, <1>6, <2>1, PairsList
<1>8. WellFormed(f \o create) /\ (Some(f \o create) <=> Some(f) \/ Some(create))
    BY <1>4, <1>7, Join
<1> QED BY <1>1, <1>2, <1>4, <1>7, <1>8

LEMMA PlainSlider ==
    ASSUME NEW name, name \notin {"fx", "count", "groups"}, NEW i, NEW a, NEW b, NEW c, NEW d
    PROVE  /\ LET it == Slider(<<name, i>>, a, b, c, d)
              IN Shape(it) /\ item_selectable(it) /\ it.kind # "color"
           /\ LET it == Stepper(<<name, i>>, a, b, c, d)
              IN Shape(it) /\ item_selectable(it) /\ it.kind # "color"
           /\ LET it == Gauge(<<name, i>>, a, b, c)
              IN Shape(it) /\ item_selectable(it) /\ it.kind # "color"
           /\ LET it == Choice(<<name, i>>, a)
              IN Shape(it) /\ item_selectable(it) /\ it.kind # "color"
           /\ LET it == Toggle(<<name, i>>)
              IN Shape(it) /\ item_selectable(it) /\ it.kind # "color"
<1> DEFINE set == <<name, i>>
<1>1. set[1] \notin {"fx", "count", "groups"}
    OBVIOUS
<1> HIDE DEF set
<1>2. \A it : it.kind \in Plain /\ it.set = set /\ it.do = "adjust" =>
          Shape(it) /\ item_selectable(it) /\ it.kind # "color"
    BY <1>1, Selectable
<1>3. /\ LET it == Slider(set, a, b, c, d) IN it.kind \in Plain /\ it.set = set /\ it.do = "adjust"
      /\ LET it == Stepper(set, a, b, c, d) IN it.kind \in Plain /\ it.set = set /\ it.do = "adjust"
      /\ LET it == Gauge(set, a, b, c) IN it.kind \in Plain /\ it.set = set /\ it.do = "adjust"
      /\ LET it == Choice(set, a) IN it.kind \in Plain /\ it.set = set /\ it.do = "adjust"
      /\ LET it == Toggle(set) IN it.kind \in Plain /\ it.set = set /\ it.do = "adjust"
    BY DEF Slider, Stepper, Gauge, Choice, Toggle, Item, Plain
<1> QED BY <1>2, <1>3 DEF set

LEMMA PowerList == WellFormed(power_items) /\ Some(power_items)
<1>1. \A it : it = Stepper(<<"sleep", 0>>, 0, 20, 1, 5) \/ it = Toggle(<<"smart", 0>>)
              \/ it = Stepper(<<"dim", 0>>, 0, 1200, 15, 60) =>
          Shape(it) /\ item_selectable(it) /\ it.kind # "color"
    BY PlainSlider
<1> QED BY <1>1, Three DEF power_items

LEMMA PollingList == drv \in Driver =>
    WellFormed(alloy_widget_polling) /\ (Some(alloy_widget_polling) <=> drv.rates > 0)
<1> SUFFICES ASSUME drv \in Driver
             PROVE  WellFormed(alloy_widget_polling) /\ (Some(alloy_widget_polling) <=> drv.rates > 0)
    OBVIOUS
<1> DEFINE it == Slider(<<"rate", 0>>, 0, drv.rates - 1, 1, 1)
           s == <<Heading, Static(4), it>>
<1>1. Shape(it) /\ item_selectable(it) /\ it.kind # "color"
    BY PlainSlider
<1> HIDE DEF it
<1>2. WellFormed(s) /\ Some(s)
    BY <1>1, Fillers, Three
<1>3. (drv.rates > 0) \in BOOLEAN
    BY DriverAssumption
<1> QED BY <1>2, <1>3, Optional DEF alloy_widget_polling, it

LEMMA BrightnessList ==
    /\ WellFormed(alloy_widget_brightness)
    /\ Some(alloy_widget_brightness) <=> "brightness" \in drv.caps
<1> DEFINE it == Slider(<<"brightness", 0>>, 0, 100, 5, 20)
<1>1. Shape(it) /\ item_selectable(it) /\ it.kind # "color"
    BY PlainSlider
<1> HIDE DEF it
<1>2. WellFormed(<<it>>) /\ Some(<<it>>)
    BY <1>1, One
<1>3. ("brightness" \in drv.caps) \in BOOLEAN
    OBVIOUS
<1> QED BY <1>2, <1>3, Optional DEF alloy_widget_brightness, it

LEMMA TuningList == drv \in Driver => WellFormed(tuning_items) /\ Some(tuning_items)
<1> SUFFICES ASSUME drv \in Driver PROVE WellFormed(tuning_items) /\ Some(tuning_items)
    OBVIOUS
<1> DEFINE a == Stepper(<<"acceleration", 0>>, 0, 100, 5, 50)
           d == Stepper(<<"deceleration", 0>>, 0, 100, 5, 50)
           n == Stepper(<<"snapping", 0>>, 0, 45, 1, 5)
           o == Toggle(<<"accel", 0>>)
           s == <<Heading, Static(8), a, d, Spacer, Heading, Static(3), n, o, Spacer>>
<1>1. \A it \in {a, d, n, o} : Shape(it) /\ item_selectable(it) /\ it.kind # "color"
    <2>1. Shape(a) /\ item_selectable(a) /\ a.kind # "color"
        BY PlainSlider
    <2>2. Shape(d) /\ item_selectable(d) /\ d.kind # "color"
        BY PlainSlider
    <2>3. Shape(n) /\ item_selectable(n) /\ n.kind # "color"
        BY PlainSlider
    <2>4. Shape(o) /\ item_selectable(o) /\ o.kind # "color"
        BY PlainSlider
    <2> QED BY <2>1, <2>2, <2>3, <2>4
<1> HIDE DEF a, d, n, o
<1>2. s = <<Heading, Static(8), a>> \o <<d, Spacer, Heading>> \o <<Static(3), n, o>> \o <<Spacer>>
    OBVIOUS
<1> HIDE DEF s
<1>3. WellFormed(<<Heading, Static(8), a>>) /\ Some(<<Heading, Static(8), a>>)
    BY <1>1, Fillers, Three
<1>4. WellFormed(<<d, Spacer, Heading>>) /\ WellFormed(<<Static(3), n, o>>) /\ WellFormed(<<Spacer>>)
    BY <1>1, Fillers, Three, One
<1>5. WellFormed(s) /\ Some(s)
    BY <1>2, <1>3, <1>4, Join
<1> QED BY <1>5, PollingList, Join DEF tuning_items, s, a, d, n, o

LEMMA ButtonList ==
    ASSUME NEW do \in {"create", "add", "del", "goto", "macro"}, do = "goto" => alloy_light_available
    PROVE  WellFormed(<<Button(do, 0)>>) /\ Some(<<Button(do, 0)>>)
<1> DEFINE it == Button(do, 0)
<1>1. it.do = do /\ it.kind = "button" /\ it.off = FALSE
    BY DEF Button, Item
<1> HIDE DEF it
<1>2. Shape(it) /\ item_selectable(it) /\ it.kind # "color"
    BY <1>1, Selectable
<1> QED BY <1>2, One DEF it

LEMMA GatewayList ==
    WellFormed(alloy_light_gateway) /\ (Some(alloy_light_gateway) <=> alloy_light_available)
<1>1. alloy_light_available \in BOOLEAN
    BY DEF alloy_light_available
<1> QED BY <1>1, ButtonList, Optional DEF alloy_light_gateway

LEMMA PreviewList == drv \in Driver =>
    WellFormed(preview_items) /\ (Some(preview_items) <=> drv.zones > 0)
<1> SUFFICES ASSUME drv \in Driver
             PROVE  WellFormed(preview_items) /\ (Some(preview_items) <=> drv.zones > 0)
    OBVIOUS
<1> DEFINE f == preview_items
           n == drv.zones
<1>1. n \in Nat
    BY DriverAssumption
<1>2. /\ DOMAIN f = 1..n /\ f = [i \in DOMAIN f |-> f[i]]
      /\ \A i \in 1..n : f[i] = Button("tab", i)
    BY DEF preview_items, Each
<1> HIDE DEF f
<1>3. \A i \in 1..n : Shape(f[i]) /\ item_selectable(f[i]) /\ f[i].kind # "color"
    <2> TAKE i \in 1..n
    <2>1. f[i].do = "tab" /\ f[i].kind = "button" /\ f[i].off = FALSE /\ f[i].set = <<"tab", i>>
        BY <1>2 DEF Button, Item
    <2>2. f[i].set[2] \in 1..drv.zones
        BY <2>1
    <2> QED BY <2>1, <2>2, Selectable
<1>4. Sequence(f) /\ Len(f) = n
    BY <1>1, <1>2, FunctionList
<1>5. WellFormed(f)
    BY <1>3, <1>4, Flat
<1>6. Some(f) <=> n > 0
    <2>1. n > 0 <=> 1 \in 1..n
        BY <1>1
    <2>2. n > 0 \/ 1..n = {}
        BY <1>1
    <2> QED BY <1>1, <1>3, <1>4, <2>1, <2>2 DEF Some
<1> QED BY <1>5, <1>6 DEF f

\* the five stops of a colour
LEMMA ColourList ==
    ASSUME NEW z, NEW off
    PROVE  WellFormed(Colour(z, off))
<1> DEFINE f == Colour(z, off)
<1>1. /\ DOMAIN f = 1..5 /\ f = [i \in DOMAIN f |-> f[i]]
      /\ \A i \in 1..5 : /\ f[i].kind = "color" /\ f[i].set = <<"color", z>> /\ f[i].off = off
                         /\ f[i].do = "adjust" /\ f[i].sub = i - 1
    BY DEF Colour, Item
<1> HIDE DEF f
<1>2. Sequence(f) /\ Len(f) = 5
    BY <1>1, FunctionList
<1>3. \A i \in 1..5 : Shape(f[i])
    <2> TAKE i \in 1..5
    <2>1. f[i].set[1] = "color" /\ f[i].sub \in 0..4
        BY <1>1
    <2> QED BY <1>1, <2>1 DEF Shape
<1>4. ASSUME NEW i \in 1..5, f[i].sub < 4 PROVE i < 5 /\ NextStop(f[i], f[i + 1])
    <2>1. i < 5 /\ i + 1 \in 1..5
        BY <1>1, <1>4
    <2>2. f[i + 1].sub = f[i].sub + 1
        BY <1>1, <2>1
    <2> QED BY <1>1, <2>1, <2>2 DEF NextStop
<1> QED BY <1>2, <1>3, <1>4 DEF WellFormed, f

\* what the effect in force can be tuned with
Tuned(c) == ctrl_item(c, <<c.name, zone>>, cfg[<<"fx", zone>>] = 0)

LEMMA CtrlsList ==
    drv \in Driver /\ Settled(cfg) /\ zone \in 1..drv.zones =>
        LET ctrls == light_ctrls(cfg[<<"fx", zone>>])
        IN WellFormed([i \in 1..Len(ctrls) |-> Tuned(ctrls[i])])
<1> SUFFICES ASSUME drv \in Driver, Settled(cfg), zone \in 1..drv.zones
             PROVE  LET ctrls == light_ctrls(cfg[<<"fx", zone>>])
                    IN WellFormed([i \in 1..Len(ctrls) |-> Tuned(ctrls[i])])
    OBVIOUS
<1> DEFINE j == cfg[<<"fx", zone>>] + 1
           ctrls == drv.ctrls[j]
           f == [i \in 1..Len(ctrls) |-> Tuned(ctrls[i])]
<1>1. j \in 1..drv.fx
    BY DriverAssumption DEF Settled
<1> HIDE DEF j
<1>2. j \in DOMAIN drv.ctrls /\ ctrls \in Seq(Range(ctrls))
    BY <1>1, DriverAssumption
<1>3. Len(ctrls) \in Nat /\ \A i \in 1..Len(ctrls) : ctrls[i] \in Range(ctrls)
    BY <1>2
<1>4. \A i \in 1..Len(ctrls) : ctrls[i].name \notin {"fx", "count", "groups"}
    <2> TAKE i \in 1..Len(ctrls)
    <2>1. ctrls[i].name \in CtrlName(drv)
        BY <1>2, <1>3 DEF CtrlName
    <2>2. CtrlName(drv) \cap ({"fx", "color", "dpi", "button", "keys", "mode"} \cup Single) = {}
        BY DriverAssumption
    <2> QED BY <2>1, <2>2 DEF Single
<1> HIDE DEF ctrls
<1>5. \A i \in 1..Len(ctrls) : Shape(Tuned(ctrls[i])) /\ Tuned(ctrls[i]).kind # "color"
    <2> TAKE i \in 1..Len(ctrls)
    <2> DEFINE c == ctrls[i]
               name == c.name
               set == <<name, zone>>
               dull == cfg[<<"fx", zone>>] = 0
    <2>1. Tuned(c) \in {Choice(set, c.hi), Toggle(set), Gauge(set, c.lo, c.hi, dull)}
        BY Zenon DEF Tuned, ctrl_item
    <2>2. name \notin {"fx", "count", "groups"}
        BY <1>4
    <2> HIDE DEF c, name, dull
    <2> QED BY <2>1, <2>2, PlainSlider DEF c
<1>6. Sequence(f) /\ Len(f) = Len(ctrls) /\ \A i \in 1..Len(ctrls) : f[i] = Tuned(ctrls[i])
    <2>1. DOMAIN f = 1..Len(ctrls) /\ f = [i \in DOMAIN f |-> f[i]]
        OBVIOUS
    <2> HIDE DEF f
    <2>2. Sequence(f) /\ Len(f) = Len(ctrls)
        BY <1>3, <2>1, FunctionList
    <2> QED BY <2>2 DEF f
<1> HIDE DEF f
<1>7. WellFormed(f)
    BY <1>5, <1>6, Flat
<1> QED BY <1>7 DEF f, ctrls, j, light_ctrls

LEMMA EffectsList ==
    drv \in Driver /\ Settled(cfg) /\ zone \in 1..drv.zones =>
        WellFormed(effects_items) /\ Some(effects_items)
<1> SUFFICES ASSUME drv \in Driver, Settled(cfg), zone \in 1..drv.zones
             PROVE  WellFormed(effects_items) /\ Some(effects_items)
    OBVIOUS
<1> DEFINE fx == cfg[<<"fx", zone>>]
           ctrls == light_ctrls(fx)
           it == [Choice(<<"fx", zone>>, drv.fx) EXCEPT !.do = "effect"]
           a == <<Heading, Spacer, it>>
           b == If("global" \in drv.caps, <<Heading>>)
           c == <<Spacer>>
           d == [i \in 1..Len(ctrls) |-> Tuned(ctrls[i])]
           e == If("color" \in drv.caps, <<Spacer, Heading>> \o Colour(zone, ~fx_has_color(fx)))
           f == If("brightness" \in drv.caps, <<Spacer, Heading>> \o alloy_widget_brightness)
<1>1. effects_items = a \o b \o c \o d \o e \o f
    BY DEF effects_items, Each, Tuned
<1>2. WellFormed(a) /\ Some(a)
    <2>1. /\ it.do = "effect" /\ it.kind = "choice" /\ it.set = <<"fx", zone>>
          /\ it.n = drv.fx /\ it.off = FALSE
        BY DEF Choice, Item
    <2> HIDE DEF it
    <2>2. Shape(it) /\ item_selectable(it) /\ it.kind # "color"
        BY <2>1, Selectable
    <2> QED BY <2>2, Fillers, Three
<1>3. WellFormed(b) /\ WellFormed(c)
    <2>1. WellFormed(<<Heading>>) /\ WellFormed(<<Spacer>>)
        BY Fillers, One
    <2>2. ("global" \in drv.caps) \in BOOLEAN
        OBVIOUS
    <2> QED BY <2>1, <2>2, Optional
<1>4. WellFormed(d)
    BY CtrlsList
<1>5. WellFormed(<<Spacer, Heading>>)
    BY Fillers, Two
<1>6. WellFormed(e)
    <2>1. WellFormed(<<Spacer, Heading>> \o Colour(zone, ~fx_has_color(fx)))
        BY <1>5, ColourList, Join
    <2>2. ("color" \in drv.caps) \in BOOLEAN
        OBVIOUS
    <2> QED BY <2>1, <2>2, Optional
<1>7. WellFormed(f)
    <2>1. WellFormed(<<Spacer, Heading>> \o alloy_widget_brightness)
        BY <1>5, BrightnessList, Join
    <2>2. ("brightness" \in drv.caps) \in BOOLEAN
        OBVIOUS
    <2> QED BY <2>1, <2>2, Optional
<1> HIDE DEF a, b, c, d, e, f
<1>8. WellFormed(a \o b \o c \o d) /\ Some(a \o b \o c \o d)
    BY <1>2, <1>3, <1>4, Join
<1>9. WellFormed(a \o b \o c \o d \o e \o f) /\ Some(a \o b \o c \o d \o e \o f)
    BY <1>6, <1>7, <1>8, Join
<1> QED BY <1>1, <1>9

LEMMA ControlsList == drv \in Driver /\ Settled(cfg) =>
    /\ WellFormed(controls_items)
    /\ Some(controls_items) <=> {"brightness", "snap", "profile"} \cap drv.caps # {} \/ drv.rates > 0
<1> SUFFICES ASSUME drv \in Driver, Settled(cfg)
             PROVE  /\ WellFormed(controls_items)
                    /\ Some(controls_items)
                         <=> {"brightness", "snap", "profile"} \cap drv.caps # {} \/ drv.rates > 0
    OBVIOUS
<1> DEFINE n == cfg[<<"groups", 0>>]
           keys(g) == Choice(<<"keys", g>>, drv.pairs)
           mode(g) == Choice(<<"mode", g>>, 2)
           f == [k \in 1..(2 * n) |-> IF k % 2 = 1 THEN keys((k + 1) \div 2) ELSE mode(k \div 2)]
           add == If(n < MaxGroups, <<Button("add", 0)>>)
           del == If(n > 1, <<Button("del", 0)>>)
           snap == Toggle(<<"snap", 0>>)
           step == Stepper(<<"profile", 0>>, 1, 3, 1, 1)
           s1 == <<Heading>> \o alloy_widget_brightness \o <<Spacer>>
           s3 == <<Spacer, Heading, snap>> \o f \o add \o del
           s4 == <<Spacer, Heading, step>>
           p1 == If("brightness" \in drv.caps, s1)
           p3 == If("snap" \in drv.caps, s3)
           p4 == If("profile" \in drv.caps, s4)
<1>1. controls_items = p1 \o alloy_widget_polling \o p3 \o p4
    BY DEF controls_items, EachTwo
<1>2. WellFormed(p1) /\ (Some(p1) <=> "brightness" \in drv.caps)
    <2>1. WellFormed(<<Heading>>) /\ WellFormed(<<Spacer>>) /\ ~Some(<<Heading>>) /\ ~Some(<<Spacer>>)
        BY Fillers, One
    <2>2. WellFormed(s1) /\ (Some(s1) <=> "brightness" \in drv.caps)
        BY <2>1, BrightnessList, Join
    <2>3. ("brightness" \in drv.caps) \in BOOLEAN
        OBVIOUS
    <2> HIDE DEF s1
    <2> QED BY <2>2, <2>3, Optional
<1>3. WellFormed(p3) /\ (Some(p3) <=> "snap" \in drv.caps)
    <2>1. n \in Nat /\ MaxGroups \in Nat
        BY DriverAssumption DEF Settled
    <2>2. \A g : /\ Shape(keys(g)) /\ keys(g).kind # "color"
                 /\ Shape(mode(g)) /\ mode(g).kind # "color"
        BY PlainSlider
    <2>3. Shape(snap) /\ item_selectable(snap) /\ snap.kind # "color"
        BY PlainSlider
    <2>4. WellFormed(add) /\ WellFormed(del)
        <3>1. (n < MaxGroups) \in BOOLEAN /\ (n > 1) \in BOOLEAN
            OBVIOUS
        <3> HIDE DEF n
        <3> QED BY <3>1, ButtonList, Optional
    <2> HIDE DEF keys, mode, snap, add, del
    <2>5. WellFormed(f)
        <3>1. /\ DOMAIN f = 1..(2 * n) /\ f = [i \in DOMAIN f |-> f[i]]
              /\ \A i \in 1..(2 * n) : (\E g : f[i] = keys(g)) \/ (\E g : f[i] = mode(g))
            OBVIOUS
        <3> HIDE DEF f, n
        <3>2. \A i \in 1..(2 * n) : Shape(f[i]) /\ f[i].kind # "color"
            BY <2>2, <3>1
        <3> QED BY <2>1, <3>1, <3>2, PairsList
    <2> HIDE DEF f
    <2>6. WellFormed(<<Spacer, Heading, snap>>) /\ Some(<<Spacer, Heading, snap>>)
        BY <2>3, Fillers, Three
    <2>7. WellFormed(s3) /\ Some(s3)
        BY <2>4, <2>5, <2>6, Join
    <2>8. ("snap" \in drv.caps) \in BOOLEAN
        OBVIOUS
    <2> HIDE DEF s3
    <2> QED BY <2>7, <2>8, Optional
<1>4. WellFormed(p4) /\ (Some(p4) <=> "profile" \in drv.caps)
    <2>1. Shape(step) /\ item_selectable(step) /\ step.kind # "color"
        BY PlainSlider
    <2> HIDE DEF step
    <2>2. WellFormed(s4) /\ Some(s4)
        BY <2>1, Fillers, Three
    <2>3. ("profile" \in drv.caps) \in BOOLEAN
        OBVIOUS
    <2> HIDE DEF s4
    <2> QED BY <2>2, <2>3, Optional
<1> HIDE DEF p1, p3, p4
<1>5. /\ WellFormed(controls_items)
      /\ Some(controls_items) <=> Some(p1) \/ Some(alloy_widget_polling) \/ Some(p3) \/ Some(p4)
    BY <1>1, <1>2, <1>3, <1>4, PollingList, Join
<1> QED BY <1>2, <1>3, <1>4, <1>5, PollingList

-----------------------------------------------------------------------------
(* Panes. *)

LEMMA PanesAre == Place =>
    /\ screen = "light" => /\ Footer = 3 /\ Panes[1].id = "effects" /\ Panes[2].id = "preview"
                           /\ Panes[1].shown /\ Panes[2].shown
    /\ screen # "light" /\ drv.kind = "mouse" =>
           /\ Footer = 8 /\ Panes[1].id = "actions" /\ Panes[2].id = "macro" /\ Panes[3].id = "device"
           /\ Panes[4].id = "center" /\ Panes[5].id = "levels" /\ Panes[6].id = "power"
           /\ Panes[7].id = "tuning" /\ Panes[1].shown
    /\ screen # "light" /\ drv.kind # "mouse" =>
           /\ Footer = 3 /\ Panes[1].id = "center" /\ Panes[2].id = "controls" /\ Panes[1].shown
<1> SUFFICES ASSUME Place PROVE
        /\ screen = "light" => /\ Footer = 3 /\ Panes[1].id = "effects" /\ Panes[2].id = "preview"
                               /\ Panes[1].shown /\ Panes[2].shown
        /\ screen # "light" /\ drv.kind = "mouse" =>
               /\ Footer = 8 /\ Panes[1].id = "actions" /\ Panes[2].id = "macro" /\ Panes[3].id = "device"
               /\ Panes[4].id = "center" /\ Panes[5].id = "levels" /\ Panes[6].id = "power"
               /\ Panes[7].id = "tuning" /\ Panes[1].shown
        /\ screen # "light" /\ drv.kind # "mouse" =>
               /\ Footer = 3 /\ Panes[1].id = "center" /\ Panes[2].id = "controls" /\ Panes[1].shown
    OBVIOUS
<1>1. ASSUME screen = "light"
      PROVE  /\ Footer = 3 /\ Panes[1].id = "effects" /\ Panes[2].id = "preview"
             /\ Panes[1].shown /\ Panes[2].shown
    <2> DEFINE a == [Pane("effects", 0, 28, TRUE) EXCEPT !.min = 26, !.max = 36]
               b == [Pane("preview", 1, 0, FALSE) EXCEPT !.art = TRUE]
    <2>1. Panes = <<a, b>>
        BY <1>1 DEF Panes, PanesOf, alloy_light_panes
    <2>2. a.id = "effects" /\ b.id = "preview" /\ a.shown = TRUE /\ b.shown = TRUE
        BY DEF Pane
    <2> HIDE DEF a, b
    <2> QED BY <2>1, <2>2 DEF Footer
<1>2. ASSUME screen # "light", drv.kind = "mouse"
      PROVE  /\ Footer = 8 /\ Panes[1].id = "actions" /\ Panes[2].id = "macro" /\ Panes[3].id = "device"
             /\ Panes[4].id = "center" /\ Panes[5].id = "levels" /\ Panes[6].id = "power"
             /\ Panes[7].id = "tuning" /\ Panes[1].shown
    <2>1. drv.wireless \in BOOLEAN
        BY DriverAssumption DEF Place
    <2> DEFINE a == [Pane("actions", 0, 24, FALSE) EXCEPT !.hpct = 72]
               b == Pane("macro", 0, 24, FALSE)
               c == [Pane("device", 1, 0, FALSE) EXCEPT !.rows = 5, !.shown = drv.wireless]
               d == [Pane("center", 1, 0, FALSE) EXCEPT !.art = TRUE]
               e == Pane("levels", 2, 22, TRUE)
               f == [Pane("power", 2, 22, TRUE) EXCEPT !.rows = 9, !.shown = drv.wireless]
               g == Pane("tuning", 3, 24, TRUE)
    <2>2. Panes = <<a, b, c, d, e, f, g>>
        BY <1>2, <2>1 DEF Panes, PanesOf, mouse_main_panes
    <2>3. /\ a.id = "actions" /\ b.id = "macro" /\ c.id = "device" /\ d.id = "center"
          /\ e.id = "levels" /\ f.id = "power" /\ g.id = "tuning" /\ a.shown = TRUE
        BY DEF Pane
    <2> HIDE DEF a, b, c, d, e, f, g
    <2> QED BY <2>2, <2>3 DEF Footer
<1>3. ASSUME screen # "light", drv.kind # "mouse"
      PROVE  Footer = 3 /\ Panes[1].id = "center" /\ Panes[2].id = "controls" /\ Panes[1].shown
    <2> DEFINE a == [Pane("center", 0, 0, FALSE) EXCEPT !.art = TRUE]
               b == [Pane("controls", 1, 28, TRUE) EXCEPT !.min = 26, !.max = 34]
    <2>1. Panes = <<a, b>>
        BY <1>3 DEF Panes, PanesOf, keyboard_main_panes
    <2>2. a.id = "center" /\ b.id = "controls" /\ a.shown = TRUE
        BY DEF Pane
    <2> HIDE DEF a, b
    <2> QED BY <2>1, <2>2 DEF Footer
<1> QED BY <1>1, <1>2, <1>3

\* a light screen has zones
LEMMA LightHasZones == Place /\ alloy_light_available => zone \in 1..drv.zones /\ drv.zones > 0
<1> SUFFICES ASSUME Place, alloy_light_available PROVE zone \in 1..drv.zones /\ drv.zones > 0
    OBVIOUS
<1>1. drv.zones > 0
    BY DriverAssumption DEF Place, alloy_light_available
<1> QED BY <1>1 DEF Place

\* what a pane holds is well-formed, and whether it holds a control does not
\* depend on the settings
LEMMA PaneItems ==
    ASSUME Place, Settled(cfg), NEW p \in 1..(Footer - 1)
    PROVE  /\ WellFormed(tui_pane_items(Panes[p]))
           /\ Panes[p].shown => (Some(tui_pane_items(Panes[p])) <=> Offers(p))
<1> DEFINE q == Panes[p]
           s == tui_pane_items(q)
<1>0. drv \in Driver
    BY DEF Place
<1>1. CASE screen = "light"
    <2>1. zone \in 1..drv.zones /\ drv.zones > 0
        BY <1>1, LightHasZones DEF Place
    <2>4. p \in 1..2
        BY <1>1, PanesAre
    <2>5. q.id \in {"effects", "preview"}
        BY <1>1, <2>4, PanesAre
    <2>2. CASE q.id = "effects"
        <3>1. s = effects_items
            BY <1>1, <2>2, Zenon DEF tui_pane_items, alloy_light_items
        <3>2. q.shown => (Offers(p) <=> TRUE)
            BY <2>2, Zenon DEF Offers
        <3> QED BY <1>0, <2>1, <3>1, <3>2, EffectsList
    <2>3. CASE q.id = "preview"
        <3>1. s = preview_items
            BY <1>1, <2>3, Zenon DEF tui_pane_items, alloy_light_items
        <3>2. q.shown => (Offers(p) <=> TRUE)
            BY <2>3, Zenon DEF Offers
        <3> QED BY <1>0, <2>1, <3>1, <3>2, PreviewList
    <2> QED BY <2>2, <2>3, <2>5
<1>2. CASE screen # "light" /\ drv.kind = "mouse"
    <2>1. q.id \in {"actions", "macro", "device", "center", "levels", "power", "tuning"}
        BY <1>2, PanesAre
    <2>2. s = mouse_items(q)
        BY <1>2 DEF tui_pane_items
    <2>3. CASE q.id = "actions"
        <3>1. s = actions_items
            BY <2>2, <2>3, Zenon DEF mouse_items
        <3>2. q.shown => (Offers(p) <=> drv.buttons > 0)
            BY <2>3, Zenon DEF Offers
        <3> QED BY <1>0, <3>1, <3>2, ActionsList
    <2>4. CASE q.id = "macro"
        <3>1. s = <<Button("macro", 0)>>
            BY <2>2, <2>4, Zenon DEF mouse_items
        <3>2. q.shown => (Offers(p) <=> TRUE)
            BY <2>4, Zenon DEF Offers
        <3> QED BY <3>1, <3>2, ButtonList
    <2>5. CASE q.id = "device"
        <3>1. s = <<Static(3)>>
            BY <2>2, <2>5, Zenon DEF mouse_items
        <3>2. q.shown => (Offers(p) <=> FALSE)
            BY <2>5, Zenon DEF Offers
        <3> QED BY <3>1, <3>2, Fillers, One
    <2>6. CASE q.id = "center"
        <3>1. s = alloy_light_gateway
            BY <2>2, <2>6, Zenon DEF mouse_items
        <3>2. q.shown => (Offers(p) <=> alloy_light_available)
            BY <2>6, Zenon DEF Offers
        <3> QED BY <3>1, <3>2, GatewayList
    <2>7. CASE q.id = "levels"
        <3>1. s = levels_items
            BY <2>2, <2>7, Zenon DEF mouse_items
        <3>2. q.shown => (Offers(p) <=> drv.limit > 0)
            BY <2>7, Zenon DEF Offers
        <3> QED BY <1>0, <3>1, <3>2, LevelsList
    <2>8. CASE q.id = "power"
        <3>1. s = power_items
            BY <2>2, <2>8, Zenon DEF mouse_items
        <3>2. q.shown => (Offers(p) <=> TRUE)
            BY <2>8, Zenon DEF Offers
        <3> QED BY <3>1, <3>2, PowerList
    <2>9. CASE q.id = "tuning"
        <3>1. s = tuning_items
            BY <2>2, <2>9, Zenon DEF mouse_items
        <3>2. q.shown => (Offers(p) <=> TRUE)
            BY <2>9, Zenon DEF Offers
        <3> QED BY <1>0, <3>1, <3>2, TuningList
    <2> QED BY <2>1, <2>3, <2>4, <2>5, <2>6, <2>7, <2>8, <2>9
<1>3. CASE screen # "light" /\ drv.kind # "mouse"
    <2>1. q.id \in {"center", "controls"}
        BY <1>3, PanesAre
    <2>2. s = keyboard_items(q)
        BY <1>3 DEF tui_pane_items
    <2>3. CASE q.id = "center"
        <3>1. s = alloy_light_gateway
            BY <2>2, <2>3, Zenon DEF keyboard_items
        <3>2. q.shown => (Offers(p) <=> alloy_light_available)
            BY <2>3, Zenon DEF Offers
        <3> QED BY <3>1, <3>2, GatewayList
    <2>4. CASE q.id = "controls"
        <3>1. s = controls_items
            BY <2>2, <2>4, Zenon DEF keyboard_items
        <3>2. q.shown => (Offers(p) <=> {"brightness", "snap", "profile"} \cap drv.caps # {} \/ drv.rates > 0)
            BY <2>4, Zenon DEF Offers
        <3> QED BY <1>0, <3>1, <3>2, ControlsList
    <2> QED BY <2>1, <2>3, <2>4
<1> QED BY <1>1, <1>2, <1>3

\* the items of a list one can move to
LEMMA SlotsOf ==
    ASSUME NEW s, WellFormed(s)
    PROVE  /\ tui_pane_slots(s) \in SUBSET Nat /\ IsFiniteSet(tui_pane_slots(s))
           /\ Cardinality(tui_pane_slots(s)) \in Nat
           /\ tui_pane_slots(s) # {} <=> Cardinality(tui_pane_slots(s)) > 0
           /\ tui_pane_slots(s) # {} <=> Some(s)
           /\ \A k \in tui_pane_slots(s) : k \in 1..Len(s) /\ item_selectable(s[k]) /\ Shape(s[k])
<1> DEFINE S == tui_pane_slots(s)
<1>2. S = {k \in DOMAIN s : item_selectable(s[k])}
    BY DEF tui_pane_slots
<1> HIDE DEF S
<1>3. Len(s) \in Nat /\ DOMAIN s = 1..Len(s)
    BY DEF WellFormed, Sequence
<1>4. S \in SUBSET Nat /\ S \in SUBSET (1..Len(s))
    BY <1>2, <1>3
<1>5. IsFiniteSet(S) /\ Cardinality(S) \in Nat
    <2>1. 1 \in Int /\ Len(s) \in Int
        BY <1>3
    <2>2. IsFiniteSet(1..Len(s))
        BY <2>1, FS_Interval
    <2> QED BY <1>4, <2>2, FS_Subset, FS_CardinalityType
<1>6. S # {} <=> Cardinality(S) > 0
    BY <1>5, FS_EmptySet
<1>7. S # {} <=> Some(s)
    BY <1>2, <1>3 DEF Some
<1>8. \A k \in S : k \in 1..Len(s) /\ item_selectable(s[k]) /\ Shape(s[k])
    BY <1>2, <1>3 DEF WellFormed
<1> QED BY <1>4, <1>5, <1>6, <1>7, <1>8 DEF S

LEMMA OfferedPanes ==
    ASSUME Place, Settled(cfg), NEW p \in 1..(Footer - 1)
    PROVE  tui_pane_slot_count(p) > 0 <=> Offers(p)
<1> DEFINE s == tui_pane_items(Panes[p])
<1>1. WellFormed(s) /\ (Panes[p].shown => (Some(s) <=> Offers(p)))
    BY PaneItems
<1> HIDE DEF s
<1>2. Cardinality(tui_pane_slots(s)) > 0 <=> Some(s)
    BY <1>1, SlotsOf
<1>3. p # Footer
    <2>1. Footer \in Int
        BY PanesAre DEF Place
    <2> QED BY <2>1
<1>4. CASE Panes[p].shown
    BY <1>1, <1>2, <1>3, <1>4 DEF tui_pane_slot_count, s
<1>5. CASE ~Panes[p].shown
    <2>1. ~Offers(p)
        BY <1>5 DEF Offers
    <2> QED BY <1>3, <1>5, <2>1 DEF tui_pane_slot_count
<1> QED BY <1>4, <1>5

LEMMA MinMax ==
    \A a, b \in Int : /\ Min({a, b}) = IF a <= b THEN a ELSE b
                      /\ Max({a, b}) = IF a <= b THEN b ELSE a
<1> TAKE a \in Int, b \in Int
<1>1. Min({a, b}) = IF a <= b THEN a ELSE b
    <2> DEFINE m == IF a <= b THEN a ELSE b
    <2>1. m \in {a, b} /\ \A y \in {a, b} : m <= y
        OBVIOUS
    <2>2. \A x \in {a, b} : (\A y \in {a, b} : x <= y) => x = m
        OBVIOUS
    <2> HIDE DEF m
    <2>3. (CHOOSE x \in {a, b} : \A y \in {a, b} : x <= y) = m
        BY <2>1, <2>2, Zenon
    <2> QED BY <2>3 DEF Min, m
<1>2. Max({a, b}) = IF a <= b THEN b ELSE a
    <2> DEFINE m == IF a <= b THEN b ELSE a
    <2>1. m \in {a, b} /\ \A y \in {a, b} : m >= y
        OBVIOUS
    <2>2. \A x \in {a, b} : (\A y \in {a, b} : x >= y) => x = m
        OBVIOUS
    <2> HIDE DEF m
    <2>3. (CHOOSE x \in {a, b} : \A y \in {a, b} : x >= y) = m
        BY <2>1, <2>2, Zenon
    <2> QED BY <2>3 DEF Max, m
<1> QED BY <1>1, <1>2

\* the place a cursor c points at, in a list s
Pointed(s, c, k) ==
    /\ k \in tui_pane_slots(s)
    /\ Rank(tui_pane_slots(s), k) = IF c <= LastSlot(s) THEN c ELSE LastSlot(s)

LEMMA PointedIs ==
    ASSUME NEW s, WellFormed(s), NEW c \in Nat
    PROVE  /\ \A k : Pointed(s, c, k) => Slot(s, Min({c, LastSlot(s)})) = s[k]
           /\ tui_pane_slots(s) # {} => /\ \E k : Pointed(s, c, k)
                                        /\ Limit(c, 0, LastSlot(s)) = Min({c, LastSlot(s)})
<1> DEFINE last == LastSlot(s)
           n == IF c <= last THEN c ELSE last
<1>1. /\ tui_pane_slots(s) \in SUBSET Nat /\ IsFiniteSet(tui_pane_slots(s))
      /\ last \in Int /\ (tui_pane_slots(s) # {} => last \in Nat)
    BY SlotsOf DEF LastSlot
<1>2. Min({c, last}) = n
    BY <1>1, MinMax
<1>3. \A k : Pointed(s, c, k) => Slot(s, n) = s[k]
    BY <1>1, SlotIs DEF Pointed
<1>4. ASSUME tui_pane_slots(s) # {} PROVE \E k : Pointed(s, c, k)
    <2>1. n \in 0..last
        BY <1>1, <1>4
    <2>2. \A i \in 0..last : \E k \in tui_pane_slots(s) : Rank(tui_pane_slots(s), k) = i
        BY <1>1, SlotAt
    <2>3. PICK k \in tui_pane_slots(s) : Rank(tui_pane_slots(s), k) = n
        <3> HIDE DEF n
        <3> QED BY <2>1, <2>2
    <2> QED BY <2>3 DEF Pointed
<1>5. Limit(c, 0, last) = Min({c, last})
    <2>1. c \in Int /\ 0 \in Int
        OBVIOUS
    <2>2. Max({c, 0}) = IF c <= 0 THEN 0 ELSE c
        BY <2>1, MinMax
    <2>3. Max({c, 0}) = c
        BY <2>2
    <2> QED BY <2>3 DEF Limit
<1> QED BY <1>2, <1>3, <1>4, <1>5

\* the lit item is the one a key acts on, an item of the pane
LEMMA Focused ==
    ASSUME Place, At, Settled(cfg), focus # Footer
    PROVE  /\ WellFormed(Focus)
           /\ \A k : Pointed(Focus, cursor[focus], k) =>
                  /\ Lit(focus) = Focus[k]
                  /\ item_selectable(Lit(focus)) /\ Shape(Lit(focus))
           /\ tui_pane_slots(Focus) # {} =>
                  /\ \E k : Pointed(Focus, cursor[focus], k)
                  /\ focused_item(focus) = Lit(focus)
                  /\ item_selectable(Lit(focus)) /\ Shape(Lit(focus))
<1> DEFINE c == cursor[focus]
<1>1. focus \in 1..(Footer - 1) /\ focus \in 1..8
    BY PanesAre DEF Place, At
<1>2. c \in Nat
    BY <1>1 DEF At
<1>3. WellFormed(Focus)
    BY <1>1, PaneItems DEF Focus
<1>4. Lit(focus) = Slot(Focus, Min({c, LastSlot(Focus)}))
    BY DEF Lit, Focus
<1>5. focused_item(focus) = Slot(Focus, Limit(c, 0, LastSlot(Focus)))
    BY DEF focused_item, Focus
<1> HIDE DEF c
<1>6. \A k : Pointed(Focus, c, k) => Lit(focus) = Focus[k]
    BY <1>2, <1>3, <1>4, PointedIs
<1>7. \A k : Pointed(Focus, c, k) => item_selectable(Focus[k]) /\ Shape(Focus[k])
    BY <1>3, SlotsOf DEF Pointed
<1>8. tui_pane_slots(Focus) # {} => (\E k : Pointed(Focus, c, k)) /\ focused_item(focus) = Lit(focus)
    BY <1>2, <1>3, <1>4, <1>5, PointedIs
<1> QED BY <1>3, <1>6, <1>7, <1>8 DEF c

-----------------------------------------------------------------------------
(* Settings. *)

LEMMA Keys ==
    ASSUME drv \in Driver
    PROVE  /\ <<"count", 0>> \in Key(drv) /\ <<"groups", 0>> \in Key(drv) /\ <<"active", 0>> \in Key(drv)
           /\ \A z \in 1..drv.zones : <<"fx", z>> \in Key(drv)
           /\ "fx" \in ZoneSetting
           /\ ZoneSetting \cap ({"dpi", "button", "keys", "mode"} \cup Single) = {}
           /\ \A k \in Key(drv) : k[1] \in ZoneSetting => k \in ZoneSetting \X (1..drv.zones)
<1>1. CtrlName(drv) \cap ({"fx", "color", "dpi", "button", "keys", "mode"} \cup Single) = {}
    BY DriverAssumption
<1>2. ZoneSetting \cap ({"dpi", "button", "keys", "mode"} \cup Single) = {}
    BY <1>1 DEF ZoneSetting, Single
<1>3. ASSUME NEW k \in Key(drv), k[1] \in ZoneSetting PROVE k \in ZoneSetting \X (1..drv.zones)
    <2> DEFINE Z == {"fx", "color"} \cup CtrlName(drv)
    <2>1. CASE k \in Z \X (1..drv.zones)
        BY <2>1 DEF ZoneSetting
    <2>2. CASE k \in {"dpi"} \X (1..5)
        BY <1>2, <1>3, <2>2
    <2>3. CASE k \in {"button"} \X (1..drv.buttons)
        BY <1>2, <1>3, <2>3
    <2>4. CASE k \in {"keys", "mode"} \X (1..MaxGroups)
        BY <1>2, <1>3, <2>4
    <2>5. CASE k \in Single \X {0}
        <3>1. k[1] \in Single
            BY <2>5
        <3> QED BY <1>2, <1>3, <3>1
    <2> HIDE DEF Z
    <2> QED BY <2>1, <2>2, <2>3, <2>4, <2>5 DEF Key, Z
<1>4. /\ <<"count", 0>> \in Key(drv) /\ <<"groups", 0>> \in Key(drv) /\ <<"active", 0>> \in Key(drv)
    BY DEF Key, Single
<1>5. \A z \in 1..drv.zones : <<"fx", z>> \in Key(drv)
    BY DEF Key
<1>6. "fx" \in ZoneSetting
    BY DEF ZoneSetting
<1> QED BY <1>2, <1>3, <1>4, <1>5, <1>6

\* what the lit control is about, by what it does
LEMMA AboutIs ==
    ASSUME NEW it
    PROVE  /\ it.do \in {"adjust", "effect"} =>
                About(it) = IF it.set[1] \in ZoneSetting /\ "global" \in drv.caps
                            THEN ZoneSetting \X (1..drv.zones) ELSE {it.set}
           /\ it.do = "level" => About(it) = {it.set, <<"active", 0>>}
           /\ it.do = "remap" => About(it) = {<<"button", it.set[2]>>}
           /\ it.do = "create" => About(it) = {<<"count", 0>>} \cup ({"dpi"} \X (1..5))
           /\ it.do \in {"add", "del"} =>
                About(it) = {<<"groups", 0>>} \cup ({"keys", "mode"} \X (1..MaxGroups))
<1>1. ASSUME it.do \in {"adjust", "effect"}
      PROVE  About(it) = IF it.set[1] \in ZoneSetting /\ "global" \in drv.caps
                         THEN ZoneSetting \X (1..drv.zones) ELSE {it.set}
    <2>1. it.do \notin {"create", "add", "del", "remap", "level"}
        BY <1>1
    <2> QED BY <2>1, Zenon DEF About
<1>2. it.do = "level" => About(it) = {it.set, <<"active", 0>>}
    BY Zenon DEF About
<1>3. it.do = "remap" => About(it) = {<<"button", it.set[2]>>}
    BY Zenon DEF About
<1>4. it.do = "create" => About(it) = {<<"count", 0>>} \cup ({"dpi"} \X (1..5))
    BY Zenon DEF About
<1>5. it.do \in {"add", "del"} =>
          About(it) = {<<"groups", 0>>} \cup ({"keys", "mode"} \X (1..MaxGroups))
    BY Zenon DEF About
<1> QED BY <1>1, <1>2, <1>3, <1>4, <1>5

\* c differs from the settings only in what it is about
Within(c, it) == \A k \in DOMAIN cfg : c[k] # cfg[k] => k \in About(it)

LEMMA WrittenWithin ==
    ASSUME Place, Settled(cfg), NEW it, NEW v, it.do \in {"adjust", "effect", "level"},
           it.set[1] \notin {"count", "groups"},
           it.do = "level" => it.set[1] = "dpi",
           it.set[1] = "fx" => v \in 0..(drv.fx - 1)
    PROVE  Settled(Written(it, v)) /\ Within(Written(it, v), it)
<1> DEFINE c == [cfg EXCEPT ![it.set] = v]
           w == Written(it, v)
           mirrored == it.set[1] \in ZoneSetting /\ "global" \in drv.caps
<1>0. drv \in Driver
    BY DEF Place
<1>1. DOMAIN cfg = Key(drv) /\ DOMAIN c = Key(drv)
    BY DEF Settled
<1>2. \A k \in Key(drv) : c[k] = IF k = it.set THEN v ELSE cfg[k]
    BY <1>1
<1>3. /\ c[<<"count", 0>>] = cfg[<<"count", 0>>] /\ c[<<"groups", 0>>] = cfg[<<"groups", 0>>]
    BY <1>0, <1>2, Keys
<1>4. \A z \in 1..drv.zones : c[<<"fx", z>>] \in 0..(drv.fx - 1)
    <2> TAKE z \in 1..drv.zones
    <2>1. <<"fx", z>> \in Key(drv)
        BY <1>0, Keys
    <2>2. <<"fx", z>> = it.set => it.set[1] = "fx"
        OBVIOUS
    <2> QED BY <1>2, <2>1, <2>2 DEF Settled
<1> HIDE DEF c
<1>5. CASE ~mirrored
    <2>1. w = c
        BY <1>5 DEF Written, Mirrored, c
    <2>2. About(it) = {it.set} \/ About(it) = {it.set, <<"active", 0>>}
        BY <1>5, AboutIs
    <2>3. Within(c, it)
        BY <1>1, <1>2, <2>2 DEF Within
    <2> HIDE DEF w
    <2> QED BY <1>1, <1>3, <1>4, <2>1, <2>3 DEF Settled, w
<1>6. CASE mirrored
    <2>1. w = [k \in Key(drv) |-> IF k[1] \in ZoneSetting THEN c[<<k[1], zone>>] ELSE c[k]]
        BY <1>1, <1>6 DEF Written, Mirrored, c
    <2>2. ZoneSetting \cap ({"dpi", "button", "keys", "mode"} \cup Single) = {}
        BY <1>0, Keys
    <2>3. {"count", "groups", "active"} \cap ZoneSetting = {}
        BY <2>2 DEF Single
    <2> HIDE DEF w
    <2>4. w[<<"count", 0>>] = cfg[<<"count", 0>>] /\ w[<<"groups", 0>>] = cfg[<<"groups", 0>>]
        BY <1>0, <1>3, <2>1, <2>3, Keys
    <2>5. \A z \in 1..drv.zones : w[<<"fx", z>>] \in 0..(drv.fx - 1)
        <3> TAKE z \in 1..drv.zones
        <3>1. <<"fx", z>> \in Key(drv) /\ "fx" \in ZoneSetting
            BY <1>0, Keys
        <3>2. w[<<"fx", z>>] = c[<<"fx", zone>>]
            BY <2>1, <3>1
        <3>3. zone \in 1..drv.zones
            BY DriverAssumption DEF Place
        <3> QED BY <1>4, <3>2, <3>3
    <2>6. Settled(w)
        <3>1. DOMAIN w = Key(drv)
            BY <2>1
        <3> QED BY <2>4, <2>5, <3>1 DEF Settled
    <2>7. it.do # "level"
        <3>1. "dpi" \notin ZoneSetting
            BY <2>2
        <3> QED BY <1>6, <3>1
    <2>8. About(it) = ZoneSetting \X (1..drv.zones)
        BY <1>6, <2>7, AboutIs
    <2>9. Within(w, it)
        <3> SUFFICES ASSUME NEW k \in Key(drv), w[k] # cfg[k] PROVE k \in ZoneSetting \X (1..drv.zones)
            BY <1>1, <2>8 DEF Within
        <3>1. CASE k[1] \in ZoneSetting
            BY <1>0, <3>1, Keys
        <3>2. CASE k[1] \notin ZoneSetting
            <4>1. w[k] = c[k]
                BY <2>1, <3>2
            <4>2. k # it.set
                BY <1>6, <3>2
            <4> QED BY <1>2, <4>1, <4>2
        <3> QED BY <3>1, <3>2
    <2> QED BY <2>6, <2>9 DEF w
<1> QED BY <1>5, <1>6

\* c is what an edit through the item may make of the settings
Edit(c, it) == Settled(c) /\ (c = cfg \/ (~it.off /\ Within(c, it)))

LEMMA NoEdit == ASSUME Settled(cfg), NEW it PROVE Edit(cfg, it)
BY DEF Edit

LEMMA PlainEdit ==
    ASSUME Place, Settled(cfg), NEW it, ~it.off, NEW v,
           \/ it.do = "adjust" /\ it.set[1] \notin {"fx", "count", "groups"}
           \/ it.do = "level" /\ it.set[1] = "dpi"
           \/ it.do = "effect" /\ it.set[1] = "fx" /\ v \in 0..(drv.fx - 1)
    PROVE  Edit(Written(it, v), it)
<1>1. /\ it.do \in {"adjust", "effect", "level"} /\ it.set[1] \notin {"count", "groups"}
      /\ it.do = "level" => it.set[1] = "dpi"
      /\ it.set[1] = "fx" => v \in 0..(drv.fx - 1)
    OBVIOUS
<1> QED BY <1>1, WrittenWithin DEF Edit

LEMMA AdjustEdit ==
    ASSUME Place, Settled(cfg), NEW it, Shape(it), item_selectable(it), NEW dir \in {-1, 1}, NEW big
    PROVE  Edit(tui_item_adjust(it, dir, big), it)
<1> DEFINE c == tui_item_adjust(it, dir, big)
<1>1. CASE it.kind = "button" \/ it.do = "remap" \/ it.off
    <2>1. c = cfg
        BY <1>1, Zenon DEF tui_item_adjust
    <2> QED BY <2>1, NoEdit
<1>2. CASE ~(it.kind = "button" \/ it.do = "remap" \/ it.off)
    <2>1. it.kind = "color" => \E v : c = Written(it, v)
        <3> SUFFICES ASSUME it.kind = "color" PROVE \E v : c = Written(it, v)
            OBVIOUS
        <3>1. c = color_adjust(it, dir * (IF big THEN 16 ELSE 1))
            BY <1>2, Zenon DEF tui_item_adjust
        <3> QED BY <3>1 DEF color_adjust
    <2>2. it.kind = "toggle" => \E v : c = Written(it, v)
        BY <1>2, Zenon DEF tui_item_adjust
    <2>3. it.kind = "choice" => c = Written(it, (cfg[it.set] + dir + it.n) % it.n)
        BY <1>2, Zenon DEF tui_item_adjust
    <2>4. it.kind \notin {"color", "toggle", "choice"} => \E v : c = Written(it, v)
        <3> SUFFICES ASSUME it.kind # "color", it.kind # "toggle", it.kind # "choice"
                     PROVE  \E v : c = Written(it, v)
            OBVIOUS
        <3> QED BY <1>2, Zenon DEF tui_item_adjust
    <2>5. ~it.off /\ (\/ it.do = "adjust" /\ it.set[1] \notin {"fx", "count", "groups"}
                      \/ it.do = "level" /\ it.set[1] = "dpi" /\ it.kind = "slider"
                      \/ /\ it.do = "effect" /\ it.kind = "choice" /\ it.set = <<"fx", zone>>
                         /\ it.n = drv.fx /\ zone \in 1..drv.zones)
        BY <1>2 DEF Shape
    <2> HIDE DEF c
    <2>6. CASE it.do = "adjust" \/ it.do = "level"
        <3>1. \E v : c = Written(it, v)
            BY <2>1, <2>2, <2>3, <2>4
        <3> QED BY <2>5, <2>6, <3>1, PlainEdit DEF c
    <2>7. CASE it.do = "effect"
        <3>1. /\ it.kind = "choice" /\ it.set = <<"fx", zone>> /\ it.n = drv.fx /\ zone \in 1..drv.zones
            BY <2>5, <2>7
        <3>2. cfg[<<"fx", zone>>] \in 0..(drv.fx - 1) /\ drv.fx \in Nat
            BY <3>1, DriverAssumption DEF Settled, Place
        <3>3. (cfg[it.set] + dir + it.n) % it.n \in 0..(drv.fx - 1)
            BY <3>1, <3>2
        <3>4. it.set[1] = "fx"
            BY <3>1
        <3> QED BY <2>3, <2>5, <2>7, <3>1, <3>3, <3>4, PlainEdit DEF c
    <2> QED BY <2>5, <2>6, <2>7
<1> QED BY <1>1, <1>2

LEMMA CreateEdit ==
    ASSUME Place, Settled(cfg), NEW it, it.do = "create", ~it.off
    PROVE  Edit(dpi_create, it)
<1> DEFINE n == cfg[<<"count", 0>>]
           v == (Limit(cfg[<<"dpi", n>>] * 2, drv.lo, drv.hi) \div drv.grid) * drv.grid
           c == [cfg EXCEPT ![<<"dpi", n + 1>>] = v, ![<<"count", 0>>] = n + 1]
<1>1. drv \in Driver /\ drv.limit \in 0..5 /\ n \in 0..drv.limit
    BY DriverAssumption DEF Place, Settled
<1>2. CASE n >= drv.limit
    <2>1. dpi_create = cfg
        BY <1>2 DEF dpi_create
    <2> QED BY <2>1, NoEdit
<1>3. CASE n < drv.limit
    <2>1. dpi_create = c
        BY <1>1, <1>3 DEF dpi_create
    <2> HIDE DEF v
    <2>2. /\ DOMAIN c = DOMAIN cfg
          /\ \A k \in DOMAIN cfg : k # <<"dpi", n + 1>> /\ k # <<"count", 0>> => c[k] = cfg[k]
          /\ <<"count", 0>> \in DOMAIN cfg => c[<<"count", 0>>] = n + 1
        OBVIOUS
    <2> HIDE DEF c
    <2>3. n + 1 \in 0..drv.limit /\ n + 1 \in 1..5
        BY <1>1, <1>3
    <2> HIDE DEF n
    <2>4. Settled(c)
        <3>1. DOMAIN c = Key(drv) /\ c[<<"count", 0>>] \in 0..drv.limit
            BY <1>1, <2>2, <2>3, Keys DEF Settled
        <3>2. c[<<"groups", 0>>] = cfg[<<"groups", 0>>]
            BY <1>1, <2>2, Keys DEF Settled
        <3>3. \A z \in 1..drv.zones : c[<<"fx", z>>] = cfg[<<"fx", z>>]
            BY <1>1, <2>2, Keys DEF Settled
        <3> QED BY <3>1, <3>2, <3>3 DEF Settled
    <2>5. Within(c, it)
        <3>1. About(it) = {<<"count", 0>>} \cup ({"dpi"} \X (1..5))
            BY AboutIs
        <3> QED BY <2>2, <2>3, <3>1 DEF Within
    <2> QED BY <2>1, <2>4, <2>5 DEF Edit
<1> QED BY <1>1, <1>2, <1>3

LEMMA GroupEdit ==
    ASSUME Place, Settled(cfg), NEW it, it.do \in {"add", "del"}, ~it.off
    PROVE  Edit(group_add, it) /\ Edit(group_del, it)
<1> DEFINE n == cfg[<<"groups", 0>>]
           q == n % drv.pairs
           a == [cfg EXCEPT ![<<"groups", 0>>] = n + 1, ![<<"mode", n + 1>>] = 0, ![<<"keys", n + 1>>] = q]
           d == [cfg EXCEPT ![<<"groups", 0>>] = n - 1]
<1>1. drv \in Driver /\ MaxGroups \in Nat /\ n \in 1..MaxGroups
    BY DriverAssumption DEF Place, Settled
<1>2. About(it) = {<<"groups", 0>>} \cup ({"keys", "mode"} \X (1..MaxGroups))
    BY AboutIs
<1>3. ASSUME NEW c, NEW m \in 1..MaxGroups, DOMAIN c = DOMAIN cfg,
             \A k \in DOMAIN cfg : k # <<"groups", 0>> /\ k \notin {"keys", "mode"} \X (1..MaxGroups) =>
                 c[k] = cfg[k],
             c[<<"groups", 0>>] = m
      PROVE  Edit(c, it)
    <2>1. DOMAIN c = Key(drv)
        BY <1>3 DEF Settled
    <2>2. c[<<"count", 0>>] = cfg[<<"count", 0>>]
        BY <1>1, <1>3, Keys DEF Settled
    <2>3. \A z \in 1..drv.zones : c[<<"fx", z>>] = cfg[<<"fx", z>>]
        BY <1>1, <1>3, Keys DEF Settled
    <2>4. Settled(c)
        BY <1>3, <2>1, <2>2, <2>3 DEF Settled
    <2>5. Within(c, it)
        BY <1>2, <1>3 DEF Within
    <2> QED BY <2>4, <2>5 DEF Edit
<1>4. <<"groups", 0>> \in DOMAIN cfg
    BY <1>1, Keys DEF Settled
<1>5. Edit(group_add, it)
    <2>1. CASE n >= MaxGroups
        <3>1. group_add = cfg
            BY <2>1 DEF group_add
        <3> QED BY <3>1, NoEdit
    <2>2. CASE n < MaxGroups
        <3>1. group_add = a
            BY <1>1, <2>2 DEF group_add
        <3> HIDE DEF q
        <3>2. n + 1 \in 1..MaxGroups
            BY <1>1, <2>2
        <3>3. /\ DOMAIN a = DOMAIN cfg /\ a[<<"groups", 0>>] = n + 1
              /\ \A k \in DOMAIN cfg :
                    k # <<"groups", 0>> /\ k # <<"mode", n + 1>> /\ k # <<"keys", n + 1>> => a[k] = cfg[k]
            BY <1>4
        <3> HIDE DEF a, n
        <3> QED BY <1>3, <3>1, <3>2, <3>3
    <2> QED BY <1>1, <2>1, <2>2
<1>6. Edit(group_del, it)
    <2>1. CASE n <= 1
        <3>1. group_del = cfg
            BY <2>1 DEF group_del
        <3> QED BY <3>1, NoEdit
    <2>2. CASE n > 1
        <3>1. group_del = d
            BY <1>1, <2>2 DEF group_del
        <3>2. n - 1 \in 1..MaxGroups
            BY <1>1, <2>2
        <3>3. /\ DOMAIN d = DOMAIN cfg /\ d[<<"groups", 0>>] = n - 1
              /\ \A k \in DOMAIN cfg : k # <<"groups", 0>> => d[k] = cfg[k]
            BY <1>4
        <3> HIDE DEF d, n
        <3> QED BY <1>3, <3>1, <3>2, <3>3
    <2> QED BY <1>1, <2>1, <2>2
<1> QED BY <1>5, <1>6

LEMMA LevelEdit ==
    ASSUME Place, Settled(cfg), NEW it, it.do = "level", ~it.off, NEW v
    PROVE  Edit([cfg EXCEPT ![<<"active", 0>>] = v], it)
<1> DEFINE c == [cfg EXCEPT ![<<"active", 0>>] = v]
<1>1. /\ DOMAIN c = DOMAIN cfg
      /\ \A k \in DOMAIN cfg : k # <<"active", 0>> => c[k] = cfg[k]
    OBVIOUS
<1> HIDE DEF c
<1>2. drv \in Driver
    BY DEF Place
<1>3. Settled(c)
    <2>1. DOMAIN c = Key(drv)
        BY <1>1 DEF Settled
    <2>2. c[<<"count", 0>>] = cfg[<<"count", 0>>] /\ c[<<"groups", 0>>] = cfg[<<"groups", 0>>]
        BY <1>1, <1>2, Keys DEF Settled
    <2>3. \A z \in 1..drv.zones : c[<<"fx", z>>] = cfg[<<"fx", z>>]
        BY <1>1, <1>2, Keys DEF Settled
    <2> QED BY <2>1, <2>2, <2>3 DEF Settled
<1>4. Within(c, it)
    <2>1. About(it) = {it.set, <<"active", 0>>}
        BY AboutIs
    <2> QED BY <1>1, <2>1 DEF Within
<1> QED BY <1>3, <1>4 DEF Edit, c

LEMMA ActivateEdit ==
    ASSUME Place, Settled(cfg), NEW it, Shape(it), item_selectable(it), NEW swatch
    PROVE  Edit(tui_item_activate(it, swatch), it)
<1> DEFINE c == tui_item_activate(it, swatch)
           live == it.do = "adjust" /\ ~it.off
<1>1. CASE it.do = "level"
    <2>1. c = [cfg EXCEPT ![<<"active", 0>>] = it.set[2] - 1]
        BY <1>1, Zenon DEF tui_item_activate
    <2>2. ~it.off
        BY <1>1 DEF Shape
    <2> QED BY <1>1, <2>1, <2>2, LevelEdit
<1>2. CASE it.do = "create"
    <2>1. c = dpi_create
        BY <1>2, Zenon DEF tui_item_activate
    <2>2. ~it.off
        BY <1>2 DEF Shape
    <2> QED BY <1>2, <2>1, <2>2, CreateEdit
<1>3. CASE it.do \in {"add", "del"}
    <2>1. c = group_add \/ c = group_del
        <3>1. CASE it.do = "add"
            BY <3>1, Zenon DEF tui_item_activate
        <3>2. CASE it.do = "del"
            BY <3>2, Zenon DEF tui_item_activate
        <3> QED BY <1>3, <3>1, <3>2
    <2>2. ~it.off
        BY <1>3 DEF Shape
    <2> QED BY <1>3, <2>1, <2>2, GroupEdit
<1>4. CASE live
    <2>1. c = cfg \/ \E v : c = Written(it, v)
        <3>1. CASE it.kind = "color"
            BY <1>4, <3>1, Zenon DEF tui_item_activate
        <3>2. CASE it.kind = "toggle"
            BY <1>4, <3>2, Zenon DEF tui_item_activate
        <3>3. CASE it.kind = "choice"
            BY <1>4, <3>3, Zenon DEF tui_item_activate
        <3>4. CASE it.kind # "color" /\ it.kind # "toggle" /\ it.kind # "choice"
            BY <1>4, <3>4, Zenon DEF tui_item_activate
        <3> QED BY <3>1, <3>2, <3>3, <3>4
    <2>2. it.set[1] \notin {"fx", "count", "groups"}
        BY <1>4 DEF Shape
    <2> HIDE DEF c
    <2>3. \A v : Edit(Written(it, v), it)
        BY <1>4, <2>2, PlainEdit
    <2> QED BY <2>1, <2>3, NoEdit DEF c
<1>5. CASE ~live /\ it.do \notin {"level", "create", "add", "del"}
    <2>1. c = cfg
        BY <1>5, Zenon DEF tui_item_activate
    <2> QED BY <2>1, NoEdit
<1> QED BY <1>1, <1>2, <1>3, <1>4, <1>5

-----------------------------------------------------------------------------
(* What the items depend on. *)

PaneList ==
    IF screen = "light" THEN <<effects_items, preview_items>>
    ELSE IF drv.kind = "mouse"
    THEN <<actions_items, <<Button("macro", 0)>>, <<Static(3)>>, alloy_light_gateway, levels_items,
           power_items, tuning_items>>
    ELSE <<alloy_light_gateway, controls_items>>
FocusListed == Place /\ At /\ focus # Footer => Focus = PaneList[focus]

LEMMA FocusIsListed == FocusListed
<1> SUFFICES ASSUME Place, At, focus # Footer PROVE Focus = PaneList[focus]
    BY DEF FocusListed
<1> DEFINE q == Panes[focus]
<1>1. CASE screen = "light"
    <2>1. (focus = 1 /\ q.id = "effects") \/ (focus = 2 /\ q.id = "preview")
        BY <1>1, PanesAre DEF At
    <2>2. PaneList = <<effects_items, preview_items>>
        BY <1>1 DEF PaneList
    <2>3. Focus = alloy_light_items(q)
        BY <1>1 DEF Focus, tui_pane_items
    <2>4. q.id = "effects" => Focus = effects_items
        BY <2>3, Zenon DEF alloy_light_items
    <2>5. q.id = "preview" => Focus = preview_items
        BY <2>3, Zenon DEF alloy_light_items
    <2> QED BY <2>1, <2>2, <2>4, <2>5
<1>2. CASE screen # "light" /\ drv.kind = "mouse"
    <2>1. focus \in 1..7
        BY <1>2, PanesAre DEF At
    <2>2. PaneList = <<actions_items, <<Button("macro", 0)>>, <<Static(3)>>, alloy_light_gateway,
                       levels_items, power_items, tuning_items>>
        BY <1>2 DEF PaneList
    <2>3. Focus = mouse_items(q)
        BY <1>2 DEF Focus, tui_pane_items
    <2>4. /\ q.id = "actions" => Focus = actions_items
          /\ q.id = "macro" => Focus = <<Button("macro", 0)>>
          /\ q.id = "device" => Focus = <<Static(3)>>
          /\ q.id = "center" => Focus = alloy_light_gateway
          /\ q.id = "levels" => Focus = levels_items
          /\ q.id = "power" => Focus = power_items
          /\ q.id = "tuning" => Focus = tuning_items
        <3>1. q.id = "actions" => Focus = actions_items
            BY <2>3, Zenon DEF mouse_items
        <3>2. q.id = "macro" => Focus = <<Button("macro", 0)>>
            BY <2>3, Zenon DEF mouse_items
        <3>3. q.id = "device" => Focus = <<Static(3)>>
            BY <2>3, Zenon DEF mouse_items
        <3>4. q.id = "center" => Focus = alloy_light_gateway
            BY <2>3, Zenon DEF mouse_items
        <3>5. q.id = "levels" => Focus = levels_items
            BY <2>3, Zenon DEF mouse_items
        <3>6. q.id = "power" => Focus = power_items
            BY <2>3, Zenon DEF mouse_items
        <3>7. q.id = "tuning" => Focus = tuning_items
            BY <2>3, Zenon DEF mouse_items
        <3> QED BY <3>1, <3>2, <3>3, <3>4, <3>5, <3>6, <3>7
    <2>5. /\ focus = 1 => q.id = "actions"
          /\ focus = 2 => q.id = "macro"
          /\ focus = 3 => q.id = "device"
          /\ focus = 4 => q.id = "center"
          /\ focus = 5 => q.id = "levels"
          /\ focus = 6 => q.id = "power"
          /\ focus = 7 => q.id = "tuning"
        BY <1>2, PanesAre
    <2> HIDE DEF q
    <2> QED BY <2>1, <2>2, <2>4, <2>5
<1>3. CASE screen # "light" /\ drv.kind # "mouse"
    <2>1. (focus = 1 /\ q.id = "center") \/ (focus = 2 /\ q.id = "controls")
        BY <1>3, PanesAre DEF At
    <2>2. PaneList = <<alloy_light_gateway, controls_items>>
        BY <1>3 DEF PaneList
    <2>3. Focus = keyboard_items(q)
        BY <1>3 DEF Focus, tui_pane_items
    <2>4. q.id = "center" => Focus = alloy_light_gateway
        BY <2>3, Zenon DEF keyboard_items
    <2>5. q.id = "controls" => Focus = controls_items
        BY <2>3, Zenon DEF keyboard_items
    <2> QED BY <2>1, <2>2, <2>4, <2>5
<1> QED BY <1>1, <1>2, <1>3

\* nothing but the device, the screen, the zone and the settings
LEMMA SameLists ==
    ASSUME UNCHANGED <<drv, screen, zone, cfg>>
    PROVE  PaneList' = PaneList
<1>1. actions_items' = actions_items
    BY DEF actions_items, Each
<1>2. levels_items' = levels_items
    BY DEF levels_items, EachTwo, If
<1>3. alloy_light_gateway' = alloy_light_gateway
    BY DEF alloy_light_gateway, alloy_light_available, If
<1>4. alloy_widget_polling' = alloy_widget_polling
    BY DEF alloy_widget_polling, If
<1>5. alloy_widget_brightness' = alloy_widget_brightness
    BY DEF alloy_widget_brightness, If
<1>6. tuning_items' = tuning_items
    BY <1>4 DEF tuning_items
<1>7. power_items' = power_items
    BY DEF power_items
<1>8. preview_items' = preview_items
    BY DEF preview_items, Each
<1>9. controls_items' = controls_items
    BY <1>4, <1>5 DEF controls_items, EachTwo, If
<1>10. effects_items' = effects_items
    BY <1>5 DEF effects_items, light_ctrls, fx_has_color, Each, If
<1> QED BY <1>1, <1>2, <1>3, <1>6, <1>7, <1>8, <1>9, <1>10 DEF PaneList

LEMMA SamePanes ==
    ASSUME UNCHANGED <<drv, screen>>
    PROVE  Panes' = Panes /\ Footer' = Footer
<1>1. Panes' = Panes
    BY DEF Panes, PanesOf
<1> QED BY <1>1 DEF Footer

-----------------------------------------------------------------------------
(* What a key does to the settings. *)

LEMMA ButtonEdit ==
    ASSUME Place, Settled(cfg), NEW it, it.do = "remap", ~it.off, NEW v
    PROVE  Edit([cfg EXCEPT ![<<"button", it.set[2]>>] = v], it)
<1> DEFINE key == <<"button", it.set[2]>>
           c == [cfg EXCEPT ![key] = v]
<1>1. /\ DOMAIN c = DOMAIN cfg
      /\ \A k \in DOMAIN cfg : k # key => c[k] = cfg[k]
    OBVIOUS
<1> HIDE DEF c
<1>2. drv \in Driver
    BY DEF Place
<1>3. Settled(c)
    <2>1. DOMAIN c = Key(drv)
        BY <1>1 DEF Settled
    <2>2. c[<<"count", 0>>] = cfg[<<"count", 0>>] /\ c[<<"groups", 0>>] = cfg[<<"groups", 0>>]
        BY <1>1, <1>2, Keys DEF Settled
    <2>3. \A z \in 1..drv.zones : c[<<"fx", z>>] = cfg[<<"fx", z>>]
        BY <1>1, <1>2, Keys DEF Settled
    <2> QED BY <2>1, <2>2, <2>3 DEF Settled
<1>4. Within(c, it)
    <2>1. About(it) = {key}
        BY AboutIs
    <2> QED BY <1>1, <2>1 DEF Within
<1> QED BY <1>3, <1>4 DEF Edit, c

\* what the lit item is, when there is one
LEMMA LitIs ==
    ASSUME Place, At, Settled(cfg), focus # Footer, tui_pane_slots(Focus) # {}
    PROVE  /\ focused_item(focus) = FocusLit
           /\ item_selectable(FocusLit) /\ Shape(FocusLit)
BY Focused DEF FocusLit

\* how a step may change the settings
Change(c) == /\ Settled(c)
             /\ \/ c = cfg \/ c = baseline
                \/ focus # Footer /\ Edit(c, FocusLit)

LEMMA Changes ==
    ASSUME MenuInv, [Next]_vars
    PROVE  Change(cfg')
<1>0. /\ Place /\ At /\ Settled(cfg) /\ Settled(baseline) /\ FocusOffers /\ Dialogs
    BY DEF MenuInv
<1>1. CASE cfg' = cfg
    BY <1>0, <1>1 DEF Change
<1>2. CASE cfg' = baseline
    BY <1>0, <1>2 DEF Change
<1>3. ASSUME focus # Footer, Edit(cfg', FocusLit) PROVE Change(cfg')
    BY <1>3 DEF Change, Edit
<1>4. ASSUME Idle, have
      PROVE  /\ focus # Footer /\ tui_pane_slots(Focus) # {}
             /\ focused_item(focus) = FocusLit /\ item_selectable(FocusLit) /\ Shape(FocusLit)
    <2>1. focus # Footer /\ tui_pane_slots(Focus) # {}
        BY <1>4 DEF have, Focus
    <2> QED BY <1>0, <2>1, LitIs
<1>5. CASE AdjustKey
    <2>1. Idle /\ have
        BY <1>5 DEF AdjustKey
    <2>2. PICK dir \in {-1, 1}, big \in BOOLEAN : cfg' = tui_item_adjust(FocusLit, dir, big)
        BY <1>4, <1>5, <2>1 DEF AdjustKey, Commit
    <2>3. Edit(cfg', FocusLit)
        BY <1>0, <1>4, <2>1, <2>2, AdjustEdit
    <2> QED BY <1>3, <1>4, <2>1, <2>3
<1>6. CASE EnterKey
    <2>1. Idle /\ have
        BY <1>6 DEF EnterKey
    <2>2. PICK swatch \in Palette : cfg' = tui_item_activate(FocusLit, swatch)
        BY <1>4, <1>6, <2>1 DEF EnterKey, Commit
    <2>3. Edit(cfg', FocusLit)
        BY <1>0, <1>4, <2>1, <2>2, ActivateEdit
    <2> QED BY <1>3, <1>4, <2>1, <2>3
<1>7. ASSUME Open({"hex", "effect", "remap", "capture"})
      PROVE  /\ focus # Footer /\ ~FocusLit.off /\ modal.it.set = FocusLit.set
             /\ modal.kind = "hex" => FocusLit.kind = "color"
             /\ modal.kind = "effect" => FocusLit.do = "effect" /\ modal.n = drv.fx
             /\ modal.kind \in {"remap", "capture"} => FocusLit.do = "remap"
             /\ item_selectable(FocusLit) /\ Shape(FocusLit)
    <2>1. /\ focus # Footer /\ tui_pane_slots(Focus) # {}
          /\ ~FocusLit.off /\ modal.it.set = FocusLit.set
          /\ modal.kind = "hex" => FocusLit.kind = "color"
          /\ modal.kind = "effect" => FocusLit.do = "effect" /\ modal.n = drv.fx
          /\ modal.kind \in {"remap", "capture"} => FocusLit.do = "remap"
        BY <1>0, <1>7 DEF Dialogs, Open
    <2> QED BY <1>0, <2>1, LitIs
<1>8. CASE EffectPick
    <2>1. Open({"hex", "effect", "remap", "capture"}) /\ modal.kind = "effect"
        BY <1>8 DEF EffectPick, Open
    <2>2. PICK sel \in Chosen : cfg' = Written(modal.it, sel)
        BY <1>8 DEF EffectPick, Commit
    <2>3. Written(modal.it, sel) = Written(FocusLit, sel)
        BY <1>7, <2>1 DEF Written
    <2>4. FocusLit.do = "effect" /\ FocusLit.set[1] = "fx" /\ ~FocusLit.off /\ sel \in 0..(drv.fx - 1)
        <3>1. FocusLit.do = "effect" /\ FocusLit.set = <<"fx", zone>>
            BY <1>7, <2>1 DEF Shape
        <3>2. sel \in 0..(drv.fx - 1)
            BY <1>7, <2>1 DEF Chosen
        <3> QED BY <1>7, <2>1, <3>1, <3>2
    <2>5. Edit(Written(FocusLit, sel), FocusLit)
        BY <1>0, <2>4, PlainEdit
    <2> QED BY <1>3, <1>7, <2>1, <2>2, <2>3, <2>5
<1>9. CASE HexTyped
    <2>1. Open({"hex", "effect", "remap", "capture"}) /\ modal.kind = "hex"
        BY <1>9 DEF HexTyped, Open
    <2>2. cfg' = cfg \/ \E v : cfg' = Written(modal.it, v)
        BY <1>9 DEF HexTyped, Commit
    <2>3. ASSUME NEW v PROVE Edit(Written(modal.it, v), FocusLit)
        <3>1. Written(modal.it, v) = Written(FocusLit, v)
            BY <1>7, <2>1 DEF Written
        <3>2. FocusLit.do = "adjust" /\ FocusLit.set[1] \notin {"fx", "count", "groups"} /\ ~FocusLit.off
            BY <1>7, <2>1 DEF Shape, Plain
        <3> QED BY <1>0, <3>1, <3>2, PlainEdit
    <2> QED BY <1>1, <1>3, <1>7, <2>1, <2>2, <2>3
<1>10. CASE RemapPick \/ KeyCaptured
    <2>1. Open({"hex", "effect", "remap", "capture"}) /\ modal.kind \in {"remap", "capture"}
        BY <1>10 DEF RemapPick, KeyCaptured, Open
    <2>2. cfg' = cfg \/ \E v : cfg' = [cfg EXCEPT ![<<"button", modal.it.set[2]>>] = v]
        BY <1>10 DEF RemapPick, KeyCaptured, Commit
    <2>3. ASSUME NEW v PROVE Edit([cfg EXCEPT ![<<"button", modal.it.set[2]>>] = v], FocusLit)
        BY <1>0, <1>7, <2>1, ButtonEdit
    <2> QED BY <1>1, <1>3, <1>7, <2>1, <2>2, <2>3
<1>11. CASE EscKey \/ QuitKey \/ focus_step \/ CursorKey \/ HexKey \/ SaveKey \/ Dismiss
    <2>1. cfg' = cfg
        BY <1>11 DEF EscKey, QuitKey, focus_step, CursorKey, HexKey, SaveKey, Dismiss
    <2> QED BY <1>1, <2>1
<1>12. CASE FooterRevert
    BY <1>2, <1>12 DEF FooterRevert
<1>13. CASE tui_modal_confirm_quit
    <2>1. cfg' = cfg \/ cfg' = baseline
        BY <1>13 DEF tui_modal_confirm_quit
    <2> QED BY <1>1, <1>2, <2>1
<1>14. CASE UNCHANGED vars
    BY <1>1, <1>14 DEF vars
<1> QED
    BY <1>5, <1>6, <1>8, <1>9, <1>10, <1>11, <1>12, <1>13, <1>14 DEF Next, FrameKey, DialogKey

-----------------------------------------------------------------------------
(* Where the focus goes. *)

\* a pane found first is one of those that were found
LEMMA LeastOf == \A S \in SUBSET (1..8) : S # {} => Min(S) \in S
<1> SUFFICES ASSUME NEW S \in SUBSET (1..8), S # {} PROVE Min(S) \in S
    OBVIOUS
<1>1. \E x \in S : \A y \in S : x <= y
    <2>1. CASE 1 \in S
        <3>1. \A y \in S : 1 <= y
            OBVIOUS
        <3> QED BY <2>1, <3>1
    <2>2. CASE 1 \notin S /\ 2 \in S
        <3>1. \A y \in S : 2 <= y
            BY <2>2
        <3> QED BY <2>2, <3>1
    <2>3. CASE S \cap 1..2 = {} /\ 3 \in S
        <3>1. \A y \in S : 3 <= y
            BY <2>3
        <3> QED BY <2>3, <3>1
    <2>4. CASE S \cap 1..3 = {} /\ 4 \in S
        <3>1. \A y \in S : 4 <= y
            BY <2>4
        <3> QED BY <2>4, <3>1
    <2>5. CASE S \cap 1..4 = {} /\ 5 \in S
        <3>1. \A y \in S : 5 <= y
            BY <2>5
        <3> QED BY <2>5, <3>1
    <2>6. CASE S \cap 1..5 = {} /\ 6 \in S
        <3>1. \A y \in S : 6 <= y
            BY <2>6
        <3> QED BY <2>6, <3>1
    <2>7. CASE S \cap 1..6 = {} /\ 7 \in S
        <3>1. \A y \in S : 7 <= y
            BY <2>7
        <3> QED BY <2>7, <3>1
    <2>8. CASE S \cap 1..7 = {}
        <3>1. \A y \in S : y = 8 /\ 8 <= y
            BY <2>8
        <3>2. 8 \in S
            BY <3>1
        <3> QED BY <3>1, <3>2
    <2> QED BY <2>1, <2>2, <2>3, <2>4, <2>5, <2>6, <2>7, <2>8
<1>2. (CHOOSE x \in S : \A y \in S : x <= y) \in S
    BY <1>1, Zenon
<1> QED BY <1>2 DEF Min

\* the first pane of a screen one can go to offers something
FirstOffers == Place =>
    /\ Footer \in {3, 8}
    /\ screen = "light" \/ alloy_light_available => Offers(1)

LEMMA FirstPane == FirstOffers
<1> SUFFICES ASSUME Place
             PROVE  /\ Footer \in {3, 8}
                    /\ screen = "light" \/ alloy_light_available => Offers(1)
    BY DEF FirstOffers
<1>1. CASE screen = "light"
    BY <1>1, PanesAre DEF Offers
<1>2. CASE screen # "light" /\ drv.kind = "mouse"
    <2>1. alloy_light_available => drv.buttons > 0
        BY <1>2, LightHasZones, DriverAssumption DEF Place
    <2> QED BY <1>2, <2>1, PanesAre DEF Offers
<1>3. CASE screen # "light" /\ drv.kind # "mouse"
    BY <1>3, PanesAre DEF Offers
<1> QED BY <1>1, <1>2, <1>3

\* the footer always offers its buttons
LEMMA Selectables ==
    ASSUME Place, Settled(cfg)
    PROVE  /\ Footer \in {3, 8} /\ tui_pane_slot_count(Footer) > 0
           /\ \A p \in 1..Footer : tui_pane_slot_count(p) > 0 <=> (p = Footer \/ Offers(p))
<1>1. Footer \in {3, 8}
    BY FirstPane DEF FirstOffers
<1>2. tui_pane_slot_count(Footer) = 3
    BY DEF tui_pane_slot_count
<1>3. \A p \in 1..(Footer - 1) : tui_pane_slot_count(p) > 0 <=> Offers(p)
    BY OfferedPanes
<1>4. \A p \in 1..Footer : p = Footer \/ p \in 1..(Footer - 1)
    BY <1>1
<1>5. \A p \in 1..(Footer - 1) : p # Footer
    BY <1>1
<1> QED BY <1>1, <1>2, <1>3, <1>4, <1>5

LEMMA Start == Init => MenuInv
<1> SUFFICES ASSUME Init PROVE MenuInv
    OBVIOUS
<1>1. /\ drv \in Driver /\ screen = "main" /\ cursor = [p \in 1..8 |-> 0] /\ zone = 1
      /\ cfg = Defaults(drv) /\ baseline = cfg /\ modal = <<>>
      /\ focus = Min({p \in 1..Footer : tui_pane_slot_count(p) > 0})
    BY DEF Init
<1>2. Place
    <2>1. drv.zones > 0 => 1 \in 1..drv.zones
        BY <1>1, DriverAssumption
    <2> QED BY <1>1, <2>1 DEF Place, Screens
<1>3. Settled(cfg)
    <2>1. /\ CtrlName(drv) \cap ({"fx", "color", "dpi", "button", "keys", "mode"} \cup Single) = {}
          /\ drv.levels \in 0..drv.limit /\ drv.groups \in 1..MaxGroups
          /\ drv.zones \in Nat /\ drv.fx \in Nat /\ (drv.zones > 0 => drv.fx > 0)
        BY <1>1, DriverAssumption
    <2>2. {"count", "groups", "fx"} \cap CtrlName(drv) = {}
        BY <2>1 DEF Single
    <2>3. DOMAIN cfg = Key(drv)
        BY <1>1 DEF Defaults
    <2> DEFINE val(k) == CASE k[1] = "color" -> <<255, 0, 128>>
                           [] k[1] \in CtrlName(drv) -> 3
                           [] k[1] = "dpi" -> IF k[2] <= drv.levels THEN 800 * k[2] ELSE 0
                           [] k[1] = "button" -> 9
                           [] k[1] = "brightness" -> 100
                           [] k[1] = "sleep" -> 5
                           [] k[1] = "groups" -> drv.groups
                           [] k[1] = "profile" -> 1
                           [] k[1] = "count" -> drv.levels
                           [] OTHER -> 0
    <2>4. \A k \in Key(drv) : cfg[k] = val(k)
        BY <1>1, Zenon DEF Defaults
    <2>5. \A k : /\ k[1] = "count" => val(k) = drv.levels
                 /\ k[1] = "groups" => val(k) = drv.groups
                 /\ k[1] = "fx" => val(k) = 0
        <3> TAKE k
        <3>1. k[1] = "count" => val(k) = drv.levels
            <4> SUFFICES ASSUME k[1] = "count" PROVE val(k) = drv.levels
                OBVIOUS
            <4>1. k[1] \notin CtrlName(drv) /\ k[1] # "color"
                BY <2>2
            <4> QED BY <4>1, Zenon
        <3>2. k[1] = "groups" => val(k) = drv.groups
            <4> SUFFICES ASSUME k[1] = "groups" PROVE val(k) = drv.groups
                OBVIOUS
            <4>1. k[1] \notin CtrlName(drv) /\ k[1] # "color"
                BY <2>2
            <4> QED BY <4>1, Zenon
        <3>3. k[1] = "fx" => val(k) = 0
            <4> SUFFICES ASSUME k[1] = "fx" PROVE val(k) = 0
                OBVIOUS
            <4>1. k[1] \notin CtrlName(drv) /\ k[1] # "color"
                BY <2>2
            <4> QED BY <4>1, Zenon
        <3> QED BY <3>1, <3>2, <3>3
    <2> HIDE DEF val
    <2>6. cfg[<<"count", 0>>] = drv.levels /\ cfg[<<"groups", 0>>] = drv.groups
        BY <1>1, <2>4, <2>5, Keys
    <2>7. \A z \in 1..drv.zones : cfg[<<"fx", z>>] = 0
        BY <1>1, <2>4, <2>5, Keys
    <2>8. \A z \in 1..drv.zones : 0 \in 0..(drv.fx - 1)
        BY <2>1
    <2> QED BY <2>1, <2>3, <2>6, <2>7, <2>8 DEF Settled
<1>4. focus \in 1..Footer /\ FocusOffers
    <2> DEFINE S == {p \in 1..Footer : tui_pane_slot_count(p) > 0}
    <2>1. Footer \in {3, 8} /\ Footer \in S
        BY <1>2, <1>3, Selectables
    <2>2. S \in SUBSET (1..8)
        BY <2>1
    <2>3. Min(S) \in S
        <3> HIDE DEF S
        <3> QED BY <2>1, <2>2, LeastOf
    <2> QED BY <1>1, <1>2, <1>3, <2>3, Selectables DEF FocusOffers
<1>5. At
    BY <1>1, <1>4 DEF At
<1>6. Dialogs
    BY <1>1 DEF Dialogs
<1> QED BY <1>1, <1>2, <1>3, <1>4, <1>5, <1>6 DEF MenuInv

\* a pane keeps offering while device and screen stay
LEMMA SameOffers ==
    ASSUME UNCHANGED <<drv, screen>>, focus' # Footer => Offers(focus')
    PROVE  FocusOffers'
<1>1. Panes' = Panes /\ Footer' = Footer
    BY SamePanes
<1>2. alloy_light_available' = alloy_light_available
    BY DEF alloy_light_available
<1>3. FocusOffers' <=> (focus' # Footer' => Offers(focus)')
    BY DEF FocusOffers
<1>4. Offers(focus)' <=> Offers(focus')
    BY <1>1, <1>2 DEF Offers
<1> QED BY <1>1, <1>3, <1>4

\* the first pane of a screen that was gone to
LEMMA WentTo ==
    ASSUME Place, Place', NEW s \in Screens, alloy_ui_goto_screen(s), drv' = drv,
           At, alloy_light_available
    PROVE  At' /\ FocusOffers'
<1>1. FirstOffers'
    BY FirstPane, PTL
<1>2. alloy_light_available'
    BY DEF alloy_light_available
<1>3. Footer' \in {3, 8} /\ Offers(1)'
    BY <1>1, <1>2 DEF FirstOffers
<1>4. focus' = 1 /\ cursor' \in [1..8 -> Nat]
    BY DEF alloy_ui_goto_screen, At
<1>5. At'
    BY <1>3, <1>4 DEF At
<1>6. FocusOffers'
    BY <1>3, <1>4 DEF FocusOffers, Offers
<1> QED BY <1>5, <1>6

LEMMA Stays ==
    ASSUME MenuInv, [Next]_vars
    PROVE  Place' /\ At' /\ FocusOffers'
<1>0. /\ Place /\ At /\ Settled(cfg) /\ FocusOffers
    BY DEF MenuInv
<1>1. ASSUME UNCHANGED <<drv, screen, zone>> PROVE Place'
    BY <1>0, <1>1 DEF Place, alloy_light_available
<1>2. Footer \in {3, 8}
    BY <1>0, Selectables
<1>3. CASE UNCHANGED <<drv, ui>>
    <2>1. UNCHANGED <<drv, screen, zone, focus, cursor>>
        BY <1>3 DEF ui
    <2>2. Footer' = Footer
        BY <2>1, SamePanes
    <2>3. At'
        BY <1>0, <2>1, <2>2 DEF At
    <2>4. FocusOffers'
        BY <1>0, <2>1, SameOffers DEF FocusOffers
    <2> QED BY <1>1, <2>1, <2>3, <2>4
<1>4. ASSUME alloy_ui_goto_screen("main"), screen # "main", drv' = drv
      PROVE  Place' /\ At' /\ FocusOffers'
    <2>1. alloy_light_available
        BY <1>0, <1>4 DEF Place, Screens
    <2>2. Place'
        BY <1>0, <1>4 DEF Place, Screens, alloy_ui_goto_screen
    <2> QED BY <1>0, <1>4, <2>1, <2>2, WentTo DEF Screens
<1>5. CASE EscKey
    BY <1>4, <1>5 DEF EscKey
<1>6. CASE QuitKey
    <2>1. CASE screen # "main"
        BY <1>4, <1>6, <2>1 DEF QuitKey
    <2>2. CASE screen = "main"
        BY <1>3, <1>6, <2>2 DEF QuitKey
    <2> QED BY <2>1, <2>2
<1>7. CASE focus_step
    <2>1. UNCHANGED <<drv, screen, cursor, zone>>
        BY <1>7 DEF focus_step
    <2>2. PICK dir \in {-1, 1} :
              LET at(k) == ((focus - 1 + dir * k) % Footer) + 1
                  found == {k \in 1..Footer : tui_pane_slot_count(at(k)) > 0}
              IN focus' = IF found = {} THEN 1 ELSE at(Min(found))
        BY <1>7 DEF focus_step
    <2> DEFINE at(k) == ((focus - 1 + dir * k) % Footer) + 1
               found == {k \in 1..Footer : tui_pane_slot_count(at(k)) > 0}
    <2>3. \A k \in 1..8 : at(k) \in 1..Footer
        <3> SUFFICES ASSUME NEW k \in 1..8 PROVE at(k) \in 1..Footer
            OBVIOUS
        <3>1. focus \in Int /\ dir * k \in Int
            BY <1>0, <1>2 DEF At
        <3> DEFINE n == focus - 1 + dir * k
        <3>2. n \in Int
            BY <3>1
        <3> HIDE DEF n
        <3>3. CASE Footer = 3
            BY <3>2, <3>3 DEF n
        <3>4. CASE Footer = 8
            BY <3>2, <3>4 DEF n
        <3> QED BY <1>2, <3>3, <3>4
    <2>4. \E k \in 1..Footer : at(k) = Footer
        <3>1. CASE Footer = 3
            <4>1. focus \in 1..3
                BY <1>0, <3>1 DEF At
            <4>2. CASE dir = 1
                <5>1. focus < 3 => at(3 - focus) = 3
                    BY <3>1, <4>1, <4>2
                <5>2. focus = 3 => at(3) = 3
                    BY <3>1, <4>2
                <5> QED BY <3>1, <4>1, <5>1, <5>2
            <4>3. CASE dir = -1
                <5>1. at(focus) = 3
                    BY <3>1, <4>1, <4>3
                <5> QED BY <3>1, <4>1, <5>1
            <4> QED BY <2>2, <4>2, <4>3
        <3>2. CASE Footer = 8
            <4>1. focus \in 1..8
                BY <1>0, <3>2 DEF At
            <4>2. CASE dir = 1
                <5>1. focus < 8 => at(8 - focus) = 8
                    BY <3>2, <4>1, <4>2
                <5>2. focus = 8 => at(8) = 8
                    BY <3>2, <4>2
                <5> QED BY <3>2, <4>1, <5>1, <5>2
            <4>3. CASE dir = -1
                <5>1. at(focus) = 8
                    BY <3>2, <4>1, <4>3
                <5> QED BY <3>2, <4>1, <5>1
            <4> QED BY <2>2, <4>2, <4>3
        <3> QED BY <1>2, <3>1, <3>2
    <2>5. found # {} /\ found \in SUBSET (1..8)
        <3>1. tui_pane_slot_count(Footer) > 0
            BY <1>0, Selectables
        <3>2. PICK k \in 1..Footer : at(k) = Footer
            BY <2>4
        <3>3. tui_pane_slot_count(at(k)) > 0
            BY <3>1, <3>2
        <3> HIDE DEF at
        <3>4. k \in found
            BY <3>3
        <3> QED BY <1>2, <3>4
    <2>6. Min(found) \in found
        <3> HIDE DEF found
        <3> QED BY <2>5, LeastOf
    <2>7. focus' = at(Min(found))
        BY <2>2, <2>5
    <2> DEFINE g == at(Min(found))
    <2>8. g \in 1..Footer /\ tui_pane_slot_count(g) > 0
        <3>1. tui_pane_slot_count(at(Min(found))) > 0 /\ Min(found) \in 1..8
            BY <2>5, <2>6
        <3> HIDE DEF at, found
        <3> QED BY <2>3, <3>1
    <2> HIDE DEF at, found
    <2>9. g = Footer \/ Offers(g)
        BY <1>0, <2>8, Selectables
    <2>10. focus' = g
        BY <2>7
    <2>11. FocusOffers'
        BY <2>1, <2>9, <2>10, SameOffers
    <2>12. At'
        BY <1>0, <2>1, <2>8, <2>10, SamePanes DEF At
    <2> QED BY <1>1, <2>1, <2>11, <2>12
<1>8. CASE CursorKey
    <2>1. UNCHANGED <<drv, screen, focus, zone>>
        BY <1>8 DEF CursorKey
    <2> DEFINE n == tui_pane_slot_count(focus)
    <2>2. PICK dir \in {-1, 1} : cursor' = [cursor EXCEPT ![focus] = (@ + dir) % n]
        BY <1>8 DEF CursorKey
    <2>3. n > 0 /\ n \in Nat
        <3>1. n > 0
            BY <1>8 DEF CursorKey
        <3>2. CASE focus = Footer
            BY <3>2 DEF tui_pane_slot_count
        <3>3. CASE focus # Footer
            <4>1. focus \in 1..(Footer - 1)
                BY <1>0, <1>2, <3>3 DEF At
            <4>2. Cardinality(tui_pane_slots(tui_pane_items(Panes[focus]))) \in Nat
                BY <1>0, <4>1, PaneItems, SlotsOf
            <4> QED BY <3>1, <3>3, <4>2 DEF tui_pane_slot_count
        <3> QED BY <3>1, <3>2, <3>3
    <2> HIDE DEF n
    <2>4. \A c \in Nat : (c + dir) % n \in Nat
        BY <2>3
    <2>5. cursor' \in [1..8 -> Nat]
        BY <1>0, <2>2, <2>4 DEF At
    <2>6. At'
        BY <1>0, <2>1, <2>5, SamePanes DEF At
    <2>7. FocusOffers'
        BY <1>0, <2>1, SameOffers DEF FocusOffers
    <2> QED BY <1>1, <2>1, <2>6, <2>7
<1>9. ASSUME Idle, have
      PROVE  /\ focus # Footer /\ tui_pane_slots(Focus) # {}
             /\ focused_item(focus) = FocusLit /\ item_selectable(FocusLit) /\ Shape(FocusLit)
    <2>1. focus # Footer /\ tui_pane_slots(Focus) # {}
        BY <1>9 DEF have, Focus
    <2> QED BY <1>0, <2>1, LitIs
<1>10. CASE EnterKey
    <2>1. /\ Idle /\ have /\ drv' = drv
          /\ IF FocusLit.do = "goto" THEN alloy_ui_goto_screen("light")
             ELSE zone' = (IF FocusLit.do = "tab" THEN FocusLit.set[2] ELSE zone)
                  /\ UNCHANGED <<screen, focus, cursor>>
        BY <1>9, <1>10 DEF EnterKey
    <2>2. CASE FocusLit.do = "goto"
        <3>1. alloy_light_available
            BY <1>9, <2>1, <2>2 DEF Shape
        <3>2. alloy_ui_goto_screen("light")
            BY <2>1, <2>2
        <3>3. Place'
            BY <1>0, <2>1, <3>1, <3>2 DEF Place, Screens, alloy_ui_goto_screen, alloy_light_available
        <3> QED BY <1>0, <2>1, <3>1, <3>2, <3>3, WentTo DEF Screens
    <2>3. CASE FocusLit.do # "goto"
        <3>1. UNCHANGED <<drv, screen, focus, cursor>>
            BY <2>1, <2>3
        <3>2. zone' = zone \/ zone' \in 1..drv.zones
            BY <1>9, <2>1, <2>3 DEF Shape
        <3>3. Place'
            BY <1>0, <3>1, <3>2 DEF Place, alloy_light_available
        <3>4. At'
            BY <1>0, <3>1, SamePanes DEF At
        <3>5. FocusOffers'
            BY <1>0, <3>1, SameOffers DEF FocusOffers
        <3> QED BY <3>3, <3>4, <3>5
    <2> QED BY <2>2, <2>3
<1>11. CASE HexKey
    <2>1. /\ Idle /\ have /\ UNCHANGED <<drv, screen, focus, zone>> /\ FocusLit.kind = "color"
          /\ cursor' = [cursor EXCEPT ![focus] = @ + 4 - FocusLit.sub]
        BY <1>9, <1>11 DEF HexKey
    <2>2. FocusLit.sub \in 0..4
        BY <1>9, <2>1 DEF Shape, Plain
    <2>3. cursor' \in [1..8 -> Nat]
        <3> DEFINE j == FocusLit.sub
        <3>1. \A c \in Nat : c + 4 - j \in Nat
            BY <2>2
        <3>2. cursor' = [cursor EXCEPT ![focus] = cursor[focus] + 4 - j]
            BY <2>1
        <3> HIDE DEF j
        <3> QED BY <1>0, <3>1, <3>2 DEF At
    <2>4. At'
        BY <1>0, <2>1, <2>3, SamePanes DEF At
    <2>5. FocusOffers'
        BY <1>0, <2>1, SameOffers DEF FocusOffers
    <2> QED BY <1>1, <2>1, <2>4, <2>5
<1>12. CASE AdjustKey \/ FooterRevert \/ SaveKey \/ DialogKey \/ UNCHANGED vars
    <2>1. UNCHANGED <<drv, ui>>
        BY <1>12 DEF AdjustKey, FooterRevert, SaveKey, DialogKey, Dismiss, EffectPick, RemapPick,
            KeyCaptured, HexTyped, tui_modal_confirm_quit, vars
    <2> QED BY <1>3, <2>1
<1> QED BY <1>5, <1>6, <1>7, <1>8, <1>10, <1>11, <1>12 DEF Next, FrameKey

-----------------------------------------------------------------------------
(* What a dialog is about. *)

LEMMA OpensIs ==
    ASSUME NEW it, Shape(it), item_selectable(it), NEW swatch, Opens(it, it.sub) # <<>>
    PROVE  \/ Opens(it, it.sub).kind = "message"
           \/ /\ Opens(it, it.sub).it = it /\ ~it.off
              /\ tui_item_activate(it, swatch) = cfg
              /\ it.do \in {"adjust", "effect", "remap"}
              /\ \/ Opens(it, it.sub).kind = "hex" /\ it.kind = "color"
                 \/ Opens(it, it.sub).kind = "effect" /\ it.do = "effect" /\ Opens(it, it.sub).n = drv.fx
                 \/ Opens(it, it.sub).kind = "remap" /\ it.do = "remap"
<1>1. CASE it.kind = "color" /\ ~it.off /\ it.sub = 4
    <2>1. it.do = "adjust"
        BY <1>1 DEF Shape, Plain
    <2>2. Opens(it, it.sub) = Dialog("hex", it, 0)
        BY <1>1, <2>1, Zenon DEF Opens
    <2>3. tui_item_activate(it, swatch) = IF it.sub = 3 THEN Written(it, swatch) ELSE cfg
        BY <1>1, <2>1, Zenon DEF tui_item_activate
    <2> QED BY <1>1, <2>1, <2>2, <2>3 DEF Dialog
<1>2. CASE it.do = "remap"
    <2>1. it.kind = "custom" /\ ~it.off
        BY <1>2 DEF Shape
    <2>2. Opens(it, it.sub) = Dialog("remap", it, 3)
        BY <1>2, <2>1, Zenon DEF Opens
    <2>3. tui_item_activate(it, swatch) = cfg
        BY <1>2, Zenon DEF tui_item_activate
    <2> QED BY <1>2, <2>1, <2>2, <2>3 DEF Dialog
<1>3. CASE it.do = "macro"
    <2>1. it.kind = "button"
        BY <1>3 DEF Shape
    <2>2. Opens(it, it.sub) = Dialog("message", it, 0)
        BY <1>3, <2>1, Zenon DEF Opens
    <2> QED BY <2>2 DEF Dialog
<1>4. CASE it.do = "effect"
    <2>1. it.kind = "choice" /\ ~it.off /\ it.n = drv.fx
        BY <1>4 DEF Shape
    <2>2. Opens(it, it.sub) = IF it.n < 2 THEN Dialog("message", it, 0) ELSE Dialog("effect", it, it.n)
        BY <1>4, <2>1, Zenon DEF Opens
    <2>3. tui_item_activate(it, swatch) = cfg
        BY <1>4, Zenon DEF tui_item_activate
    <2> QED BY <1>4, <2>1, <2>2, <2>3 DEF Dialog
<1>5. CASE ~(it.kind = "color" /\ ~it.off /\ it.sub = 4) /\ it.do \notin {"remap", "macro", "effect"}
    <2>1. Opens(it, it.sub) = <<>>
        BY <1>5, Zenon DEF Opens
    <2> QED BY <2>1
<1> QED BY <1>1, <1>2, <1>3, <1>4, <1>5

\* the pane in focus stays the same
LEMMA SameFocus ==
    ASSUME Place, At, Place', At', focus # Footer, UNCHANGED <<drv, screen, zone, cfg, focus>>
    PROVE  Focus' = Focus /\ focus' # Footer'
<1>1. FocusListed /\ FocusListed'
    BY FocusIsListed, PTL
<1>2. Footer' = Footer
    BY SamePanes
<1>3. PaneList' = PaneList
    BY SameLists
<1> QED BY <1>1, <1>2, <1>3 DEF FocusListed

\* what the lit item is, by the pane and the cursor
LitShown == FocusLit = Slot(Focus, Min({cursor[focus], LastSlot(Focus)}))

LEMMA LitIsShown == LitShown
BY DEF LitShown, FocusLit, Lit, Focus

LEMMA SameLit ==
    ASSUME Place, At, Place', At', focus # Footer, UNCHANGED <<drv, ui, cfg>>
    PROVE  Focus' = Focus /\ focus' # Footer' /\ FocusLit' = FocusLit
<1>0. UNCHANGED <<screen, focus, cursor, zone>>
    BY DEF ui
<1>1. Focus' = Focus /\ focus' # Footer'
    BY <1>0, SameFocus
<1>2. LitShown /\ LitShown'
    BY LitIsShown, PTL
<1> QED BY <1>0, <1>1, <1>2 DEF LitShown

\* four stops on at most, the hex field of the same colour is lit
LEMMA LastStop ==
    ASSUME NEW s, WellFormed(s), NEW k \in tui_pane_slots(s), s[k].kind = "color", s[k].sub \in 0..4
    PROVE  LET l == k + 4 - s[k].sub
           IN /\ l \in tui_pane_slots(s)
              /\ s[l].kind = "color" /\ s[l].set = s[k].set /\ s[l].off = s[k].off /\ s[l].do = s[k].do
              /\ Rank(tui_pane_slots(s), l) = Rank(tui_pane_slots(s), k) + 4 - s[k].sub
<1> DEFINE S == tui_pane_slots(s)
           Same(j) == /\ j \in S /\ s[j].kind = "color" /\ s[j].set = s[k].set
                      /\ s[j].off = s[k].off /\ s[j].do = s[k].do
<1>1. Len(s) \in Nat /\ DOMAIN s = 1..Len(s)
    BY DEF WellFormed, Sequence
<1>2. S \in SUBSET Nat /\ IsFiniteSet(S) /\ \A j \in S : j \in 1..Len(s)
    BY SlotsOf
<1>3. \A j \in S : Rank(S, j + 1) = Rank(S, j) + 1 /\ Rank(S, j) \in Nat
    BY <1>2, RankNext
<1>4. ASSUME NEW j \in 1..Len(s), Same(j), s[j].sub \in 0..3
      PROVE  /\ j + 1 \in 1..Len(s) /\ Same(j + 1) /\ s[j + 1].sub = s[j].sub + 1
             /\ Rank(S, j + 1) = Rank(S, j) + 1
    <2>1. j < Len(s) /\ NextStop(s[j], s[j + 1])
        BY <1>4 DEF WellFormed
    <2>2. j + 1 \in 1..Len(s)
        BY <1>1, <2>1
    <2>3. item_selectable(s[j + 1])
        BY <2>1 DEF NextStop, item_selectable
    <2>4. j + 1 \in S
        BY <1>1, <2>2, <2>3 DEF tui_pane_slots
    <2> QED BY <1>3, <1>4, <2>1, <2>2, <2>4 DEF NextStop
<1>5. Same(k) /\ k \in 1..Len(s) /\ k \in Nat /\ Rank(S, k) \in Nat
    BY <1>2, <1>3
<1> DEFINE r == Rank(S, k)
           At4(l) == Same(l) /\ Rank(S, l) = r + 4 - s[k].sub
<1> HIDE DEF Same, S
<1> SUFFICES At4(k + 4 - s[k].sub)
    BY DEF Same, S
<1>6. CASE s[k].sub = 4
    BY <1>5, <1>6
<1>7. CASE s[k].sub = 3
    <2>1. Same(k + 1) /\ Rank(S, k + 1) = r + 1
        BY <1>4, <1>5, <1>7
    <2>2. k + 4 - s[k].sub = k + 1 /\ r + 4 - s[k].sub = r + 1
        BY <1>5, <1>7
    <2> QED BY <2>1, <2>2
<1>8. CASE s[k].sub = 2
    <2>1. Same(k + 1) /\ Rank(S, k + 1) = r + 1 /\ s[k + 1].sub = 3 /\ k + 1 \in 1..Len(s)
        BY <1>4, <1>5, <1>8
    <2>2. Same(k + 1 + 1) /\ Rank(S, k + 1 + 1) = r + 1 + 1
        BY <1>4, <2>1
    <2>3. k + 4 - s[k].sub = k + 1 + 1 /\ r + 4 - s[k].sub = r + 1 + 1
        BY <1>5, <1>8
    <2> QED BY <2>2, <2>3
<1>9. CASE s[k].sub = 1
    <2>1. Same(k + 1) /\ Rank(S, k + 1) = r + 1 /\ s[k + 1].sub = 2 /\ k + 1 \in 1..Len(s)
        BY <1>4, <1>5, <1>9
    <2>2. /\ Same(k + 1 + 1) /\ Rank(S, k + 1 + 1) = r + 1 + 1 /\ s[k + 1 + 1].sub = 3
          /\ k + 1 + 1 \in 1..Len(s)
        BY <1>4, <2>1
    <2>3. Same(k + 1 + 1 + 1) /\ Rank(S, k + 1 + 1 + 1) = r + 1 + 1 + 1
        BY <1>4, <2>2
    <2>4. k + 4 - s[k].sub = k + 1 + 1 + 1 /\ r + 4 - s[k].sub = r + 1 + 1 + 1
        BY <1>5, <1>9
    <2> QED BY <2>3, <2>4
<1>10. CASE s[k].sub = 0
    <2>1. Same(k + 1) /\ Rank(S, k + 1) = r + 1 /\ s[k + 1].sub = 1 /\ k + 1 \in 1..Len(s)
        BY <1>4, <1>5, <1>10
    <2>2. /\ Same(k + 1 + 1) /\ Rank(S, k + 1 + 1) = r + 1 + 1 /\ s[k + 1 + 1].sub = 2
          /\ k + 1 + 1 \in 1..Len(s)
        BY <1>4, <2>1
    <2>3. /\ Same(k + 1 + 1 + 1) /\ Rank(S, k + 1 + 1 + 1) = r + 1 + 1 + 1 /\ s[k + 1 + 1 + 1].sub = 3
          /\ k + 1 + 1 + 1 \in 1..Len(s)
        BY <1>4, <2>2
    <2>4. Same(k + 1 + 1 + 1 + 1) /\ Rank(S, k + 1 + 1 + 1 + 1) = r + 1 + 1 + 1 + 1
        BY <1>4, <2>3
    <2>5. k + 4 - s[k].sub = k + 1 + 1 + 1 + 1 /\ r + 4 - s[k].sub = r + 1 + 1 + 1 + 1
        BY <1>5, <1>10
    <2> QED BY <2>4, <2>5
<1> QED BY <1>6, <1>7, <1>8, <1>9, <1>10

\* so the hex key, which counts the cursor on by as much, lights that field, also
\* from a cursor beyond the list
LEMMA HexStop ==
    ASSUME NEW s, WellFormed(s), tui_pane_slots(s) # {}
    PROVE  \A c \in Nat : \A it :
               it = Slot(s, Min({c, LastSlot(s)})) /\ it.kind = "color" /\ it.sub \in 0..4 =>
                   LET new == Slot(s, Min({c + 4 - it.sub, LastSlot(s)}))
                   IN new.kind = "color" /\ new.set = it.set /\ new.off = it.off
<1> SUFFICES ASSUME NEW c \in Nat, NEW it, it = Slot(s, Min({c, LastSlot(s)})), it.kind = "color",
                    it.sub \in 0..4
             PROVE  LET new == Slot(s, Min({c + 4 - it.sub, LastSlot(s)}))
                    IN new.kind = "color" /\ new.set = it.set /\ new.off = it.off
    OBVIOUS
<1> DEFINE S == tui_pane_slots(s)
           last == LastSlot(s)
           n == c + 4 - it.sub
           l(k) == k + 4 - it.sub
<1>1. S \in SUBSET Nat /\ IsFiniteSet(S) /\ last = Cardinality(S) - 1 /\ Cardinality(S) \in Nat
    BY SlotsOf DEF LastSlot
<1>2. PICK k \in S : Pointed(s, c, k)
    BY PointedIs DEF Pointed
<1>3. it = s[k] /\ Rank(S, k) = IF c <= last THEN c ELSE last
    BY <1>2, PointedIs DEF Pointed
<1>4. /\ l(k) \in S /\ Rank(S, l(k)) = Rank(S, k) + 4 - it.sub
      /\ s[l(k)].kind = "color" /\ s[l(k)].set = it.set /\ s[l(k)].off = it.off
    BY <1>3, LastStop
<1>5. Rank(S, l(k)) < Cardinality(S) /\ Rank(S, l(k)) \in Nat
    BY <1>1, <1>4, RankNext
<1>6. n \in Nat
    OBVIOUS
<1> DEFINE m == l(k)
           r == Rank(S, m)
           r0 == Rank(S, k)
<1>7. r = IF n <= last THEN n ELSE last
    <2>1. r = r0 + 4 - it.sub /\ r < Cardinality(S) /\ r \in Nat
        BY <1>4, <1>5
    <2>2. r0 = IF c <= last THEN c ELSE last
        BY <1>3
    <2> HIDE DEF r, r0, last
    <2>3. last \in Int /\ r <= last
        BY <1>1, <2>1
    <2>4. CASE c <= last
        BY <2>1, <2>2, <2>3, <2>4
    <2>5. CASE ~(c <= last)
        BY <2>1, <2>2, <2>3, <2>5
    <2> QED BY <2>4, <2>5
<1>8. Pointed(s, n, m)
    BY <1>4, <1>7 DEF Pointed
<1>9. Slot(s, Min({n, last})) = s[m]
    <2> HIDE DEF n, m
    <2> QED BY <1>6, <1>8, PointedIs
<1> QED BY <1>4, <1>9

LEMMA DialogsStay ==
    ASSUME MenuInv, [Next]_vars
    PROVE  Dialogs'
<1>0. Place /\ At /\ Settled(cfg) /\ Dialogs /\ Place' /\ At'
    BY Stays DEF MenuInv
<1>1. CASE modal' = <<>>
    BY <1>1 DEF Dialogs
<1>2. ASSUME modal'.kind \in {"message", "confirm"} PROVE Dialogs'
    BY <1>2 DEF Dialogs
<1>3. CASE UNCHANGED <<drv, ui, cfg, modal>>
    <2>1. SUFFICES ASSUME modal # <<>>, modal.kind \in {"hex", "effect", "remap", "capture"}
                   PROVE  Dialogs'
        BY <1>3 DEF Dialogs
    <2>2. focus # Footer
        BY <1>0, <2>1 DEF Dialogs
    <2>3. Focus' = Focus /\ focus' # Footer' /\ FocusLit' = FocusLit
        BY <1>0, <1>3, <2>2, SameLit
    <2>4. tui_pane_slots(Focus)' = tui_pane_slots(Focus)
        BY <2>3 DEF tui_pane_slots, item_selectable
    <2> QED BY <1>0, <1>3, <2>1, <2>3, <2>4 DEF Dialogs
<1>4. ASSUME Idle, have
      PROVE  /\ focus # Footer /\ tui_pane_slots(Focus) # {}
             /\ focused_item(focus) = FocusLit /\ item_selectable(FocusLit) /\ Shape(FocusLit)
    <2>1. focus # Footer /\ tui_pane_slots(Focus) # {}
        BY <1>4 DEF have, Focus
    <2> QED BY <1>0, <2>1, LitIs
<1>5. CASE EnterKey
    <2>1. Idle /\ have /\ modal' = Opens(FocusLit, FocusLit.sub)
        BY <1>4, <1>5 DEF EnterKey
    <2>2. PICK swatch \in Palette : cfg' = tui_item_activate(FocusLit, swatch)
        BY <1>4, <1>5, <2>1 DEF EnterKey, Commit
    <2>3. SUFFICES ASSUME Opens(FocusLit, FocusLit.sub) # <<>>, Opens(FocusLit, FocusLit.sub).kind # "message" PROVE Dialogs'
        BY <1>1, <1>2, <2>1
    <2>4. /\ Opens(FocusLit, FocusLit.sub).it = FocusLit /\ ~FocusLit.off /\ cfg' = cfg
          /\ FocusLit.do \in {"adjust", "effect", "remap"}
          /\ \/ Opens(FocusLit, FocusLit.sub).kind = "hex" /\ FocusLit.kind = "color"
             \/ /\ Opens(FocusLit, FocusLit.sub).kind = "effect" /\ FocusLit.do = "effect"
                /\ Opens(FocusLit, FocusLit.sub).n = drv.fx
             \/ Opens(FocusLit, FocusLit.sub).kind = "remap" /\ FocusLit.do = "remap"
        BY <1>4, <2>1, <2>2, <2>3, OpensIs
    <2>5. UNCHANGED <<drv, ui, cfg>>
        BY <1>4, <1>5, <2>1, <2>4 DEF EnterKey, ui
    <2>6. Focus' = Focus /\ focus' # Footer' /\ FocusLit' = FocusLit /\ drv' = drv
        BY <1>0, <1>4, <2>1, <2>5, SameLit
    <2>7. tui_pane_slots(Focus)' # {}
        BY <1>4, <2>1, <2>6 DEF tui_pane_slots, item_selectable
    <2> QED BY <2>1, <2>4, <2>6, <2>7 DEF Dialogs
<1>6. CASE HexKey
    <2>1. /\ Idle /\ have /\ UNCHANGED <<drv, screen, focus, zone, cfg>> /\ FocusLit.kind = "color"
          /\ cursor' = [cursor EXCEPT ![focus] = cursor[focus] + 4 - FocusLit.sub]
          /\ modal' = Opens(FocusLit, 4)
        BY <1>4, <1>6 DEF HexKey
    <2>2. /\ focus # Footer /\ tui_pane_slots(Focus) # {} /\ FocusLit.do = "adjust"
          /\ FocusLit.sub \in 0..4
        BY <1>4, <2>1 DEF Shape, Plain
    <2>3. CASE FocusLit.off
        <3>1. Opens(FocusLit, 4) = <<>>
            BY <2>2, <2>3, Zenon DEF Opens
        <3> QED BY <1>1, <2>1, <3>1
    <2>4. CASE ~FocusLit.off
        <3>1. focus \in 1..8 /\ cursor[focus] \in Nat
            BY <1>0, PanesAre DEF At
        <3>2. Focus' = Focus /\ focus' # Footer'
            BY <1>0, <2>1, <2>2, SameFocus
        <3>3. tui_pane_slots(Focus)' # {}
            BY <2>2, <3>2 DEF tui_pane_slots, item_selectable
        <3>4. LitShown /\ LitShown'
            BY LitIsShown, PTL
        <3> DEFINE n == cursor[focus] + 4 - FocusLit.sub
        <3>5. cursor'[focus] = n
            BY <1>0, <2>1, <3>1 DEF At
        <3>6. FocusLit' = Slot(Focus, Min({n, LastSlot(Focus)}))
            BY <2>1, <3>2, <3>4, <3>5 DEF LitShown
        <3>7. WellFormed(Focus)
            BY <1>0, <2>2, Focused
        <3>8. FocusLit'.kind = "color" /\ FocusLit'.set = FocusLit.set /\ ~FocusLit'.off
            <4>1. FocusLit = Slot(Focus, Min({cursor[focus], LastSlot(Focus)}))
                BY <3>4 DEF LitShown
            <4> DEFINE s == Focus
                       it == FocusLit
                       c == cursor[focus]
                       new == Slot(s, Min({c + 4 - it.sub, LastSlot(s)}))
            <4>2. WellFormed(s) /\ tui_pane_slots(s) # {} /\ c \in Nat
                BY <2>2, <3>1, <3>7
            <4>3. it = Slot(s, Min({c, LastSlot(s)})) /\ it.kind = "color" /\ it.sub \in 0..4
                BY <2>1, <2>2, <4>1
            <4>4. FocusLit' = new /\ ~it.off
                BY <2>4, <3>6
            <4> HIDE DEF s, it, c
            <4>5. new.kind = "color" /\ new.set = it.set /\ new.off = it.off
                BY <4>2, <4>3, HexStop
            <4> HIDE DEF new
            <4> QED BY <4>4, <4>5 DEF it
        <3>9. modal' = Dialog("hex", FocusLit, 0)
            BY <2>1, <2>2, <2>4, Zenon DEF Opens
        <3>10. modal'.kind = "hex" /\ modal'.it = FocusLit
            BY <3>9 DEF Dialog
        <3> QED BY <3>2, <3>3, <3>8, <3>10 DEF Dialogs
    <2> QED BY <2>3, <2>4
<1>7. CASE RemapPick
    <2>1. /\ modal # <<>> /\ modal.kind = "remap" /\ UNCHANGED <<drv, ui>>
          /\ \/ modal' = <<>>
             \/ modal' = [modal EXCEPT !.kind = "capture"] /\ cfg' = cfg
        BY <1>7 DEF RemapPick, Open
    <2>2. SUFFICES ASSUME modal' = [modal EXCEPT !.kind = "capture"], cfg' = cfg PROVE Dialogs'
        BY <1>1, <2>1
    <2>3. /\ focus # Footer /\ tui_pane_slots(Focus) # {} /\ ~FocusLit.off
          /\ modal.it.set = FocusLit.set /\ FocusLit.do = "remap"
        BY <1>0, <2>1 DEF Dialogs
    <2>4. Focus' = Focus /\ focus' # Footer' /\ FocusLit' = FocusLit
        BY <1>0, <2>1, <2>2, <2>3, SameLit
    <2>5. tui_pane_slots(Focus)' # {}
        BY <2>3, <2>4 DEF tui_pane_slots, item_selectable
    <2>6. modal'.kind = "capture" /\ modal'.it = modal.it
        BY <2>1, <2>2
    <2> QED BY <2>3, <2>4, <2>5, <2>6 DEF Dialogs
<1>8. CASE EscKey \/ focus_step \/ CursorKey \/ AdjustKey \/ FooterRevert \/ SaveKey \/ Dismiss
           \/ EffectPick \/ KeyCaptured \/ HexTyped \/ tui_modal_confirm_quit
    <2>1. modal' = <<>>
        BY <1>8 DEF EscKey, focus_step, CursorKey, AdjustKey, FooterRevert, SaveKey, Dismiss, EffectPick,
            KeyCaptured, HexTyped, tui_modal_confirm_quit, Idle
    <2> QED BY <1>1, <2>1
<1>9. CASE QuitKey
    <2>1. modal' = <<>> \/ modal'.kind = "confirm"
        BY <1>9 DEF QuitKey, Idle, Dialog
    <2> QED BY <1>1, <1>2, <2>1
<1>10. CASE UNCHANGED vars
    BY <1>3, <1>10 DEF vars
<1> QED BY <1>5, <1>6, <1>7, <1>8, <1>9, <1>10 DEF Next, FrameKey, DialogKey

-----------------------------------------------------------------------------
(* Theorems. *)

\* Whatever keys are pressed, on whatever device: the zone is one the device has,
\* the number of levels and of key groups stays within its bounds, the baseline
\* is a configuration like the one edited, a pane in focus offers something, and
\* a dialog about a setting is about the control that is lit (tui_handle_key,
\* tui_modal.c).
THEOREM MenuTyping == Spec => []MenuInv
<1>1. Init => MenuInv
    BY Start
<1>2. MenuInv /\ [Next]_vars => MenuInv'
    <2> SUFFICES ASSUME MenuInv, [Next]_vars PROVE MenuInv'
        OBVIOUS
    <2>1. Settled(cfg')
        BY Changes DEF Change
    <2>2. drv' = drv
        BY DEF Next, FrameKey, DialogKey, EscKey, QuitKey, focus_step, CursorKey, AdjustKey, EnterKey,
            HexKey, FooterRevert, SaveKey, Dismiss, EffectPick, RemapPick, KeyCaptured, HexTyped,
            tui_modal_confirm_quit, vars
    <2>3. baseline' \in {cfg, baseline}
        BY DEF Next, FrameKey, DialogKey, EscKey, QuitKey, focus_step, CursorKey, AdjustKey, EnterKey,
            HexKey, FooterRevert, SaveKey, Dismiss, EffectPick, RemapPick, KeyCaptured, HexTyped,
            tui_modal_confirm_quit, vars
    <2>4. Settled(cfg)'
        BY <2>1, <2>2 DEF Settled
    <2>5. Settled(baseline)'
        BY <2>2, <2>3 DEF Settled, MenuInv
    <2> QED BY <2>4, <2>5, Stays, DialogsStay DEF MenuInv
<1> QED BY <1>1, <1>2, PTL DEF Spec

\* The focus rests on a pane that is shown and offers something, whatever keys
\* were pressed and lists grew or shrank (focus_step, focus_first,
\* alloy_ui_goto_screen): what a pane offers, if anything, is settled by the device.
THEOREM FocusRests == Spec => []FocusSelectable
<1>1. MenuInv => FocusSelectable
    <2> SUFFICES ASSUME MenuInv PROVE tui_pane_slot_count(focus) > 0
        BY DEF FocusSelectable
    <2>1. focus \in 1..Footer /\ (focus = Footer \/ Offers(focus))
        BY DEF MenuInv, At, FocusOffers
    <2> QED BY <2>1, Selectables DEF MenuInv
<1> QED BY <1>1, MenuTyping, PTL

\* An edit changes what the lit control is about, and nothing that is greyed; all
\* else is REVERT (focused_item against draw_pane, the dialogs).
THEOREM EditsTheLit == Spec => LitOnly
<1>1. MenuInv /\ [Next]_vars =>
          [cfg' = cfg \/ cfg' = baseline \/
             /\ focus # Footer /\ ~Lit(focus).off
             /\ {k \in DOMAIN cfg : cfg'[k] # cfg[k]} \subseteq About(Lit(focus))]_vars
    <2> SUFFICES ASSUME MenuInv, [Next]_vars, cfg' # cfg, cfg' # baseline
                 PROVE  /\ focus # Footer /\ ~Lit(focus).off
                        /\ {k \in DOMAIN cfg : cfg'[k] # cfg[k]} \subseteq About(Lit(focus))
        OBVIOUS
    <2>1. focus # Footer /\ Edit(cfg', Lit(focus))
        BY Changes DEF Change, FocusLit
    <2> QED BY <2>1 DEF Edit, Within
<1> QED BY <1>1, MenuTyping, PTL DEF Spec, LitOnly

=============================================================================
