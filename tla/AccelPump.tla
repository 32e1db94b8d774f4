------------------------------ MODULE AccelPump ------------------------------
(***************************************************************************)
(* accel_pump() of drivers/lib/accel.c: the daemon reads the evdev queue   *)
(* into a buffer of Chunk events, sums REL_X/REL_Y up to a SYN_REPORT,     *)
(* transforms the sum (AccelTransform) and emits it; everything else       *)
(* passes through.  One action per turn of the loop, so that the mouse may *)
(* report in between; the histories say what the hand did, apart from what *)
(* the code makes of it.                                                   *)
(***************************************************************************)
EXTENDS AccelTransform, Sequences

CONSTANTS
    Chunk,      \* events per read(), sizeof(evs)/sizeof(evs[0]): 64
    Reports,    \* the reports a mouse may send, each closed by a SYN_REPORT of value 0
    Settings,   \* the parameter sets explored
    MaxReports, \* bound: reports sent
    MaxQueue    \* bound: events waiting in the kernel queue

Event == [kind : {"X", "Y", "SYN", "BTN", "WHEEL"}, v : Int]
Ev(k, n) == [kind |-> k, v |-> n]
Syn == Ev("SYN", 0)
Passing == {"SYN", "BTN", "WHEEL"}

ASSUME PumpAssumption ==
    /\ Chunk \in Nat \ {0} /\ MaxReports \in Nat /\ MaxQueue \in Nat
    /\ Settings \subseteq Params
    /\ \A r \in Reports : r \in Seq(Event) /\ r # <<>> /\ r[Len(r)] = Syn
    /\ \A r \in Reports : \A i \in 1 .. Len(r) : r[i].kind = "SYN" => r[i] = Syn

VARIABLES
    params,  \* in force; AccelDaemon models the reload
    queue,   \* events the kernel holds for the descriptor
    evs,     \* what the loop over evs[] has still to handle
    dx, dy,  \* locals of accel_pump
    rem,     \* struct alloy_accel_state
    sent,    \* history: reports sent, to bound them
    hand,    \* history: motion of the report being read
    due,     \* history: motion of the reports read times their gain, in 1/FP
    moved,   \* history: counts emitted
    cuts,    \* history: reads that ended inside a report
    taken,   \* history: the events read that are not motion
    passed   \* history: the events emitted that are not motion

pumpVars == <<params, queue, evs, dx, dy, rem, sent, hand, due, moved, cuts,
              taken, passed>>

Still == [x |-> 0, y |-> 0]
Moves == [x : Int, y : Int]

PumpInit ==
    /\ params \in Settings
    /\ queue = <<>> /\ evs = <<>>
    /\ dx = 0 /\ dy = 0 /\ rem = NoCarry
    /\ sent = 0
    /\ hand = Still /\ due = Still /\ moved = Still
    /\ cuts = 0
    /\ taken = <<>> /\ passed = <<>>

-----------------------------------------------------------------------------

\* the mouse reports
Report(r) ==
    /\ sent < MaxReports
    /\ Len(queue) + Len(r) <= MaxQueue
    /\ queue' = queue \o r
    /\ sent' = sent + 1
    /\ UNCHANGED <<params, evs, dx, dy, rem, hand, due, moved, cuts, taken, passed>>

\* A new accel_pump() call: its sums start at 0, also when the last read
\* ended inside a report.
Read ==
    LET n == IF Len(queue) < Chunk THEN Len(queue) ELSE Chunk
    IN  /\ evs = <<>> /\ queue # <<>>
        /\ evs' = SubSeq(queue, 1, n)
        /\ queue' = SubSeq(queue, n + 1, Len(queue))
        /\ cuts' = IF queue[n] = Syn THEN cuts ELSE cuts + 1
        /\ dx' = 0 /\ dy' = 0
        /\ UNCHANGED <<params, rem, sent, hand, due, moved, taken, passed>>

\* what the histories make of an event read
Witness(e) ==
    /\ hand' = CASE e.kind = "X" -> [hand EXCEPT !.x = @ + e.v]
                 [] e.kind = "Y" -> [hand EXCEPT !.y = @ + e.v]
                 [] e.kind = "SYN" -> Still
                 [] OTHER -> hand
    /\ due' = IF e.kind = "SYN"
              THEN LET g == Gain(params, hand.x * hand.x + hand.y * hand.y)
                   IN  [x |-> due.x + hand.x * g, y |-> due.y + hand.y * g]
              ELSE due
    /\ taken' = IF e.kind \in Passing THEN Append(taken, e) ELSE taken

OnX(e) ==
    /\ e.kind = "X"
    /\ dx' = dx + e.v
    /\ UNCHANGED <<dy, rem, moved, passed>>

OnY(e) ==
    /\ e.kind = "Y"
    /\ dy' = dy + e.v
    /\ UNCHANGED <<dx, rem, moved, passed>>

\* mutant: a report with no motion left is not closed
OnSyn_Quiet(e) ==
    LET t == Transform(params, rem, dx, dy)
    IN  /\ e.kind = "SYN"
        /\ rem' = t.rem
        /\ moved' = [x |-> moved.x + t.ox, y |-> moved.y + t.oy]
        /\ passed' = IF t.ox = 0 /\ t.oy = 0 THEN passed ELSE Append(passed, Syn)
        /\ dx' = 0 /\ dy' = 0

\* no event for an axis that does not move, which adds 0 to moved
OnSyn(e) ==
    LET t == Transform(params, rem, dx, dy)
    IN  /\ e.kind = "SYN"
        /\ rem' = t.rem
        /\ moved' = [x |-> moved.x + t.ox, y |-> moved.y + t.oy]
        /\ passed' = Append(passed, Syn)
        /\ dx' = 0 /\ dy' = 0

\* buttons, wheel, ... untouched
PassOn(e) ==
    /\ e.kind \in {"BTN", "WHEEL"}
    /\ passed' = Append(passed, e)
    /\ UNCHANGED <<dx, dy, rem, moved>>

Handle ==
    /\ evs # <<>>
    /\ LET e == Head(evs)
       IN  Witness(e) /\ (OnX(e) \/ OnY(e) \/ OnSyn(e) \/ PassOn(e))
    /\ evs' = Tail(evs)
    /\ UNCHANGED <<params, queue, sent, cuts>>

PumpNext == (\E r \in Reports : Report(r)) \/ Read \/ Handle

PumpSpec == PumpInit /\ [][PumpNext]_pumpVars

-----------------------------------------------------------------------------
(* Properties                                                              *)

\* The fraction carried between reports is always less than one count, so a
\* pointer at rest owes no motion (struct alloy_accel_state, rem_x and rem_y).
PumpTypeOK ==
    /\ params \in Settings
    /\ queue \in Seq(Event) /\ Len(queue) <= MaxQueue
    /\ evs \in Seq(Event) /\ Len(evs) <= Chunk
    /\ dx \in Int /\ dy \in Int
    /\ rem \in Carry
    /\ sent \in 0..MaxReports
    /\ hand \in Moves /\ due \in Moves /\ moved \in Moves
    /\ cuts \in Nat
    /\ taken \in Seq(Event) /\ passed \in Seq(Event)

\* Buttons, wheel and report boundaries come out as they came in: none lost,
\* none added, in order, also when the transform swallows all the motion of a
\* report (accel_pump's pass-through branch and its unconditional SYN).
Framing == passed = taken

\* Without angle snapping no motion is lost and none is invented: the counts
\* emitted and the fraction carried are exactly what the gain makes of every
\* report read, however slow the hand ("slow motion never drifts or is lost",
\* accel.h), as long as no read has ended inside a report.
NothingLost ==
    cuts = 0 /\ params.snap = 0 =>
        /\ moved.x * FP + rem.x = due.x
        /\ moved.y * FP + rem.y = due.y

\* A report never moves the pointer against the hand, not even when the
\* carried fraction points the other way: what is emitted when a report closes
\* is 0 or has the sign of what the hand did in it, as long as no read has
\* ended inside a report.
NeverBackwards ==
    [][cuts = 0 => /\ hand.x >= 0 => moved'.x >= moved.x
                   /\ hand.x <= 0 => moved'.x <= moved.x
                   /\ hand.y >= 0 => moved'.y >= moved.y
                   /\ hand.y <= 0 => moved'.y <= moved.y]_pumpVars
=============================================================================
