--------------------------- MODULE RivalLightsProofs ---------------------------
(***************************************************************************)
(* What is proved of SteelCommand and of RivalLights, which issues its     *)
(* commands, whatever the zones, colours, attempts and faults.  First the  *)
(* command layer: the types, and that the acknowledgement is reliable      *)
(* where no echo can stay behind, because then every answer a write causes *)
(* is read before the next write.  Then the lights: they keep to the       *)
(* command layer, are well-typed, and where the acknowledgement is         *)
(* reliable, a lighting step that returned 0 shows what the configuration  *)
(* says.                                                                   *)
(***************************************************************************)
EXTENDS RivalLights, SequenceTheorems, TLAPS

\* nothing in the queue but unrelated reports
Plain(s) == \A i \in 1 .. Len(s) : s[i] = "stray"

\* at most one answer among them
Single(s) == \A i, j \in 1 .. Len(s) : s[i] # "stray" /\ s[j] # "stray" => i = j

\* an echo means that the command was taken
Truthful(s) == \A i \in 1 .. Len(s) : s[i] \notin {"stray", "idle"} => taken

\* one write is under way or answered while the host waits, none otherwise
Clean ==
    /\ stage # "await" => air = <<>> /\ Plain(replies)
    /\ stage = "await" => /\ \/ air = <<cmd>> /\ Plain(replies)
                             \/ air = <<>> /\ Single(replies)
                          /\ Truthful(replies)
    /\ AckIsReliable

Timely == Faults \cap {"late", "intr"} = {}

Report == Echo \cup {"idle", "stray"}

-----------------------------------------------------------------------------

\* Queues: what a report more, or a report less, makes of them.
LEMMA Longer ==
    ASSUME NEW S, NEW s \in Seq(S), NEW r \in S
    PROVE  /\ Append(s, r) \in Seq(S) /\ Len(Append(s, r)) = Len(s) + 1
           /\ \A i \in 1 .. Len(s) : Append(s, r)[i] = s[i]
           /\ Append(s, r)[Len(s) + 1] = r
  BY AppendProperties

LEMMA Shorter ==
    ASSUME NEW S, NEW s \in Seq(S), s # <<>>
    PROVE  /\ Head(s) \in S /\ Head(s) = s[1] /\ Tail(s) \in Seq(S)
           /\ Len(s) \in Nat /\ Len(s) >= 1 /\ Len(Tail(s)) = Len(s) - 1
           /\ \A i \in 1 .. Len(Tail(s)) : Tail(s)[i] = s[i + 1]
  BY HeadTailProperties

\* One answer behind unrelated reports: the queue still holds at most one.
LEMMA Answered ==
    ASSUME NEW S, NEW s \in Seq(S), NEW r \in S, Plain(s)
    PROVE  Single(Append(s, r))
<1> DEFINE t == Append(s, r)
<1>1. Len(t) = Len(s) + 1 /\ Len(s) \in Nat /\ \A i \in 1 .. Len(s) : t[i] = "stray"
  BY Longer DEF Plain
<1>2. ASSUME NEW i \in 1 .. Len(t), t[i] # "stray"
      PROVE  i = Len(s) + 1
  BY <1>1, <1>2
<1> HIDE DEF t
<1>3. Single(t)
  BY <1>2 DEF Single
<1> QED BY <1>3 DEF t

\* An unrelated report more changes nothing of this.
LEMMA Unrelated ==
    ASSUME NEW S, NEW s \in Seq(S), "stray" \in S
    PROVE  /\ Plain(s) => Plain(Append(s, "stray"))
           /\ Single(s) => Single(Append(s, "stray"))
           /\ Truthful(s) => Truthful(Append(s, "stray"))
<1> DEFINE t == Append(s, "stray")
<1>1. /\ Len(t) = Len(s) + 1 /\ Len(s) \in Nat /\ t[Len(s) + 1] = "stray"
      /\ \A i \in 1 .. Len(s) : t[i] = s[i]
  BY Longer
<1>2. ASSUME NEW i \in 1 .. Len(t), t[i] # "stray"
      PROVE  i \in 1 .. Len(s) /\ s[i] = t[i]
  BY <1>1, <1>2
<1>3. ASSUME NEW i \in 1 .. Len(t)
      PROVE  i \in 1 .. Len(s) \/ t[i] = "stray"
  BY <1>2
<1> HIDE DEF t
<1>4. Plain(s) => Plain(t)
  BY <1>1, <1>3 DEF Plain
<1>5. Single(s) => Single(t)
  BY <1>2 DEF Single
<1>6. Truthful(s) => Truthful(t)
  BY <1>2 DEF Truthful
<1> QED BY <1>4, <1>5, <1>6 DEF t

\* What is left after a report has been read.
LEMMA Consumed ==
    ASSUME NEW S, NEW s \in Seq(S), s # <<>>, Single(s)
    PROVE  /\ Head(s) # "stray" => Plain(Tail(s))
           /\ Single(Tail(s))
           /\ Truthful(s) => Truthful(Tail(s))
           /\ Truthful(s) /\ Head(s) \notin {"stray", "idle"} => taken
<1> DEFINE t == Tail(s)
<1>1. /\ Head(s) = s[1] /\ Len(s) \in Nat /\ Len(s) >= 1 /\ Len(t) = Len(s) - 1
      /\ \A i \in 1 .. Len(t) : t[i] = s[i + 1]
  BY Shorter
<1>2. ASSUME NEW i \in 1 .. Len(t)
      PROVE  i + 1 \in 1 .. Len(s) /\ s[i + 1] = t[i] /\ i + 1 # 1
  BY <1>1, <1>2
<1>3. 1 \in 1 .. Len(s)
  BY <1>1
<1> HIDE DEF t
<1>4. s[1] # "stray" => Plain(t)
  BY <1>2, <1>3 DEF Plain, Single
<1>5. Single(t)
  <2> SUFFICES ASSUME NEW i \in 1 .. Len(t), NEW j \in 1 .. Len(t),
                      t[i] # "stray", t[j] # "stray"
               PROVE  i = j
    BY DEF Single
  <2>1. i + 1 = j + 1
    BY <1>2 DEF Single
  <2> QED BY <2>1
<1>6. Truthful(s) => Truthful(t)
  BY <1>2 DEF Truthful
<1>7. Truthful(s) /\ s[1] \notin {"stray", "idle"} => taken
  BY <1>3 DEF Truthful
<1> QED BY <1>1, <1>4, <1>5, <1>6, <1>7 DEF t

LEMMA PlainIsSingle ==
    ASSUME NEW s
    PROVE  Plain(s) => Single(s) /\ Truthful(s)
  BY DEF Plain, Single, Truthful

-----------------------------------------------------------------------------

\* The bounds hold themselves and zero.
LEMMA Bounds ==
    /\ Attempts \in Nat /\ MaxStrays \in Nat
    /\ 0 \in 0 .. Attempts /\ Attempts \in 0 .. Attempts /\ 0 \in 0 .. MaxStrays
  BY CommandAssumption

LEMMA CommandTypeStep == CommandTypeOK /\ [CommandNext]_commandVars => CommandTypeOK'
<1> SUFFICES ASSUME CommandTypeOK, [CommandNext]_commandVars PROVE CommandTypeOK'
  OBVIOUS
<1>1. ASSUME NEW c \in Command, Issue(c) PROVE CommandTypeOK'
  <2>1. left' \in 0 .. Attempts /\ strays' \in 0 .. MaxStrays
    BY <1>1, Bounds DEF Issue
  <2>2. air' \in Seq(Command) /\ replies' \in Seq(Echo \cup {"idle", "stray"})
    BY <1>1 DEF Issue, CommandTypeOK
  <2> QED BY <1>1, <2>1, <2>2 DEF Issue, CommandTypeOK
<1>2. CASE Write
  BY <1>2, Bounds, AppendProperties DEF Write, CommandTypeOK
<1>3. CASE WriteFails
  BY <1>3, Bounds DEF WriteFails, CommandTypeOK
<1>4. CASE GiveUp
  BY <1>4, Bounds DEF GiveUp, Return, CommandTypeOK
<1>5. CASE Read
  <2>1. replies' \in Seq(Report)
    BY <1>5, Shorter DEF Read, CommandTypeOK, Report
  <2>2. Again \/ Return("ok") \/ UNCHANGED <<stage, cmd, left, result>>
    BY <1>5, Zenon DEF Read
  <2>3. UNCHANGED <<air, strays, taken>>
    BY <1>5 DEF Read
  <2>4. CASE Again \/ UNCHANGED <<stage, cmd, left, result>>
    BY <1>5, <2>1, <2>3, <2>4 DEF Read, Again, CommandTypeOK, Report
  <2>5. CASE Return("ok")
    BY <2>1, <2>3, <2>5, Bounds DEF Return, CommandTypeOK, Report
  <2> QED BY <2>2, <2>4, <2>5
<1>6. CASE Timeout \/ ReadFails
  BY <1>6 DEF Timeout, ReadFails, Again, CommandTypeOK
<1>7. CASE Take
  <2>1. Head(air) \in Command /\ air' \in Seq(Command)
    BY <1>7, Shorter DEF Take, CommandTypeOK
  <2>2. Head(air).op \in Report
    BY <2>1 DEF Report, Echo
  <2>3. replies' \in Seq(Report)
    <3>1. replies \in Seq(Report)
      BY DEF CommandTypeOK, Report
    <3>2. Append(replies, Head(air).op) \in Seq(Report)
      BY <2>2, <3>1, Longer
    <3> QED BY <1>7, <3>1, <3>2 DEF Take
  <2>4. taken' \in BOOLEAN
    <3>1. taken' = (taken \/ Head(air) = cmd)
      BY <1>7 DEF Take
    <3> QED BY <3>1, Zenon DEF CommandTypeOK
  <2> QED BY <1>7, <2>1, <2>3, <2>4 DEF Take, CommandTypeOK, Report
<1>8. CASE Drop
  <2>1. air' \in Seq(Command)
    BY <1>8, Shorter DEF Drop, CommandTypeOK
  <2>2. replies' \in Seq(Report)
    <3>1. replies \in Seq(Report) /\ "idle" \in Report
      BY DEF CommandTypeOK, Report
    <3>2. Append(replies, "idle") \in Seq(Report)
      BY <3>1, Longer
    <3> QED BY <1>8, <3>1, <3>2 DEF Drop
  <2> QED BY <1>8, <2>1, <2>2 DEF Drop, CommandTypeOK, Report
<1>9. CASE Stray
  <2>1. replies' \in Seq(Report)
    <3>1. replies \in Seq(Report) /\ "stray" \in Report
      BY DEF CommandTypeOK, Report
    <3>2. Append(replies, "stray") \in Seq(Report)
      BY <3>1, Longer
    <3> QED BY <1>9, <3>2 DEF Stray
  <2> QED BY <1>9, <2>1, Bounds DEF Stray, CommandTypeOK, Report
<1>10. CASE UNCHANGED commandVars
  BY <1>10 DEF commandVars, CommandTypeOK
<1> QED
  BY <1>1, <1>2, <1>3, <1>4, <1>5, <1>6, <1>7, <1>8, <1>9, <1>10 DEF CommandNext, Host

LEMMA CommandTypeInit == CommandInit => CommandTypeOK
<1> SUFFICES ASSUME CommandInit PROVE CommandTypeOK
  OBVIOUS
<1>1. air \in Seq(Command) /\ replies \in Seq(Echo \cup {"idle", "stray"})
  BY EmptySeq DEF CommandInit
<1> QED BY <1>1, Bounds DEF CommandInit, CommandTypeOK

\* Every reachable state is well-typed, for any commands and faults: an attempt
\* is never counted below zero and a command is at hand whenever one is sent.
THEOREM CommandTyping == CommandSpec => []CommandTypeOK
  BY CommandTypeInit, CommandTypeStep, PTL DEF CommandSpec

-----------------------------------------------------------------------------

\* The steps of the host.
LEMMA HostClean ==
    ASSUME Timely, CommandTypeOK, Clean, Host
    PROVE  Clean'
<1> USE CommandAssumption
<1>1. CASE Write
  <2>1. air' = <<cmd>> /\ stage' = "await" /\ Plain(replies) /\ UNCHANGED <<cmd, replies>>
    BY <1>1 DEF Write, Clean, CommandTypeOK
  <2>2. Truthful(replies)
    BY <2>1, PlainIsSingle
  <2> QED BY <1>1, <2>1, <2>2 DEF Write, Clean, AckIsReliable, Plain, Truthful
<1>2. CASE WriteFails
  BY <1>2 DEF WriteFails, Clean, AckIsReliable, Plain
<1>3. CASE GiveUp
  BY <1>3 DEF GiveUp, Return, Clean, AckIsReliable, Plain
<1>4. CASE Timeout
  <2>1. air = <<>> /\ replies = <<>> /\ stage' = "send"
    BY <1>4 DEF Timeout, Timely, Again
  <2> QED BY <1>4, <2>1 DEF Timeout, Again, Clean, AckIsReliable, Plain
<1>5. CASE Read
  <2> DEFINE r == Head(replies)
  <2>1. /\ stage = "await" /\ replies # <<>> /\ replies \in Seq(Report)
        /\ replies' = Tail(replies) /\ UNCHANGED <<air, taken>>
    BY <1>5 DEF Read, CommandTypeOK, Report
  <2>2. Single(replies) /\ Truthful(replies)
    BY <2>1, PlainIsSingle DEF Clean
  <2>3. /\ r # "stray" => Plain(Tail(replies))
        /\ Single(Tail(replies)) /\ Truthful(Tail(replies))
        /\ r \notin {"stray", "idle"} => taken
    BY <2>1, <2>2, Consumed
  <2>4. Plain(replies) => r = "stray"
    BY <2>1, Shorter DEF Plain
  <2>5. cmd.op \notin {"idle", "stray"}
    BY <2>1, EchoAssumption DEF CommandTypeOK
  <2>6. CASE r = "idle"
    <3>1. air = <<>> /\ Plain(replies')
      BY <2>1, <2>3, <2>4, <2>6 DEF Clean
    <3>2. stage' = "send" /\ result' = result
      BY <1>5, <2>5, <2>6 DEF Read, Again
    <3> QED BY <2>1, <3>1, <3>2 DEF Clean, AckIsReliable, Plain
  <2>7. CASE r = cmd.op
    <3>1. air = <<>> /\ Plain(replies') /\ stage' = "idle" /\ taken
      BY <1>5, <2>1, <2>3, <2>4, <2>5, <2>7 DEF Read, Return, Clean
    <3> QED BY <2>1, <3>1 DEF Clean, AckIsReliable, Plain
  <2>8. CASE r # "idle" /\ r # cmd.op
    <3>1. UNCHANGED <<stage, cmd, result>>
      BY <1>5, <2>8 DEF Read
    <3>2. Plain(replies) => Plain(Tail(replies))
      <4> SUFFICES ASSUME Plain(replies) PROVE Plain(Tail(replies))
        OBVIOUS
      <4>1. /\ Len(replies) \in Nat /\ Len(Tail(replies)) = Len(replies) - 1
            /\ \A i \in 1 .. Len(Tail(replies)) : Tail(replies)[i] = replies[i + 1]
        BY <2>1, Shorter
      <4> QED BY <4>1 DEF Plain
    <3>3. Truthful(replies)'
      BY <2>1, <2>3 DEF Truthful
    <3>4. (air = <<cmd>> /\ Plain(replies)) \/ air = <<>>
      BY <2>1 DEF Clean
    <3>5. (air' = <<cmd'>> /\ Plain(replies')) \/ (air' = <<>> /\ Single(replies'))
      BY <2>1, <2>3, <3>1, <3>2, <3>4
    <3> HIDE DEF r
    <3> QED BY <2>1, <3>1, <3>3, <3>5 DEF Clean, AckIsReliable, Plain, Single
  <2> QED BY <2>6, <2>7, <2>8
<1>6. ~ReadFails
  BY DEF ReadFails, Timely
<1> QED BY <1>1, <1>2, <1>3, <1>4, <1>5, <1>6 DEF Host

\* The steps of the device and its link.
LEMMA LinkClean ==
    ASSUME CommandTypeOK, Clean, Take \/ Drop \/ Stray
    PROVE  Clean'
<1> USE CommandAssumption
<1>1. CASE Take \/ Drop
  <2>1. air # <<>> /\ air' = Tail(air) /\ UNCHANGED <<stage, cmd, result>>
    BY <1>1 DEF Take, Drop
  <2>2. stage = "await" /\ air = <<cmd>> /\ Plain(replies) /\ result' = result
    BY <2>1 DEF Clean
  <2>3. air' = <<>> /\ Head(air) = cmd
    BY <2>1, <2>2
  <2>4. cmd.op \in Report /\ replies \in Seq(Report) /\ "idle" \in Report
    BY <2>2 DEF CommandTypeOK, Report, Echo
  <2>5. Single(replies) /\ Single(Append(replies, cmd.op)) /\ Single(Append(replies, "idle"))
    BY <2>2, <2>4, Answered, PlainIsSingle
  <2>6. CASE Take
    <3>1. taken' /\ replies' \in {replies, Append(replies, cmd.op)}
      BY <2>3, <2>6 DEF Take
    <3>2. Single(replies') /\ Truthful(replies)'
      BY <2>5, <3>1 DEF Truthful
    <3> QED BY <2>1, <2>2, <2>3, <3>1, <3>2 DEF Clean, AckIsReliable, Single
  <2>7. CASE Drop
    <3>1. taken' = taken /\ replies' \in {replies, Append(replies, "idle")}
      BY <2>7 DEF Drop
    <3>2. Single(replies')
      BY <2>5, <3>1
    <3>3. \A i \in 1 .. Len(replies') : replies'[i] \in {"stray", "idle"}
      <4>1. CASE replies' = replies
        BY <2>2, <4>1 DEF Plain
      <4>2. CASE replies' = Append(replies, "idle")
        <5>1. /\ Len(replies') = Len(replies) + 1 /\ Len(replies) \in Nat
              /\ \A i \in 1 .. Len(replies) : replies'[i] = "stray"
              /\ replies'[Len(replies) + 1] = "idle"
          BY <2>2, <2>4, <4>2, Longer DEF Plain
        <5> QED BY <5>1
      <4> QED BY <3>1, <4>1, <4>2
    <3>4. Truthful(replies)'
      BY <3>3 DEF Truthful
    <3> QED BY <2>1, <2>2, <2>3, <3>1, <3>2, <3>4 DEF Clean, AckIsReliable, Single
  <2> QED BY <1>1, <2>6, <2>7
<1>2. CASE Stray
  <2>1. replies' = Append(replies, "stray") /\ UNCHANGED <<stage, cmd, result, air, taken>>
    BY <1>2 DEF Stray
  <2>2. "stray" \in Report /\ replies \in Seq(Report)
    BY DEF CommandTypeOK, Report
  <2>3. /\ Plain(replies) => Plain(replies')
        /\ Single(replies) => Single(replies')
        /\ Truthful(replies) => Truthful(replies')
    BY <2>1, <2>2, Unrelated
  <2>4. Truthful(replies') => Truthful(replies)'
    BY <2>1 DEF Truthful
  <2> QED BY <2>1, <2>3, <2>4 DEF Clean, AckIsReliable, Plain, Single
<1> QED BY <1>1, <1>2

LEMMA CleanStep ==
    Timely => (CommandTypeOK /\ Clean /\ [CommandNext]_commandVars => Clean')
<1> SUFFICES ASSUME Timely, CommandTypeOK, Clean, [CommandNext]_commandVars PROVE Clean'
  OBVIOUS
<1>1. ASSUME NEW c \in Command, Issue(c) PROVE Clean'
  BY <1>1 DEF Issue, Clean, AckIsReliable, Plain
<1>2. CASE UNCHANGED commandVars
  BY <1>2 DEF commandVars, Clean, AckIsReliable, Plain, Single, Truthful
<1> QED BY <1>1, <1>2, HostClean, LinkClean DEF CommandNext

LEMMA CleanAlways ==
    ASSUME Timely
    PROVE  CommandSpec => []Clean
<1>1. CommandInit => Clean
  BY DEF CommandInit, Clean, AckIsReliable, Plain
<1>2. CommandTypeOK /\ Clean /\ [CommandNext]_commandVars => Clean'
  BY CleanStep
<1> QED BY <1>1, <1>2, CommandTyping, PTL DEF CommandSpec

\* Where answers come in time and no read is interrupted, a command that
\* returned 0 was taken - for any commands, attempts, losses, failed writes and
\* unrelated reports.
THEOREM Reliable ==
    ASSUME Timely
    PROVE  CommandSpec => []AckIsReliable
<1>1. Clean => AckIsReliable
  BY DEF Clean
<1> QED BY <1>1, CleanAlways, PTL

-----------------------------------------------------------------------------
(* The lights. *)

Among(s, x) == \E i \in 1 .. Len(s) : s[i] = x

\* the step has still to issue this command
Awaited(op) == Among(todo, op)

\* the command that is going, and not yet taken
Going(op) == stage # "idle" /\ cmd.op = op
Owed(op) == Awaited(op) \/ (Going(op) /\ ~taken)

ColorsOp == {"startup", "rainbow", "colors", "reactive"}

\* the commands belong to the step and carry its configuration
Kind ==
    /\ step = "none" => todo = <<>>
    /\ stage # "idle" => step # "none" /\ cmd.of = cfg
    /\ step = "colors" => /\ \A i \in 1 .. Len(todo) : todo[i] \in ColorsOp
                          /\ stage # "idle" => cmd.op \in ColorsOp
    /\ step = "brightness" => /\ \A i \in 1 .. Len(todo) : todo[i] = "brightness"
                              /\ stage # "idle" => cmd.op = "brightness"

\* the engine's switch comes first, what needs it behind it
First(s) == \A i \in 1 .. Len(s) : s[i] = "startup" => i = 1

Order ==
    step = "colors" =>
        /\ First(todo)
        /\ Awaited("startup") \/ Going("startup") =>
             /\ Cycling(cfg) # {} => Awaited("rainbow")
             /\ Static(cfg) # {} => Awaited("colors")
        /\ Going("rainbow") => ~Awaited("startup")

\* what is not owed any more is on the mouse, unless a command failed
Paid ==
    ret =>
        /\ step = "colors" =>
             /\ ~Owed("startup") /\ Cycling(cfg) # {} => dev.engine
             /\ ~Owed("rainbow") => \A z \in Cycling(cfg) : dev.shown[z] = Rainbow
             /\ ~Owed("colors") => \A z \in Static(cfg) : dev.shown[z] = cfg.color[z]
             /\ ~Owed("reactive") => dev.reactive = cfg.reactive
        /\ step = "brightness" => (~Owed("brightness") => dev.bright = cfg.bright)

\* what the last run of a step left stays until its next run
Kept ==
    /\ step # "colors" /\ acked["colors"] => dev.shown = Wanted(cfg) /\ dev.reactive = cfg.reactive
    /\ step # "brightness" /\ acked["brightness"] => dev.bright = cfg.bright

Shown == Kind /\ Order /\ Paid /\ Kept

-----------------------------------------------------------------------------

\* What a command makes of the mouse, colour by colour.
LEMMA Outcomes ==
    ASSUME NEW d \in Lamps, NEW c \in LightCommand, NEW e \in Outcome(d, c)
    PROVE  /\ e \in Lamps
           /\ c.op = "startup" => /\ Cycling(c.of) # {} => e.engine
                                  /\ e.reactive = d.reactive /\ e.bright = d.bright
           /\ c.op = "rainbow" =>
                /\ e.engine = d.engine /\ e.reactive = d.reactive /\ e.bright = d.bright
                /\ d.engine => \A z \in Cycling(c.of) : e.shown[z] = Rainbow
                /\ \A z \in Static(c.of) : e.shown[z] = d.shown[z]
           /\ c.op = "colors" =>
                /\ e.engine = d.engine /\ e.reactive = d.reactive /\ e.bright = d.bright
                /\ \A z \in Cycling(c.of) : e.shown[z] = d.shown[z]
                /\ \A z \in Static(c.of) : e.shown[z] = c.of.color[z]
           /\ c.op = "reactive" =>
                /\ e.engine = d.engine /\ e.shown = d.shown /\ e.bright = d.bright
                /\ e.reactive = c.of.reactive
           /\ c.op = "brightness" =>
                /\ e.engine = d.engine /\ e.shown = d.shown /\ e.reactive = d.reactive
                /\ e.bright = c.of.bright
<1>1. c.op \in Opcode /\ c.of \in Lights
  BY DEF LightCommand
<1>2. CASE c.op = "startup"
  <2>1. e \in Switch(d, Cycling(c.of) # {})
    BY <1>2 DEF Outcome
  <2>2. CASE Cycling(c.of) # {}
    <3> DEFINE on == [d EXCEPT !.engine = TRUE, !.shown = [z \in Zone |-> Rainbow]]
    <3>1. e = on \/ (e = d /\ e.engine)
      BY <2>1, <2>2 DEF Switch
    <3>2. /\ on \in Lamps /\ on.engine = TRUE
          /\ on.reactive = d.reactive /\ on.bright = d.bright
      BY DEF Lamps, Shade
    <3> HIDE DEF on
    <3> QED BY <1>2, <3>1, <3>2
  <2>3. CASE Cycling(c.of) = {}
    <3> DEFINE dim(off) == [z \in Zone |-> IF z \in off THEN Dark ELSE d.shown[z]]
    <3>1. PICK off \in SUBSET Zone : e = [d EXCEPT !.engine = FALSE, !.shown = dim(off)]
      BY <2>1, <2>3 DEF Switch
    <3>2. dim(off) \in [Zone -> Shade]
      BY DEF Lamps, Shade
    <3> HIDE DEF dim
    <3>3. e \in Lamps /\ e.reactive = d.reactive /\ e.bright = d.bright
      BY <3>1, <3>2 DEF Lamps
    <3> QED BY <1>2, <2>3, <3>3
  <2> QED BY <2>2, <2>3
<1>3. CASE c.op = "rainbow"
  BY <1>3 DEF Outcome, Lamps, Shade, Cycling, Static
<1>4. CASE c.op = "colors"
  BY <1>1, <1>4 DEF Outcome, Lamps, Shade, Cycling, Static, Lights
<1>5. CASE c.op = "reactive"
  BY <1>1, <1>5 DEF Outcome, Lamps, Lights
<1>6. CASE c.op = "brightness"
  BY <1>1, <1>6 DEF Outcome, Lamps, Lights
<1> QED BY <1>1, <1>2, <1>3, <1>4, <1>5, <1>6 DEF Opcode

\* What is in a queue of commands.
LEMMA Alone ==
    ASSUME NEW x \in Opcode
    PROVE  <<x>> \in Seq(Opcode) /\ First(<<x>>) /\ \A y : Among(<<x>>, y) <=> x = y
  BY DEF First, Among

LEMMA Joined ==
    ASSUME NEW s \in Seq(Opcode), NEW t \in Seq(Opcode)
    PROVE  /\ s \o t \in Seq(Opcode)
           /\ \A x : Among(s \o t, x) <=> Among(s, x) \/ Among(t, x)
           /\ First(s) /\ ~Among(t, "startup") => First(s \o t)
<1> DEFINE u == s \o t
<1>1. /\ u \in Seq(Opcode) /\ Len(u) = Len(s) + Len(t) /\ Len(s) \in Nat /\ Len(t) \in Nat
      /\ \A i \in 1 .. Len(s) : u[i] = s[i]
      /\ \A i \in 1 .. Len(t) : u[Len(s) + i] = t[i]
  BY ConcatProperties
<1> HIDE DEF u
<1>2. ASSUME NEW i \in 1 .. Len(u)
      PROVE  \/ i \in 1 .. Len(s) /\ u[i] = s[i]
             \/ i - Len(s) \in 1 .. Len(t) /\ u[i] = t[i - Len(s)]
  <2>1. CASE i <= Len(s)
    BY <1>1, <2>1
  <2>2. CASE i > Len(s)
    <3> DEFINE j == i - Len(s)
    <3>1. j \in 1 .. Len(t) /\ Len(s) + j = i
      BY <1>1, <2>2
    <3>2. u[Len(s) + j] = t[j]
      BY <1>1, <3>1
    <3> QED BY <3>1, <3>2
  <2> QED BY <1>1, <2>1, <2>2
<1>3. ASSUME NEW i \in 1 .. Len(s) PROVE i \in 1 .. Len(u) /\ u[i] = s[i]
  BY <1>1
<1>4. ASSUME NEW i \in 1 .. Len(t) PROVE Len(s) + i \in 1 .. Len(u) /\ u[Len(s) + i] = t[i]
  BY <1>1
<1>5. ASSUME NEW x PROVE Among(u, x) <=> Among(s, x) \/ Among(t, x)
  BY <1>2, <1>3, <1>4 DEF Among
<1>6. First(s) /\ ~Among(t, "startup") => First(u)
  BY <1>2 DEF First, Among
<1> QED BY <1>1, <1>5, <1>6 DEF u

\* The batch of a lighting step: the switch first, each mask that is not empty.
LEMMA BatchShape ==
    ASSUME NEW c
    PROVE  /\ Batch(c) \in Seq(Opcode) /\ First(Batch(c))
           /\ \A x : Among(Batch(c), x) => x \in ColorsOp
           /\ Among(Batch(c), "startup") /\ Among(Batch(c), "reactive")
           /\ Cycling(c) # {} => Among(Batch(c), "rainbow")
           /\ Static(c) # {} => Among(Batch(c), "colors")
<1> DEFINE r == If(Cycling(c) # {}, <<"rainbow">>)
           k == If(Static(c) # {}, <<"colors">>)
<1>1. \A x \in Opcode : <<x>> \in Seq(Opcode) /\ First(<<x>>) /\ \A y : Among(<<x>>, y) <=> x = y
  BY Alone
<1>2. <<>> \in Seq(Opcode) /\ \A y : ~Among(<<>>, y)
  BY DEF Among
<1>3. /\ r \in Seq(Opcode) /\ \A x : Among(r, x) => x = "rainbow"
      /\ Cycling(c) # {} => Among(r, "rainbow")
  BY <1>1, <1>2 DEF If, Opcode
<1>4. /\ k \in Seq(Opcode) /\ \A x : Among(k, x) => x = "colors"
      /\ Static(c) # {} => Among(k, "colors")
  BY <1>1, <1>2 DEF If, Opcode
<1>5. "startup" \in Opcode /\ "reactive" \in Opcode
  BY DEF Opcode
<1> HIDE DEF r, k
<1> DEFINE a == <<"startup">> \o r
           b == a \o k
           d == b \o <<"reactive">>
<1>6. /\ a \in Seq(Opcode) /\ First(a)
      /\ \A x : Among(a, x) <=> x = "startup" \/ Among(r, x)
  BY <1>1, <1>3, <1>5, Joined
<1> HIDE DEF a
<1>7. /\ b \in Seq(Opcode) /\ First(b)
      /\ \A x : Among(b, x) <=> Among(a, x) \/ Among(k, x)
  BY <1>4, <1>6, Joined
<1> HIDE DEF b
<1>8. /\ d \in Seq(Opcode) /\ First(d)
      /\ \A x : Among(d, x) <=> Among(b, x) \/ x = "reactive"
  <2>1. /\ <<"reactive">> \in Seq(Opcode)
        /\ \A y : Among(<<"reactive">>, y) <=> "reactive" = y
    BY <1>1, <1>5
  <2> QED BY <1>7, <2>1, Joined
<1>9. Batch(c) = d
  BY DEF Batch, a, b, r, k
<1> HIDE DEF d
<1> QED BY <1>3, <1>4, <1>6, <1>7, <1>8, <1>9 DEF ColorsOp

-----------------------------------------------------------------------------

LEMMA BeginTypes ==
    ASSUME LightsTypeOK, cfg' \in Lights, NEW s \in LightStep, Begin(s)
    PROVE  LightsTypeOK'
<1>1. todo' \in Seq(Opcode)
  <2>1. Batch(cfg') \in Seq(Opcode)
    BY BatchShape
  <2>2. <<"brightness">> \in Seq(Opcode)
    BY Alone DEF Opcode
  <2> QED BY <2>1, <2>2 DEF Begin
<1>2. CommandTypeOK'
  BY DEF Begin, commandVars, LightsTypeOK, CommandTypeOK
<1> QED BY <1>1, <1>2 DEF Begin, LightsTypeOK

\* Every step of the lighting is one of the command layer, or none of its.
LEMMA LightsStep ==
    LightsTypeOK /\ [LightsNext]_lightVars => LightsTypeOK' /\ [CommandNext]_commandVars
<1> SUFFICES ASSUME LightsTypeOK, [LightsNext]_lightVars
             PROVE  LightsTypeOK' /\ [CommandNext]_commandVars
  OBVIOUS
<1>1. [CommandNext]_commandVars => CommandTypeOK'
  BY CommandTypeStep DEF LightsTypeOK
<1>2. CASE EditZone \/ EditBrightness \/ PushAgain
  <2>1. PICK s \in LightStep : Begin(s)
    BY <1>2 DEF EditZone, EditBrightness, PushAgain, LightStep
  <2>2. cfg' \in Lights
    <3>1. cfg \in Lights
      BY DEF LightsTypeOK
    <3>2. CASE EditZone
      <4>1. PICK z \in Zone : \/ cfg' = [cfg EXCEPT !.fx[z] = ~cfg.fx[z]]
                             \/ \E k \in Color : cfg' = [cfg EXCEPT !.color[z] = k]
        BY <3>2 DEF EditZone
      <4>2. CASE cfg' = [cfg EXCEPT !.fx[z] = ~cfg.fx[z]]
        BY <3>1, <4>2 DEF Lights
      <4>3. CASE \E k \in Color : cfg' = [cfg EXCEPT !.color[z] = k]
        BY <3>1, <4>3 DEF Lights
      <4> QED BY <4>1, <4>2, <4>3
    <3>3. CASE EditBrightness
      BY <3>1, <3>3 DEF EditBrightness, Lights
    <3>4. CASE PushAgain
      BY <3>1, <3>4 DEF PushAgain
    <3> QED BY <1>2, <3>2, <3>3, <3>4
  <2>3. UNCHANGED commandVars
    BY <2>1 DEF Begin
  <2> QED BY <2>1, <2>2, <2>3, BeginTypes
<1>3. CASE IssueNext
  <2>1. Head(todo) \in Opcode /\ todo' \in Seq(Opcode)
    BY <1>3, Shorter DEF IssueNext, LightsTypeOK
  <2>2. [op |-> Head(todo), of |-> cfg] \in Command
    BY <2>1, PayloadAssumption DEF LightCommand, LightsTypeOK
  <2>3. CommandNext
    BY <1>3, <2>2 DEF IssueNext, CommandNext
  <2> QED BY <1>1, <1>3, <2>1, <2>3 DEF IssueNext, LightsTypeOK
<1>4. CASE HostStep
  <2>1. CommandNext
    BY <1>4 DEF HostStep, CommandNext
  <2>2. ret' \in BOOLEAN
    <3>1. ret' = (ret /\ result' # "silent")
      BY <1>4 DEF HostStep
    <3> QED BY <3>1, Zenon
  <2> QED BY <1>1, <1>4, <2>1, <2>2 DEF HostStep, LightsTypeOK
<1>5. CASE StepDone
  <2>1. UNCHANGED commandVars /\ acked' \in [LightStep -> BOOLEAN]
    BY <1>5 DEF StepDone, LightsTypeOK
  <2> QED BY <1>1, <1>5, <2>1 DEF StepDone, LightsTypeOK
<1>6. CASE MouseStep
  <2>1. CommandNext
    BY <1>6 DEF MouseStep, CommandNext
  <2>2. Head(air) \in LightCommand
    BY <1>6, PayloadAssumption, Shorter DEF MouseStep, Take, LightsTypeOK, CommandTypeOK
  <2>3. dev' \in Lamps
    BY <1>6, <2>2, Outcomes DEF MouseStep, LightsTypeOK
  <2> QED BY <1>1, <1>6, <2>1, <2>3 DEF MouseStep, LightsTypeOK
<1>7. CASE LinkStep
  BY <1>1, <1>7 DEF LinkStep, stepVars, CommandNext, LightsTypeOK
<1>8. CASE Rewrite
  <2>1. UNCHANGED commandVars /\ cfg' \in Lights /\ acked' \in [LightStep -> BOOLEAN]
    BY <1>8 DEF Rewrite
  <2> QED BY <1>1, <1>8, <2>1 DEF Rewrite, LightsTypeOK
<1>9. CASE UNCHANGED lightVars
  BY <1>1, <1>9 DEF lightVars, stepVars, LightsTypeOK
<1> QED BY <1>2, <1>3, <1>4, <1>5, <1>6, <1>7, <1>8, <1>9 DEF LightsNext

\* Every reachable state is well-typed, for any zones, colours and faults.
THEOREM LightsTyping == LightsSpec => []LightsTypeOK
<1>1. LightsInit => LightsTypeOK
  BY CommandTypeInit, EmptySeq DEF LightsInit, LightsTypeOK
<1>2. LightsTypeOK /\ [LightsNext]_lightVars => LightsTypeOK'
  BY LightsStep
<1> QED BY <1>1, <1>2, PTL DEF LightsSpec

\* The lighting keeps to the command layer: one command at a time, so that what
\* is proved of SteelCommand holds of every batch.
THEOREM LightsImplementsCommand == LightsSpec => CommandSpec
<1>1. LightsInit => CommandInit
  BY DEF LightsInit
<1> QED BY <1>1, LightsStep, LightsTyping, PTL DEF LightsSpec, CommandSpec

-----------------------------------------------------------------------------

\* Nothing is owed at the start.
LEMMA ShownInit == LightsInit => Shown
<1> SUFFICES ASSUME LightsInit PROVE Shown
  OBVIOUS
<1>1. step = "none" /\ todo = <<>> /\ stage = "idle"
  BY DEF LightsInit, CommandInit
<1>2. acked["colors"] = FALSE /\ acked["brightness"] = FALSE
  BY DEF LightsInit, LightStep
<1> QED BY <1>1, <1>2 DEF Shown, Kind, Order, Paid, Kept

\* A step that begins owes all its commands.
LEMMA BeginShown ==
    ASSUME LightsTypeOK, Shown, NEW s \in LightStep, Begin(s),
           s = "colors" => cfg'.bright = cfg.bright,
           s = "brightness" => Wanted(cfg') = Wanted(cfg) /\ cfg'.reactive = cfg.reactive
    PROVE  Shown'
<1>1. /\ step = "none" /\ step' = s /\ stage' = "idle" /\ UNCHANGED <<dev, acked>>
      /\ todo' = IF s = "colors" THEN Batch(cfg') ELSE <<"brightness">>
  BY DEF Begin, commandVars, Shown, Kind
<1>2. \A op : Going(op)' = FALSE
  BY <1>1 DEF Going
<1>3. \A op : Awaited(op)' <=> Among(todo', op)
  BY DEF Awaited, Among
<1>4. CASE s = "colors"
  <2>1. /\ First(todo') /\ \A x : Among(todo', x) => x \in ColorsOp
        /\ Among(todo', "startup") /\ Among(todo', "reactive")
        /\ Cycling(cfg') # {} => Among(todo', "rainbow")
        /\ Static(cfg') # {} => Among(todo', "colors")
    BY <1>1, <1>4, BatchShape
  <2>2. Kind'
    BY <1>1, <1>4, <2>1 DEF Kind, Among
  <2>3. Order'
    BY <1>2, <1>3, <2>1 DEF Order, First, Cycling, Static
  <2>4. Paid'
    BY <1>1, <1>3, <1>4, <2>1 DEF Paid, Owed, Cycling, Static
  <2>5. Kept'
    BY <1>1, <1>4 DEF Kept, Shown
  <2> QED BY <2>2, <2>3, <2>4, <2>5 DEF Shown
<1>5. CASE s = "brightness"
  <2>1. todo' = <<"brightness">>
    BY <1>1, <1>5
  <2>2. Kind'
    BY <1>1, <1>5, <2>1 DEF Kind
  <2>3. Order'
    BY <1>1, <1>5 DEF Order
  <2>4. Among(todo', "brightness")
    BY <2>1, Alone DEF Opcode
  <2>5. Paid'
    BY <1>1, <1>3, <1>5, <2>4 DEF Paid, Owed
  <2>6. Kept'
    BY <1>1, <1>5 DEF Kept, Shown, Wanted
  <2> QED BY <2>2, <2>3, <2>5, <2>6 DEF Shown
<1> QED BY <1>4, <1>5 DEF LightStep

LEMMA EditShown ==
    ASSUME LightsTypeOK, Shown, EditZone \/ EditBrightness \/ Rewrite \/ PushAgain
    PROVE  Shown'
<1>0. cfg \in Lights
  BY DEF LightsTypeOK
<1>1. CASE EditZone
  <2>1. Begin("colors") /\ cfg'.bright = cfg.bright
    BY <1>0, <1>1 DEF EditZone, Lights
  <2> QED BY <2>1, BeginShown DEF LightStep
<1>2. CASE Rewrite
  <2>1. step = "none" /\ step' = "none" /\ stage' = stage /\ stage = "idle" /\ todo' = todo
    BY <1>2 DEF Rewrite, commandVars, Shown, Kind
  <2>2. acked'["colors"] = FALSE /\ acked'["brightness"] = FALSE
    BY <1>2 DEF Rewrite, LightStep
  <2> QED BY <2>1, <2>2 DEF Shown, Kind, Order, Paid, Kept
<1>3. CASE EditBrightness
  <2>1. Begin("brightness") /\ cfg'.fx = cfg.fx /\ cfg'.color = cfg.color
        /\ cfg'.reactive = cfg.reactive
    BY <1>0, <1>3 DEF EditBrightness, Lights
  <2>2. Wanted(cfg') = Wanted(cfg)
    BY <2>1 DEF Wanted
  <2> QED BY <2>1, <2>2, BeginShown DEF LightStep
<1>4. CASE PushAgain
  <2>1. PICK s \in LightStep : Begin(s) /\ cfg' = cfg
    BY <1>4 DEF PushAgain
  <2> QED BY <2>1, BeginShown
<1> QED BY <1>1, <1>2, <1>3, <1>4

\* A command that is issued stays owed until it is taken.
LEMMA IssueShown ==
    ASSUME LightsTypeOK, Shown, IssueNext
    PROVE  Shown'
<1> DEFINE h == Head(todo)
<1>1. /\ stage = "idle" /\ stage' = "send" /\ step # "none" /\ taken' = FALSE
      /\ cmd'.op = h /\ cmd'.of = cfg /\ todo' = Tail(todo)
      /\ UNCHANGED <<cfg, dev, step, ret, acked>>
  BY DEF IssueNext, Issue
<1>2. /\ todo \in Seq(Opcode) /\ todo # <<>>
  BY DEF IssueNext, LightsTypeOK
<1>3. /\ h = todo[1] /\ Len(todo) \in Nat /\ Len(todo) >= 1 /\ Len(todo') = Len(todo) - 1
      /\ \A i \in 1 .. Len(todo') : todo'[i] = todo[i + 1]
  BY <1>1, <1>2, Shorter
<1>4. ASSUME NEW i \in 1 .. Len(todo') PROVE i + 1 \in 1 .. Len(todo) /\ i + 1 # 1
  BY <1>3
<1>5. ASSUME NEW i \in 1 .. Len(todo)
      PROVE  i = 1 \/ (i - 1 \in 1 .. Len(todo') /\ todo'[i - 1] = todo[i])
  <2>1. CASE i # 1
    <3> DEFINE j == i - 1
    <3>1. j \in 1 .. Len(todo') /\ j + 1 = i
      BY <1>3, <2>1
    <3> QED BY <1>3, <3>1
  <2> QED BY <2>1
<1> HIDE DEF h
<1>6. \A op : Going(op)' <=> h = op
  BY <1>1 DEF Going
<1>7. \A op : Awaited(op) <=> h = op \/ Awaited(op)'
  <2>1. 1 \in 1 .. Len(todo)
    BY <1>3
  <2>2. ASSUME NEW op, Awaited(op)' PROVE Awaited(op)
    BY <1>3, <1>4, <2>2 DEF Awaited, Among
  <2>3. ASSUME NEW op, Awaited(op) PROVE h = op \/ Awaited(op)'
    BY <1>3, <1>5, <2>3 DEF Awaited, Among
  <2>4. ASSUME NEW op, h = op PROVE Awaited(op)
    BY <1>3, <2>1, <2>4 DEF Awaited, Among
  <2> QED BY <2>2, <2>3, <2>4
<1>8. \A op : Owed(op)' <=> Owed(op)
  BY <1>1, <1>6, <1>7 DEF Owed, Going
<1>9. Kind'
  <2>1. 1 \in 1 .. Len(todo)
    BY <1>3
  <2> QED BY <1>1, <1>3, <1>4, <2>1 DEF Shown, Kind
<1>10. Order'
  <2> SUFFICES ASSUME step = "colors"
               PROVE  /\ First(todo') /\ (Going("rainbow")' => ~Awaited("startup")')
                      /\ Awaited("startup")' \/ Going("startup")' =>
                           /\ Cycling(cfg) # {} => Awaited("rainbow")'
                           /\ Static(cfg) # {} => Awaited("colors")'
    BY <1>1 DEF Order, First, Cycling, Static
  <2>1. First(todo) /\ (Awaited("startup") => /\ Cycling(cfg) # {} => Awaited("rainbow")
                                              /\ Static(cfg) # {} => Awaited("colors"))
    BY DEF Shown, Order
  <2>2. ~Awaited("startup")'
    BY <1>3, <1>4, <2>1 DEF First, Awaited, Among
  <2>3. First(todo')
    BY <1>3, <1>4, <2>1 DEF First
  <2> QED BY <1>6, <1>7, <2>1, <2>2, <2>3
<1>11. Paid'
  BY <1>1, <1>8 DEF Shown, Paid, Cycling, Static
<1>12. Kept'
  BY <1>1 DEF Shown, Kept, Wanted
<1> QED BY <1>9, <1>10, <1>11, <1>12 DEF Shown

\* The host loses no command it has not taken, unless it says so.
LEMMA HostShown ==
    ASSUME Shown, Clean', HostStep
    PROVE  Shown'
<1>1. UNCHANGED <<cfg, dev, step, todo, acked>> /\ Host /\ (ret' => ret /\ result' # "silent")
  BY DEF HostStep
<1>2. /\ stage # "idle" /\ taken' = taken
      /\ \/ stage' # "idle" /\ cmd' = cmd
         \/ stage' = "idle" /\ result' \in {"ok", "silent"}
  <2>1. CASE Write \/ WriteFails \/ GiveUp \/ Timeout \/ ReadFails
    BY <2>1 DEF Write, WriteFails, GiveUp, Timeout, ReadFails, Again, Return
  <2>2. CASE Read
    <3>1. Again \/ Return("ok") \/ UNCHANGED <<stage, cmd, left, result>>
      BY <2>2, Zenon DEF Read
    <3> QED BY <2>2, <3>1 DEF Read, Again, Return
  <2> QED BY <1>1, <2>1, <2>2 DEF Host
<1>3. \A op : Awaited(op)' <=> Awaited(op)
  BY <1>1 DEF Awaited, Among
<1>4. \A op : Going(op)' => Going(op)
  BY <1>2 DEF Going
<1>5. ASSUME NEW op, ret' PROVE Owed(op)' <=> Owed(op)
  <2>1. CASE stage' # "idle"
    BY <1>2, <1>3, <2>1 DEF Owed, Going
  <2>2. CASE stage' = "idle"
    <3>1. taken
      BY <1>1, <1>2, <1>5, <2>2 DEF Clean, AckIsReliable
    <3> QED BY <1>3, <2>2, <3>1 DEF Owed, Going
  <2> QED BY <2>1, <2>2
<1>6. Kind'
  BY <1>1, <1>2 DEF Shown, Kind
<1>7. Order'
  BY <1>1, <1>3, <1>4 DEF Shown, Order, First, Cycling, Static
<1>8. Paid'
  BY <1>1, <1>5 DEF Shown, Paid, Cycling, Static
<1>9. Kept'
  BY <1>1 DEF Shown, Kept, Wanted
<1> QED BY <1>6, <1>7, <1>8, <1>9 DEF Shown

\* At the end of a step nothing is owed: unless a command failed, all of it is
\* on the mouse.
LEMMA DoneShown ==
    ASSUME LightsTypeOK, Shown, StepDone
    PROVE  Shown'
<1>1. /\ step \in LightStep /\ todo = <<>> /\ stage = "idle" /\ step' = "none"
      /\ acked' = [acked EXCEPT ![step] = ret]
      /\ stage' = "idle" /\ UNCHANGED <<cfg, dev, todo, ret>>
  BY DEF StepDone, LightsTypeOK, commandVars
<1>2. \A op : ~Owed(op)
  BY <1>1 DEF Owed, Awaited, Among, Going
<1>3. acked \in [LightStep -> BOOLEAN] /\ dev \in Lamps /\ cfg \in Lights
  BY DEF LightsTypeOK
<1>4. Kind' /\ Order' /\ Paid'
  BY <1>1 DEF Shown, Kind, Order, Paid
<1>5. CASE step = "colors"
  <2>1. acked'["colors"] = ret /\ acked'["brightness"] = acked["brightness"]
    BY <1>1, <1>3, <1>5 DEF LightStep
  <2>2. ASSUME ret PROVE dev.shown = Wanted(cfg) /\ dev.reactive = cfg.reactive
    <3>1. /\ \A z \in Cycling(cfg) : dev.shown[z] = Rainbow
          /\ \A z \in Static(cfg) : dev.shown[z] = cfg.color[z]
          /\ dev.reactive = cfg.reactive
      BY <1>2, <1>5, <2>2 DEF Shown, Paid
    <3>2. ASSUME NEW z \in Zone PROVE dev.shown[z] = Wanted(cfg)[z]
      BY <3>1 DEF Cycling, Static, Wanted
    <3>3. dev.shown \in [Zone -> Shade] /\ Wanted(cfg) = [z \in Zone |-> Wanted(cfg)[z]]
      BY <1>3 DEF Lamps, Wanted
    <3> QED BY <3>1, <3>2, <3>3
  <2> QED BY <1>1, <1>4, <1>5, <2>1, <2>2 DEF Shown, Kept, Wanted
<1>6. CASE step = "brightness"
  <2>1. acked'["brightness"] = ret /\ acked'["colors"] = acked["colors"]
    BY <1>1, <1>3, <1>6 DEF LightStep
  <2>2. ret => dev.bright = cfg.bright
    BY <1>2, <1>6 DEF Shown, Paid
  <2> QED BY <1>1, <1>4, <1>6, <2>1, <2>2 DEF Shown, Kept, Wanted
<1> QED BY <1>1, <1>5, <1>6 DEF LightStep

\* A command that is taken is not owed any more, and spoils none that was taken
\* before it.
LEMMA MouseShown ==
    ASSUME LightsTypeOK, Clean, Shown, MouseStep
    PROVE  Shown'
<1>1. Take /\ dev' \in Outcome(dev, Head(air)) /\ UNCHANGED <<cfg, step, todo, ret, acked>>
  BY DEF MouseStep
<1>2. air # <<>> /\ UNCHANGED <<stage, cmd>> /\ taken' = (taken \/ Head(air) = cmd)
  BY <1>1 DEF Take
<1>3. stage = "await" /\ Head(air) = cmd
  BY <1>2 DEF Clean
<1>4. cmd \in LightCommand /\ cmd.of = cfg /\ step # "none" /\ dev \in Lamps /\ taken'
  BY <1>2, <1>3, PayloadAssumption DEF LightsTypeOK, CommandTypeOK, Shown, Kind
<1>5. \A op : Awaited(op)' <=> Awaited(op)
  BY <1>1 DEF Awaited, Among
<1>6. \A op : Going(op)' <=> Going(op)
  BY <1>2 DEF Going
<1>7. \A op : Owed(op)' <=> Awaited(op)
  BY <1>4, <1>5 DEF Owed
<1>8. \A op : Going(op) <=> cmd.op = op
  BY <1>3 DEF Going
<1>9. Kind'
  BY <1>1, <1>2 DEF Shown, Kind
<1>10. Order'
  BY <1>1, <1>5, <1>6 DEF Shown, Order, First, Cycling, Static
<1>11. step \in LightStep
  BY <1>4 DEF LightsTypeOK
<1>12. CASE step = "colors"
  <2>1. cmd.op \in ColorsOp
    BY <1>3, <1>12 DEF Shown, Kind
  <2>2. /\ dev'.bright = dev.bright
        /\ ret => /\ ~Awaited("startup") /\ Cycling(cfg) # {} => dev'.engine
                  /\ ~Awaited("rainbow") => \A z \in Cycling(cfg) : dev'.shown[z] = Rainbow
                  /\ ~Awaited("colors") => \A z \in Static(cfg) : dev'.shown[z] = cfg.color[z]
                  /\ ~Awaited("reactive") => dev'.reactive = cfg.reactive
    <3>1. \A op : cmd.op # op /\ ~Awaited(op) => ~Owed(op)
      BY <1>8 DEF Owed
    <3>2. ret => /\ ~Owed("startup") /\ Cycling(cfg) # {} => dev.engine
                 /\ ~Owed("rainbow") => \A z \in Cycling(cfg) : dev.shown[z] = Rainbow
                 /\ ~Owed("colors") => \A z \in Static(cfg) : dev.shown[z] = cfg.color[z]
                 /\ ~Owed("reactive") => dev.reactive = cfg.reactive
      BY <1>12 DEF Shown, Paid
    <3>3. CASE cmd.op = "startup"
      <4>1. /\ Cycling(cfg) # {} => dev'.engine
            /\ dev'.reactive = dev.reactive /\ dev'.bright = dev.bright
        BY <1>1, <1>3, <1>4, <3>3, Outcomes
      <4>2. /\ Cycling(cfg) # {} => Awaited("rainbow")
            /\ Static(cfg) # {} => Awaited("colors")
        BY <1>8, <1>12, <3>3 DEF Shown, Order
      <4> QED BY <3>1, <3>2, <3>3, <4>1, <4>2
    <3>4. CASE cmd.op = "rainbow"
      <4>1. /\ dev'.engine = dev.engine /\ dev'.reactive = dev.reactive /\ dev'.bright = dev.bright
            /\ dev.engine => \A z \in Cycling(cfg) : dev'.shown[z] = Rainbow
            /\ \A z \in Static(cfg) : dev'.shown[z] = dev.shown[z]
        BY <1>1, <1>3, <1>4, <3>4, Outcomes
      <4>2. ~Awaited("startup")
        BY <1>8, <1>12, <3>4 DEF Shown, Order
      <4> QED BY <3>1, <3>2, <3>4, <4>1, <4>2
    <3>5. CASE cmd.op = "colors"
      <4>1. /\ dev'.engine = dev.engine /\ dev'.reactive = dev.reactive /\ dev'.bright = dev.bright
            /\ \A z \in Cycling(cfg) : dev'.shown[z] = dev.shown[z]
            /\ \A z \in Static(cfg) : dev'.shown[z] = cfg.color[z]
        BY <1>1, <1>3, <1>4, <3>5, Outcomes
      <4> QED BY <3>1, <3>2, <3>5, <4>1
    <3>6. CASE cmd.op = "reactive"
      <4>1. /\ dev'.engine = dev.engine /\ dev'.shown = dev.shown /\ dev'.bright = dev.bright
            /\ dev'.reactive = cfg.reactive
        BY <1>1, <1>3, <1>4, <3>6, Outcomes
      <4> QED BY <3>1, <3>2, <3>6, <4>1
    <3> QED BY <2>1, <3>3, <3>4, <3>5, <3>6 DEF ColorsOp
  <2>3. Paid'
    BY <1>1, <1>7, <1>12, <2>2 DEF Paid, Cycling, Static
  <2>4. Kept'
    BY <1>1, <1>12, <2>2 DEF Shown, Kept
  <2> QED BY <1>9, <1>10, <2>3, <2>4 DEF Shown
<1>13. CASE step = "brightness"
  <2>1. cmd.op = "brightness"
    BY <1>3, <1>13 DEF Shown, Kind
  <2>2. dev'.shown = dev.shown /\ dev'.reactive = dev.reactive /\ dev'.bright = cfg.bright
    BY <1>1, <1>3, <1>4, <2>1, Outcomes
  <2>3. Paid'
    BY <1>1, <1>13, <2>2 DEF Paid
  <2>4. Kept'
    BY <1>1, <1>13, <2>2 DEF Shown, Kept, Wanted
  <2> QED BY <1>9, <1>10, <2>3, <2>4 DEF Shown
<1> QED BY <1>11, <1>12, <1>13 DEF LightStep

LEMMA QuietShown ==
    ASSUME Shown, LinkStep \/ UNCHANGED lightVars
    PROVE  Shown'
<1>1. UNCHANGED <<cfg, dev, step, todo, ret, acked, stage, cmd, taken>>
  BY DEF LinkStep, Drop, Stray, stepVars, lightVars, commandVars
<1>2. \A op : (Awaited(op)' <=> Awaited(op)) /\ (Going(op)' <=> Going(op)) /\ (Owed(op)' <=> Owed(op))
  BY <1>1 DEF Awaited, Among, Going, Owed
<1>3. Kind' /\ Kept'
  BY <1>1 DEF Shown, Kind, Kept, Wanted
<1>4. Order'
  BY <1>1, <1>2 DEF Shown, Order, First, Cycling, Static
<1>5. Paid'
  BY <1>1, <1>2 DEF Shown, Paid, Cycling, Static
<1> QED BY <1>3, <1>4, <1>5 DEF Shown

\* Where the acknowledgement is reliable, a lighting step that returned 0 shows
\* what the configuration says, from whatever state the mouse was in: the order
\* of the batch and the switch sent with it suffice, for any zones and colours.
THEOREM Arrives ==
    ASSUME Timely
    PROVE  LightsSpec => []AckedIsShown
<1>1. LightsInit => Shown
  BY ShownInit
<1>2. LightsTypeOK /\ Clean /\ Clean' /\ Shown /\ [LightsNext]_lightVars => Shown'
  <2> SUFFICES ASSUME LightsTypeOK, Clean, Clean', Shown, [LightsNext]_lightVars
               PROVE  Shown'
    OBVIOUS
  <2> QED BY EditShown, IssueShown, HostShown, DoneShown, MouseShown, QuietShown DEF LightsNext
<1>3. LightsSpec => []Clean
  BY LightsImplementsCommand, CleanAlways, PTL
<1>4. Shown => AckedIsShown
  BY DEF Shown, Kept, AckedIsShown
<1> QED BY <1>1, <1>2, <1>3, <1>4, LightsTyping, PTL DEF LightsSpec
==============================================================================
