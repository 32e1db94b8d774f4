----------------------------- MODULE SteelCommand -----------------------------
(***************************************************************************)
(* steelseries_cmd() (drivers/steelseries/steelseries_common.c): a command *)
(* is written, and written again, until the device echoes its first byte.  *)
(* The host keeps one command going at a time; the device, its receiver    *)
(* and the queue of input reports the kernel keeps run beside it.  Who     *)
(* issues which command, and what the device makes of it, is the business  *)
(* of a module that composes this one with a driver.                       *)
(***************************************************************************)
EXTENDS Naturals, Sequences

CONSTANTS
    Command,    \* records whose field op is the byte the device echoes
    NoCommand,  \* no command is going
    Attempts,   \* bound: writes of one command, STEELSERIES_ATTEMPTS_CMD = 8
    MaxStrays,  \* bound: unrelated reports while one command waits, the length
                \* of the queue none of them makes longer, and what may still
                \* be under way, either way, when a command is issued
    Faults      \* which of Fault may happen

Fault == {"werr",   \* write() fails
          "lost",   \* the command does not reach the mouse, which is asleep
          "deaf",   \* it does, the echo is lost
          "stray",  \* an unrelated report is queued
          "late",   \* the answer takes longer than STEELSERIES_ACK_TIMEOUT_MS
          "intr"}   \* poll() or read() fails, as poll() does under a signal

ASSUME CommandAssumption ==
    /\ NoCommand \notin Command
    /\ Attempts \in Nat
    /\ MaxStrays \in Nat
    /\ Faults \subseteq Fault

ASSUME EchoAssumption == \A c \in Command : c.op \notin {"idle", "stray"}

VARIABLES
    stage,    \* of the host: "idle", "send" (top of the attempts), "await"
    cmd,      \* the payload it is sending
    left,     \* attempts left
    result,   \* of the last command: "ok", "silent"; "none" while it runs
    air,      \* writes the device has not seen yet
    replies,  \* input reports the host has not read yet: echoes, "idle", "stray"
    strays,   \* unrelated reports since the command was issued (bound)
    taken     \* history: did the device take the last command?

commandVars == <<stage, cmd, left, result, air, replies, strays, taken>>

Echo == {c.op : c \in Command}

CommandTypeOK ==
    /\ stage \in {"idle", "send", "await"}
    /\ cmd \in Command \cup {NoCommand}
    /\ stage # "idle" => cmd \in Command
    /\ left \in 0 .. Attempts
    /\ result \in {"none", "ok", "silent"}
    /\ air \in Seq(Command)
    /\ replies \in Seq(Echo \cup {"idle", "stray"})
    /\ strays \in 0 .. MaxStrays
    /\ taken \in BOOLEAN

CommandInit ==
    /\ stage = "idle"
    /\ cmd = NoCommand
    /\ left = 0
    /\ result = "none"
    /\ air = <<>>
    /\ replies = <<>>
    /\ strays = 0
    /\ taken = FALSE

-----------------------------------------------------------------------------
(* The host.                                                               *)

Issue(c) ==
    /\ stage = "idle"
    /\ Len(air) + Len(replies) <= MaxStrays
    /\ stage' = "send"
    /\ cmd' = c
    /\ left' = Attempts
    /\ result' = "none"
    /\ strays' = 0
    /\ taken' = FALSE
    /\ UNCHANGED <<air, replies>>

Return(r) ==
    /\ stage' = "idle"
    /\ cmd' = NoCommand
    /\ left' = 0
    /\ result' = r

\* the command failed to come back: try again, if an attempt is left
Again ==
    /\ stage' = "send"
    /\ UNCHANGED <<cmd, left, result>>

Write ==
    /\ stage = "send" /\ left > 0
    /\ stage' = "await"
    /\ left' = left - 1
    /\ air' = Append(air, cmd)
    /\ UNCHANGED <<cmd, result, replies, strays, taken>>

\* mutant: a failed write is repeated without counting it
WriteFails_Uncounted ==
    /\ "werr" \in Faults
    /\ stage = "send" /\ left > 0
    /\ left' = Attempts
    /\ UNCHANGED <<stage, cmd, result, air, replies, strays, taken>>

WriteFails ==
    /\ "werr" \in Faults
    /\ stage = "send" /\ left > 0
    /\ left' = left - 1
    /\ UNCHANGED <<stage, cmd, result, air, replies, strays, taken>>

GiveUp ==
    /\ stage = "send" /\ left = 0
    /\ Return("silent")
    /\ UNCHANGED <<air, replies, strays, taken>>

\* mutant: any report is taken for the acknowledgement
Read_AnyReport ==
    /\ stage = "await" /\ replies # <<>>
    /\ IF Head(replies) = "idle" THEN Again ELSE Return("ok")
    /\ replies' = Tail(replies)
    /\ UNCHANGED <<air, strays, taken>>

\* steelseries_read_matching(), one report: the idle marker ends the attempt,
\* an unrelated report is dropped
Read ==
    /\ stage = "await" /\ replies # <<>>
    /\ CASE Head(replies) = "idle" -> Again
         [] Head(replies) = cmd.op -> Return("ok")
         [] OTHER -> UNCHANGED <<stage, cmd, left, result>>
    /\ replies' = Tail(replies)
    /\ UNCHANGED <<air, strays, taken>>

\* nothing came within the timeout
Timeout ==
    /\ stage = "await" /\ replies = <<>>
    /\ air = <<>> \/ "late" \in Faults
    /\ Again
    /\ UNCHANGED <<air, replies, strays, taken>>

\* -1 from alloy_dev_read(): what was to be read stays in the queue
ReadFails ==
    /\ "intr" \in Faults
    /\ stage = "await"
    /\ Again
    /\ UNCHANGED <<air, replies, strays, taken>>

Host == Write \/ WriteFails \/ GiveUp \/ Read \/ Timeout \/ ReadFails

-----------------------------------------------------------------------------
(* The device and its link.                                                *)

Take ==
    /\ air # <<>>
    /\ air' = Tail(air)
    /\ taken' = (taken \/ Head(air) = cmd)
    /\ \/ replies' = Append(replies, Head(air).op)
       \/ "deaf" \in Faults /\ UNCHANGED replies
    /\ UNCHANGED <<stage, cmd, left, result, strays>>

\* the receiver answers for a mouse asleep, or nobody does
Drop ==
    /\ "lost" \in Faults
    /\ air # <<>>
    /\ air' = Tail(air)
    /\ replies' \in {replies, Append(replies, "idle")}
    /\ UNCHANGED <<stage, cmd, left, result, strays, taken>>

Stray ==
    /\ "stray" \in Faults
    /\ stage # "idle" /\ strays < MaxStrays /\ Len(replies) < MaxStrays
    /\ strays' = strays + 1
    /\ replies' = Append(replies, "stray")
    /\ UNCHANGED <<stage, cmd, left, result, air, taken>>

CommandNext ==
    \/ \E c \in Command : Issue(c)
    \/ Host
    \/ Take \/ Drop \/ Stray

CommandSpec == CommandInit /\ [][CommandNext]_commandVars

(* The program runs on, and the device answers a write or does not: which   *)
(* of the two is left open, and nobody has to issue a command.             *)
CommandFairSpec ==
    /\ CommandSpec
    /\ WF_commandVars(Host)
    /\ WF_commandVars(Take \/ Drop)

-----------------------------------------------------------------------------

\* The acknowledgement is "a reliable 'command accepted' signal"
\* (Documentation/protocol/steelseries-rival3-gen2.rst:56): a command that
\* returns 0 has been taken by the device, through losses, sleep, failed writes,
\* repetitions and unrelated reports.  It does not hold where an echo can stay
\* behind unread: a later command of the same byte takes it for its own.
AckIsReliable == result = "ok" => taken

\* Every command returns, whatever the device does, if unrelated reports do
\* not keep coming faster than the timeout (steelseries_cmd_read_want).
CommandEnds == stage # "idle" ~> stage = "idle"
==============================================================================
