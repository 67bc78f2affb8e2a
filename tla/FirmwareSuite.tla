----------------------------- MODULE FirmwareSuite -----------------------------
(***************************************************************************)
(* The firmware suite on an emulated or an attached target.                *)
(*                                                                         *)
(* FirmwareTester.run flashes, resets and watches the serial output, and   *)
(* tries again on an exception or when no pattern was seen; afterwards the *)
(* orchestrator closes the target.  Flashing an emulated target starts an  *)
(* emulator process, resetting it ends that one and starts another; each   *)
(* has a pipe of its own.  An attached target reboots, and all it prints   *)
(* goes to one input buffer of the operating system.                       *)
(***************************************************************************)
EXTENDS Integers, FiniteSets

CONSTANTS
  Retries,   \* attempts after the first
  MaxUnread  \* bound on the lines that one boot has printed and nobody has read

ASSUME RetriesAssumption == Retries \in Nat

VARIABLES
  kind,      \* the kind of target
  pc,        \* where the suite is
  attempt,   \* the attempt it is in, from zero
  current,   \* the boot that the target object knows
  alive,     \* the boots that run: emulator processes, or the board's firmware
  unread,    \* lines printed and not read yet, with the boot they are from
  output,    \* lines read in this attempt's window
  timeUp,    \* the window is over
  passed     \* the suite's verdict

vars == <<kind, pc, attempt, current, alive, unread, output, timeUp, passed>>

-----------------------------------------------------------------------------

Attempts == 0..Retries

\* A boot is named by what caused it.
Boots == Attempts \X {"flash", "reset"}
NoBoot == <<0, "none">>

\* What the pass and fail patterns tell apart.
Lines == {"pass", "fail", "other"}

\* The lines that reading the target may return.
Readable == {line \in unread : kind = "qemu" => line[1] = current}

Saw(x) == \E line \in output : line[2] = x

-----------------------------------------------------------------------------

\* flash starts an emulator, and forgets the one it knew; on a board it is a
\* reset, which ends what the firmware was doing.
Boot(how) ==
  /\ current' = <<attempt, how>>
  /\ alive' = IF kind = "qemu" THEN alive \cup {<<attempt, how>>} ELSE {<<attempt, how>>}

\* Faulty variant: one attempt more than there should be.
RetryOnceMore ==
  IF attempt > Retries THEN pc' = "close" /\ UNCHANGED attempt
  ELSE pc' = "flash" /\ attempt' = attempt + 1

\* The attempt is over without a verdict.
Retry ==
  IF attempt = Retries THEN pc' = "close" /\ UNCHANGED attempt
  ELSE pc' = "flash" /\ attempt' = attempt + 1

Flash ==
  /\ pc = "flash"
  /\ Boot("flash")
  /\ pc' = "reset"
  /\ UNCHANGED <<kind, attempt, unread, output, timeUp, passed>>

\* No emulator installed, or no port to open.
FlashRaises ==
  /\ pc = "flash"
  /\ Retry
  /\ UNCHANGED <<kind, current, alive, unread, output, timeUp, passed>>

\* Faulty variant: what earlier attempts read is kept.
ResetKeepsOutput ==
  /\ pc = "reset"
  /\ current' = <<attempt, "reset">>
  /\ alive' = IF kind = "qemu" THEN (alive \ {current}) \cup {<<attempt, "reset">>}
              ELSE {<<attempt, "reset">>}
  /\ pc' = "read" /\ timeUp' = FALSE
  /\ UNCHANGED <<kind, attempt, unread, output, passed>>

\* The emulator that flash started is terminated and another is started.  The
\* watch begins.
Reset ==
  /\ pc = "reset"
  /\ current' = <<attempt, "reset">>
  /\ alive' = IF kind = "qemu" THEN (alive \ {current}) \cup {<<attempt, "reset">>}
              ELSE {<<attempt, "reset">>}
  /\ pc' = "read" /\ timeUp' = FALSE /\ output' = {}
  /\ UNCHANGED <<kind, attempt, unread, passed>>

\* The reset raises: for the emulator, after it was terminated.
ResetRaises ==
  /\ pc = "reset"
  /\ alive' = IF kind = "qemu" THEN alive \ {current} ELSE alive
  /\ Retry
  /\ UNCHANGED <<kind, current, unread, output, timeUp, passed>>

\* Within the window, the emulator's pipe is asked for a line, which blocks
\* until there is one or the pipe is closed.
AwaitLine ==
  /\ pc = "read" /\ kind = "qemu" /\ ~timeUp
  /\ pc' = "line"
  /\ UNCHANGED <<kind, attempt, current, alive, unread, output, timeUp, passed>>

GotLine ==
  /\ pc = "line"
  /\ \E line \in Readable : output' = output \cup {line} /\ unread' = unread \ {line}
  /\ pc' = "read"
  /\ UNCHANGED <<kind, attempt, current, alive, timeUp, passed>>

\* Faulty variant: a closed pipe is read again without a look at the clock.
EndOfFileIgnored ==
  /\ pc = "line"
  /\ Readable = {} /\ current \notin alive
  /\ UNCHANGED vars

EndOfFile ==
  /\ pc = "line"
  /\ Readable = {} /\ current \notin alive
  /\ pc' = "read"
  /\ UNCHANGED <<kind, attempt, current, alive, unread, output, timeUp, passed>>

\* The board's input buffer is emptied whenever it holds something.
TakeBuffer ==
  /\ pc = "read" /\ kind = "serial" /\ ~timeUp
  /\ Readable # {}
  /\ output' = output \cup Readable /\ unread' = unread \ Readable
  /\ UNCHANGED <<kind, pc, attempt, current, alive, timeUp, passed>>

\* The port is gone, or a line is not text: what was read is lost.
ReadRaises ==
  /\ IF kind = "qemu" THEN pc = "line" ELSE pc = "read"
  /\ output' = {}
  /\ Retry
  /\ UNCHANGED <<kind, current, alive, unread, timeUp, passed>>

\* The window is over and the patterns are looked for, the fail patterns first.
Judge ==
  /\ pc = "read" /\ timeUp
  /\ passed' = (Saw("pass") /\ ~Saw("fail"))
  /\ IF Saw("pass") \/ Saw("fail") THEN pc' = "close" /\ UNCHANGED attempt ELSE Retry
  /\ UNCHANGED <<kind, current, alive, unread, output, timeUp>>

\* Faulty variant: the target has nothing to clean up.
CloseNothing ==
  /\ pc = "close"
  /\ pc' = "done"
  /\ UNCHANGED <<kind, attempt, current, alive, unread, output, timeUp, passed>>

\* The orchestrator closes the target, which ends the emulator it knows.
Close ==
  /\ pc = "close"
  /\ alive' = IF kind = "qemu" THEN alive \ {current} ELSE alive
  /\ pc' = "done"
  /\ UNCHANGED <<kind, attempt, current, unread, output, timeUp, passed>>

-----------------------------------------------------------------------------

\* Time passes in the window.
WindowElapses ==
  /\ pc \in {"read", "line"} /\ ~timeUp
  /\ timeUp' = TRUE
  /\ UNCHANGED <<kind, pc, attempt, current, alive, unread, output, passed>>

\* Into the pipe or the input buffer, as long as there is room.
Prints(boot, x) ==
  /\ boot \in alive
  /\ Cardinality({line \in unread : line[1] = boot}) < MaxUnread
  /\ unread' = unread \cup {<<boot, x>>}
  /\ UNCHANGED <<kind, pc, attempt, current, alive, output, timeUp, passed>>

\* An emulator ends by itself, for instance because it cannot load the binary.
Exits(boot) ==
  /\ kind = "qemu" /\ boot \in alive
  /\ alive' = alive \ {boot}
  /\ UNCHANGED <<kind, pc, attempt, current, unread, output, timeUp, passed>>

Firmware == \E boot \in Boots : Exits(boot) \/ \E x \in Lines : Prints(boot, x)

-----------------------------------------------------------------------------

Init ==
  /\ kind \in {"qemu", "serial"}
  /\ pc = "flash" /\ attempt = 0
  /\ current = NoBoot /\ alive = {} /\ unread = {} /\ output = {}
  /\ timeUp = FALSE /\ passed = FALSE

\* The steps that succeed, and those that raise.
Works ==
  \/ Flash \/ Reset
  \/ AwaitLine \/ GotLine \/ EndOfFile \/ TakeBuffer
  \/ Judge \/ Close

Raises == FlashRaises \/ ResetRaises \/ ReadRaises

Next == Works \/ Raises \/ WindowElapses \/ Firmware

Spec == Init /\ [][Next]_vars

\* The suite's thread runs and time passes.  Nothing is asked of the firmware,
\* and no step has to raise.
FairSpec == Spec /\ WF_vars(Works) /\ WF_vars(WindowElapses)

\* Firmware that prints or ends while the suite waits for a line.
Answers ==
  /\ pc = "line" /\ Readable = {}
  /\ Exits(current) \/ \E x \in Lines : Prints(current, x)

TalkingSpec == FairSpec /\ WF_vars(Answers)

-----------------------------------------------------------------------------

TypeOK ==
  /\ kind \in {"qemu", "serial"}
  /\ pc \in {"flash", "reset", "read", "line", "close", "done"}
  /\ attempt \in Attempts
  /\ current \in Boots \cup {NoBoot}
  /\ alive \subseteq Boots
  /\ unread \subseteq Boots \X Lines /\ output \subseteq Boots \X Lines
  /\ timeUp \in BOOLEAN /\ passed \in BOOLEAN

\* An emulated target passes on what the emulator of the last reset printed
\* and on nothing that an earlier attempt or the first of the two boots
\* printed, although emulators of earlier attempts may still be printing
\* (FirmwareTester.run, QEMUTarget.read_serial).
PassIsOfThisBoot ==
  passed /\ kind = "qemu" =>
    /\ Saw("pass") /\ ~Saw("fail")
    /\ \A line \in output : line[1] = <<attempt, "reset">>

\* Whatever fails on the way, the target's close leaves no emulator of the last
\* attempt behind and none that a flash started; what is left, one for each
\* earlier attempt at most, are emulators that an earlier attempt's reset
\* started and the next flash forgot (QEMUTarget.flash, QEMUTarget.close).
LeftoversAreOld ==
  pc = "done" /\ kind = "qemu" => alive \subseteq {<<a, "reset">> : a \in 0..(attempt - 1)}

\* With firmware that says something while it is listened to, the suite comes
\* to an end, whichever steps fail and whatever is retried
\* (FirmwareTester.run).
SuiteEnds == <>(pc = "done")

=============================================================================
