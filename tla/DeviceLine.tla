------------------------------ MODULE DeviceLine ------------------------------
(***************************************************************************)
(* A board on a serial line: the real-time profiler's trace and the        *)
(* telemetry capture (RTProfiler._collect, LiveTelemetryProvider.records,  *)
(* SerialTarget).                                                          *)
(*                                                                         *)
(* The board prints lines, in two halves here; the operating system        *)
(* buffers what nobody has read.  run_command writes a command and returns *)
(* all that is read for some seconds, so that it takes whatever the board  *)
(* says in the meantime, and a read begins and ends anywhere in a line.    *)
(***************************************************************************)
EXTENDS Integers, Sequences

CONSTANT MaxLines  \* bound on the lines the board prints

ASSUME LineAssumption == MaxLines \in Nat \ {0}

VARIABLES
  kind,     \* a serial board, or a target whose reads bring nothing
  wire,     \* where the two captures are
  mode,     \* what the board is doing
  mid,      \* the kind of the line it is in the middle of
  printed,  \* lines it has begun
  inbox,    \* commands it has not got to yet
  rx,       \* printed and not read
  text,     \* what the current read has collected
  since,    \* lines printed when the profile was started
  timing,   \* the profiler's result
  rest,     \* the telemetry adapter's buffer
  records   \* the lines that were parsed

lineVars == <<kind, wire, mode, mid, printed, inbox, rx, text, since, timing, rest, records>>
boardVars == <<kind, mode, mid, printed, inbox>>
resultVars == <<since, timing, rest, records>>

-----------------------------------------------------------------------------

LineKinds == {"T", "task", "late", "boot"}
Piece == [line : Nat, half : {1, 2}, is : LineKinds \cup {"newline"}]
Newline == [line |-> 0, half |-> 2, is |-> "newline"]

NoTiming == [passed |-> FALSE, origin |-> "none", lines |-> {}]

Collecting == {"trace", "capture", "status reply"}
Dropping == {"start reply", "stop reply"}
Profiling == {"start", "start reply", "trace", "stop reply"}

\* Where lines end.
Ends(pieces) == {i \in DOMAIN pieces : pieces[i].half = 2}

\* The line that ends at i is the one that the board printed, from its start.
Whole(pieces, i) ==
  /\ i > 1 /\ pieces[i - 1].line = pieces[i].line
  /\ i = 2 \/ pieces[i - 2].half = 2

-----------------------------------------------------------------------------
(* The board.                                                              *)

Obey ==
  /\ inbox # <<>>
  /\ mode' = CASE Head(inbox) = "start" -> "profile"
               [] Head(inbox) = "stop" /\ mode = "profile" -> "run"
               [] OTHER -> mode
  /\ inbox' = Tail(inbox)
  /\ UNCHANGED <<kind, wire, mid, printed, rx, text, resultVars>>

\* Whether a task was late matters to the profiler only.
PrintStart ==
  /\ kind = "serial" /\ wire \notin {"idle", "over", "raised"}
  /\ mid = "none" /\ printed < MaxLines
  /\ mid' \in CASE mode = "profile" -> {"task"} \cup (IF wire \in Profiling THEN {"late"} ELSE {})
                [] mode = "boot" -> {"boot"}
                [] OTHER -> {"T"}
  /\ mode' = IF mode = "boot" THEN "run" ELSE mode
  /\ printed' = printed + 1
  /\ rx' = Append(rx, [line |-> printed + 1, half |-> 1, is |-> mid'])
  /\ UNCHANGED <<kind, wire, inbox, text, resultVars>>

PrintRest ==
  /\ mid # "none"
  /\ rx' = Append(rx, [line |-> printed, half |-> 2, is |-> mid])
  /\ mid' = "none"
  /\ UNCHANGED <<kind, wire, mode, printed, inbox, text, resultVars>>

Board == Obey \/ PrintStart \/ PrintRest

-----------------------------------------------------------------------------
(* Reading.                                                                *)

\* A read begins by taking what is there.
BeginRead(step) == wire' = step /\ text' = rx /\ rx' = <<>>

Poll ==
  /\ wire \in Collecting /\ rx # <<>>
  /\ text' = text \o rx /\ rx' = <<>>
  /\ UNCHANGED <<boardVars, wire, resultVars>>

\* What is read in answer to a command of the profiler is not looked at.
DropReply ==
  /\ wire \in Dropping /\ rx # <<>>
  /\ rx' = <<>>
  /\ UNCHANGED <<boardVars, wire, text, resultVars>>

Command(c) ==
  /\ inbox' = Append(inbox, c)
  /\ UNCHANGED <<kind, mode, mid, printed>>

-----------------------------------------------------------------------------
(* The profiler.                                                           *)

\* Faulty variant: the command is written and the trace is read at once.
StartProfileUnanswered ==
  /\ wire = "start"
  /\ Command("start") /\ BeginRead("trace")
  /\ since' = printed
  /\ UNCHANGED <<timing, rest, records>>

StartProfile ==
  /\ wire = "start"
  /\ Command("start")
  /\ wire' = "start reply" /\ rx' = <<>>
  /\ since' = printed
  /\ UNCHANGED <<text, timing, rest, records>>

BeginTrace ==
  /\ wire = "start reply"
  /\ BeginRead("trace")
  /\ UNCHANGED <<boardVars, resultVars>>

\* The task lines of a trace; a last line that was cut may be one.
TaskLines(cut) ==
  LET seen == {i \in Ends(text) : Whole(text, i)}
                \cup {i \in {Len(text)} : cut /\ i > 0 /\ text[i].half = 1}
  IN {text[i] : i \in {j \in seen : text[j].is \in {"task", "late"}}}

Synthetic(passed) == timing' = [passed |-> passed, origin |-> "simulator", lines |-> {}]

\* A device's trace is judged once the profile was stopped.
StopProfile ==
  /\ wire = "trace"
  /\ Command("stop")
  /\ wire' = "stop reply" /\ rx' = <<>>
  /\ UNCHANGED <<text, resultVars>>

Judged(lines) == lines # {} /\ \A l \in lines : l.is # "late"

\* A blank trace is replaced by a synthetic one, which may pass.
JudgeTrace ==
  /\ wire = "stop reply"
  /\ IF text = <<>> THEN \E passed \in BOOLEAN : Synthetic(passed)
     ELSE \E cut \in BOOLEAN :
            timing' = [passed |-> Judged(TaskLines(cut)), origin |-> "device",
                       lines |-> {l.line : l \in TaskLines(cut)}]
  /\ wire' = "suites over" /\ text' = <<>>
  /\ UNCHANGED <<boardVars, rx, since, rest, records>>

\* A command or a read raises: the trace that was read is given up for a
\* synthetic one, and the board may be left profiling.
ProfileRaises ==
  /\ wire \in Profiling
  /\ \E passed \in BOOLEAN : Synthetic(passed)
  /\ wire' = "suites over" /\ text' = <<>>
  /\ UNCHANGED <<boardVars, rx, since, rest, records>>

-----------------------------------------------------------------------------
(* The telemetry capture, on a target object of its own.                   *)

\* Opening the port empties the operating system's buffer.
OpenLine ==
  /\ wire = "suites over"
  /\ rx' = <<>>
  /\ wire' \in {"flash", "ready", "over"}
  /\ UNCHANGED <<boardVars, text, resultVars>>

\* Flashing a serial board is a reset.
ResetBoard ==
  /\ wire = "flash"
  /\ mode' = "boot" /\ mid' = "none" /\ inbox' = <<>>
  /\ wire' = "ready"
  /\ UNCHANGED <<kind, printed, rx, text, resultVars>>

BeginCapture ==
  /\ wire = "ready"
  /\ BeginRead("capture")
  /\ UNCHANGED <<boardVars, resultVars>>

\* The newline that is put behind the answer ends a line that was cut, or none.
EndsNothing(pieces, i) == pieces[i] = Newline /\ (i = 1 \/ pieces[i - 1].half = 2)

RecordAt(pieces, i) ==
  LET line == IF pieces[i] = Newline THEN pieces[i - 1] ELSE pieces[i]
  IN [line |-> line.line, boot |-> line.is = "boot", whole |-> Whole(pieces, i)]

\* The records after the first i pieces, behind those there were before.
Parsing(pieces, before) ==
  LET upTo[i \in 0..Len(pieces)] ==
        IF i = 0 THEN before
        ELSE IF i \in Ends(pieces) /\ ~EndsNothing(pieces, i)
          THEN Append(upTo[i - 1], RecordAt(pieces, i))
        ELSE upTo[i - 1]
  IN upTo

Parsed(pieces, before) == Parsing(pieces, before)[Len(pieces)]

\* Faulty variant: each chunk is parsed by itself.
FeedAlone(chunk) ==
  /\ records' = Parsed(Append(chunk, Newline), records)
  /\ rest' = <<>>

\* Complete lines are parsed and the rest is kept for the next chunk.
Feed(chunk) ==
  LET pieces == rest \o chunk
      last == IF Ends(pieces) = {} THEN 0 ELSE CHOOSE i \in Ends(pieces) : \A j \in Ends(pieces) : j <= i
  IN /\ records' = Parsed(pieces, records)
     /\ rest' = SubSeq(pieces, last + 1, Len(pieces))

AskStatus ==
  /\ wire = "capture"
  /\ Feed(text)
  /\ Command("status") /\ BeginRead("status reply")
  /\ UNCHANGED <<since, timing>>

EndCapture ==
  /\ wire = "status reply"
  /\ Feed(Append(text, Newline))
  /\ wire' = "over" /\ text' = <<>>
  /\ UNCHANGED <<boardVars, rx, since, timing>>

CaptureRaises ==
  /\ wire \in {"flash", "ready", "capture", "status reply"}
  /\ wire' = "raised" /\ text' = <<>>
  /\ UNCHANGED <<boardVars, rx, resultVars>>

-----------------------------------------------------------------------------

ProfileSteps ==
  StartProfile \/ BeginTrace \/ StopProfile \/ JudgeTrace \/ ProfileRaises

CaptureSteps ==
  OpenLine \/ ResetBoard \/ BeginCapture \/ AskStatus \/ EndCapture \/ CaptureRaises

Reads == Poll \/ DropReply

\* The firmware suite may have left the port open, something in its buffer,
\* and the board profiling since an earlier run.
LineInit ==
  /\ kind \in {"serial", "mute"}
  /\ wire = "idle"
  /\ inbox = <<>> /\ text = <<>> /\ since = 0
  /\ timing = NoTiming /\ rest = <<>> /\ records = <<>>
  /\ \/ mode = "run" /\ mid = "none" /\ printed = 0 /\ rx = <<>>
     \/ /\ kind = "serial" /\ mode = "profile" /\ mid = "task" /\ printed = 1
        /\ rx = <<[line |-> 1, half |-> 1, is |-> "task"]>>

-----------------------------------------------------------------------------

LineTypeOK ==
  /\ kind \in {"serial", "mute"}
  /\ wire \in Collecting \cup Dropping \cup {"idle", "start", "suites over", "flash", "ready", "over", "raised"}
  /\ mode \in {"run", "profile", "boot"} /\ mid \in LineKinds \cup {"none"}
  /\ printed \in 0..MaxLines /\ since \in 0..MaxLines
  /\ inbox \in Seq({"start", "stop", "status"})
  /\ rx \in Seq(Piece) /\ text \in Seq(Piece) /\ rest \in Seq(Piece)
  /\ timing \in [passed : BOOLEAN, origin : {"none", "device", "simulator"},
                 lines : SUBSET (1..MaxLines)]
  /\ \A i \in DOMAIN records : records[i].line \in 1..MaxLines

\* Timing that is called the device's was read from a board, was printed after
\* the profile was started, and passes with a task in it only.
TimingIsOfThisProfile ==
  timing.origin = "device" =>
    /\ kind = "serial"
    /\ \A n \in timing.lines : n > since
    /\ timing.passed => timing.lines # {}

\* What the capture parsed is what the board printed, line by line and without
\* a gap, across the boundary between the stream and the answer to status:
\* only the first line, the last line and the one a reset broke may be parsed
\* from less or more than a line (LiveTelemetryProvider.records,
\* LineProtocolAdapter.feed).
TelemetryIsWhole ==
  /\ \A i \in DOMAIN records :
       records[i].whole \/ i \in {1, Len(records)} \/ records[i].boot
  /\ \A i \in 1..(Len(records) - 1) :
       \/ records[i + 1].line = records[i].line + 1
       \/ records[i + 1].boot /\ records[i + 1].line > records[i].line

=============================================================================
