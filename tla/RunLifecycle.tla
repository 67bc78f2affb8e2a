------------------------------ MODULE RunLifecycle ------------------------------
(***************************************************************************)
(* One recorded validation run: the worker that executes the pipeline and  *)
(* keeps the run's manifest (RunSession, ValidationPipeline.run), the      *)
(* manifest file on disk (RunStore), and the processes that read the store *)
(* and reconcile abandoned runs (dashboard pages, `eaiv runs list`).       *)
(*                                                                         *)
(* The worker rewrites the whole manifest from its memory and never reads  *)
(* it back.  A reader loads the file, decides from the heartbeat and the   *)
(* pid in ITS COPY whether the run was abandoned, and then writes that     *)
(* copy back marked "interrupted".  The three steps are separate, and      *)
(* nothing locks the file.                                                 *)
(*                                                                         *)
(* Time is kept as ages: numbers of ticks that saturate just past the      *)
(* thresholds the code compares them with.                                 *)
(***************************************************************************)
EXTENDS Naturals

CONSTANTS
  NStages,            \* pipeline stages: build, validate, telemetry, ...
  Readers,            \* processes that read the store and reconcile
  HeartbeatInterval,  \* least age at which an event rewrites the manifest
  StaleAfter,         \* a younger heartbeat always means "alive"
  Ceiling,            \* past this age even a live pid is not believed
  SaveMayFail,        \* whether writing a manifest may raise OSError
  LookMayFail         \* whether reading the cancellation sentinel may

ASSUME StagesAssumption == NStages \in Nat \ {0}
ASSUME ClockAssumption ==
  /\ HeartbeatInterval \in Nat
  /\ StaleAfter \in Nat
  /\ Ceiling \in Nat
  /\ 0 < HeartbeatInterval /\ HeartbeatInterval <= StaleAfter
  /\ StaleAfter < Ceiling
ASSUME FaultAssumption == SaveMayFail \in BOOLEAN /\ LookMayFail \in BOOLEAN

VARIABLES
  proc,        \* the worker's process: "alive", "dead", or its pid "recycled"
  host,        \* "cli": the process ends with the run; "dashboard": it does not
  wpc,         \* the worker's control point
  current,     \* the stage in hand
  mem,         \* the worker's manifest
  memAge,      \* time since the worker last tried to save it
  token,       \* the cancellation token's event is set
  polled,      \* the sentinel file was looked at less than 0.25 s ago
  cancelled,   \* PipelineResult.cancelled
  cancelFile,  \* cancel.request exists in the run directory
  disk,        \* manifest.json
  diskAge,     \* age of the heartbeat in manifest.json
  rpc,         \* each reader's control point
  copy,        \* each reader's loaded manifest
  copyAge,     \* age of the heartbeat in that copy
  cut,         \* history: the stage whose body was cut short, or 0
  early,       \* history: cancellation was requested before the run started,
               \* and no look at the sentinel has raised
  ripe         \* history: a poll interval or more has passed since cancellation
               \* was requested and since a look at the sentinel last raised

procVars == <<proc, host>>
workVars == <<wpc, current, mem, cancelled, cut>>
cancelVars == <<token, polled, cancelFile, early, ripe>>
diskVars == <<disk, diskAge>>
readVars == <<rpc, copy, copyAge>>
vars == <<procVars, workVars, memAge, cancelVars, diskVars, readVars>>

-----------------------------------------------------------------------------

Stages == 1..NStages
Ages == 0..(Ceiling + 1)

Active == {"pending", "running"}
Decided == {"passed", "failed", "cancelled", "error"}
Terminal == Decided \cup {"interrupted"}

\* "none": the manifest holds no record of the stage.
StageStatus == {"none", "running", "ok", "skipped", "failed", "cancelled"}
FailureType == {"none", "stage", "crash", "interrupted"}

Manifest ==
  [status      : Active \cup Terminal,
   stages      : [Stages -> StageStatus],
   failure     : FailureType,
   failedStage : 0..NStages]

NewManifest ==
  [status      |-> "pending",
   stages      |-> [s \in Stages |-> "none"],
   failure     |-> "none",
   failedStage |-> 0]

Older(a) == IF a <= Ceiling THEN a + 1 ELSE a
QuietLonger(a) == IF a < HeartbeatInterval THEN a + 1 ELSE a

\* The first stage of m in the given status, 0 when there is none.
FirstStage(m, status) ==
  IF \E s \in Stages : m.stages[s] = status
  THEN CHOOSE s \in Stages :
         m.stages[s] = status /\ \A t \in Stages : t < s => m.stages[t] # status
  ELSE 0

-----------------------------------------------------------------------------
(* Saving, and the cancellation token.                                     *)

\* RunSession.flush: an OSError is logged and swallowed, and the heartbeat
\* clock restarts either way.
Flush(m) ==
  /\ memAge' = 0
  /\ \/ disk' = m /\ diskAge' = 0
     \/ SaveMayFail /\ UNCHANGED diskVars

\* What CancellationToken.cancelled returns: the sentinel file is looked at
\* only when the last look is at least the poll interval ago.
CancelSeen == token \/ (cancelFile /\ ~polled)

\* The token after a check that answered "not cancelled": it was not time for
\* a look, there was no sentinel, or exists() or read_text() raised an
\* OSError on the one that is there, which is caught and answered FALSE.
PolledInVain ==
  /\ polled' = TRUE
  /\ \/ ~CancelSeen /\ UNCHANGED <<early, ripe>>
     \/ /\ LookMayFail /\ cancelFile /\ ~token /\ ~polled
        /\ early' = FALSE /\ ripe' = FALSE
  /\ UNCHANGED <<token, cancelFile>>

\* The token after a check that found a request; RunCancelled is raised.
RaisedCancelled ==
  /\ CancelSeen
  /\ token' = TRUE
  /\ polled' = IF token THEN polled ELSE TRUE
  /\ UNCHANGED <<cancelFile, early, ripe>>

Working == proc = "alive"

-----------------------------------------------------------------------------
(* The worker.                                                             *)

\* Faulty variant: starting the run also clears the sentinel file.
StartClearsCancel ==
  /\ Working /\ wpc = "queued"
  /\ wpc' = "boundary"
  /\ mem' = [mem EXCEPT !.status = "running"]
  /\ Flush(mem')
  /\ cancelFile' = FALSE
  /\ UNCHANGED <<procVars, current, cancelled, cut, token, polled, early, ripe, readVars>>

\* ValidationPipeline.run up to the first stage.
Start ==
  /\ Working /\ wpc = "queued"
  /\ wpc' = "boundary"
  /\ mem' = [mem EXCEPT !.status = "running"]
  /\ Flush(mem')
  /\ UNCHANGED <<procVars, current, cancelled, cut, cancelVars, readVars>>

\* Faulty variant: a stage begins without looking for a cancellation.
BeginStageUnchecked ==
  /\ Working /\ wpc = "boundary"
  /\ wpc' = "body"
  /\ mem' = [mem EXCEPT !.stages[current] = "running"]
  /\ Flush(mem')
  /\ UNCHANGED <<procVars, current, cancelled, cut, cancelVars, readVars>>

\* A stage begins once the check between stages found no cancellation.
BeginStage ==
  /\ Working /\ wpc = "boundary"
  /\ PolledInVain
  /\ wpc' = "body"
  /\ mem' = [mem EXCEPT !.stages[current] = "running"]
  /\ Flush(mem')
  /\ UNCHANGED <<procVars, current, cancelled, cut, readVars>>

\* The check between stages raised RunCancelled: the remaining stages are
\* marked in the result only, never in the manifest.
CancelAtBoundary ==
  /\ Working /\ wpc = "boundary"
  /\ RaisedCancelled
  /\ wpc' = "finishing"
  /\ cancelled' = TRUE
  /\ UNCHANGED <<procVars, current, mem, memAge, cut, diskVars, readVars>>

\* An event emitted inside a stage refreshes a heartbeat that is due.
Progress ==
  /\ Working /\ wpc = "body"
  /\ memAge = HeartbeatInterval
  /\ Flush(mem)
  /\ UNCHANGED <<procVars, workVars, cancelVars, readVars>>

\* A suite loop or the telemetry capture looks for a cancellation in vain.
CheckInBody ==
  /\ Working /\ wpc = "body"
  /\ PolledInVain
  /\ UNCHANGED <<procVars, workVars, memAge, diskVars, readVars>>

\* The stage's function returns, or raises an Exception that is recorded.
EndStage(status) ==
  /\ Working /\ wpc = "body"
  /\ mem' = [mem EXCEPT !.stages[current] = status]
  /\ IF current = NStages
     THEN wpc' = "finishing" /\ UNCHANGED current
     ELSE wpc' = "boundary" /\ current' = current + 1
  /\ Flush(mem')
  /\ UNCHANGED <<procVars, cancelled, cut, cancelVars, readVars>>

\* RunCancelled is raised inside the stage.
CancelInBody ==
  /\ Working /\ wpc = "body"
  /\ RaisedCancelled
  /\ wpc' = "finishing"
  /\ cancelled' = TRUE
  /\ mem' = [mem EXCEPT !.stages[current] = "cancelled"]
  /\ Flush(mem')
  /\ UNCHANGED <<procVars, current, cut, readVars>>

\* Faulty variant: the stage's context manager swallows the exception and
\* the run is closed out as if the stage had returned.
EscapeSwallowed == "finishing"

\* Where an exception no stage handler catches takes the worker: the
\* launcher's handler on a dashboard, out of the process on the command line.
EscapeTo == IF host = "dashboard" THEN "crashed" ELSE "unwound"

\* KeyboardInterrupt or SystemExit inside a stage.  The context manager's
\* finally clause finds the record still "running", closes it as "ok" and
\* saves it, and the exception goes on.
EscapeFromStage ==
  /\ Working /\ wpc = "body"
  /\ wpc' = EscapeTo
  /\ cut' = current
  /\ mem' = [mem EXCEPT !.stages[current] = "ok"]
  /\ Flush(mem')
  /\ UNCHANGED <<procVars, current, cancelled, cancelVars, readVars>>

\* The same between stages or while the run is being closed out, where any
\* exception escapes.
EscapeBetweenStages ==
  /\ Working /\ wpc \in {"boundary", "finishing"}
  /\ wpc' = EscapeTo
  /\ UNCHANGED <<procVars, current, mem, memAge, cancelled, cut, cancelVars,
                 diskVars, readVars>>

\* Faulty variant: a run that passed is given the status of a stage.
StatusOfStage ==
  IF cancelled THEN "cancelled"
  ELSE IF \E s \in Stages : mem.stages[s] = "failed" THEN "failed"
  ELSE "ok"

\* ValidationPipeline._finalize and RunSession.finish.
PipelineStatus ==
  IF cancelled THEN "cancelled"
  ELSE IF \E s \in Stages : mem.stages[s] = "failed" THEN "failed"
  ELSE "passed"

Finish ==
  /\ Working /\ wpc = "finishing"
  /\ wpc' = "done"
  /\ mem' = [mem EXCEPT !.status = PipelineStatus,
                        !.failedStage = FirstStage(mem, "failed"),
                        !.failure = IF FirstStage(mem, "failed") = 0
                                    THEN "none" ELSE "stage"]
  /\ Flush(mem')
  /\ UNCHANGED <<procVars, current, cancelled, cut, cancelVars, readVars>>

\* Faulty variant: the handler also runs after a run that finished.
FinishCrashedTwice ==
  /\ Working /\ wpc \in {"crashed", "done"}
  /\ wpc' = "done"
  /\ mem' = [mem EXCEPT !.status = "error", !.failure = "crash"]
  /\ Flush(mem')
  /\ UNCHANGED <<procVars, current, cancelled, cut, cancelVars, readVars>>

\* RunLauncher's handler: session.finish(ERROR).
FinishCrashed ==
  /\ Working /\ wpc = "crashed"
  /\ wpc' = "done"
  /\ mem' = [mem EXCEPT !.status = "error", !.failure = "crash"]
  /\ Flush(mem')
  /\ UNCHANGED <<procVars, current, cancelled, cut, cancelVars, readVars>>

Worker ==
  \/ Start \/ BeginStage \/ CancelAtBoundary
  \/ Progress \/ CheckInBody \/ CancelInBody
  \/ \E status \in {"ok", "skipped", "failed"} : EndStage(status)
  \/ EscapeFromStage \/ EscapeBetweenStages
  \/ Finish \/ FinishCrashed

-----------------------------------------------------------------------------
(* The process, the user and the clock.                                    *)

\* The command-line process ends with its run.
Exit ==
  /\ Working /\ host = "cli" /\ wpc \in {"done", "unwound"}
  /\ proc' = "dead"
  /\ UNCHANGED <<host, workVars, memAge, cancelVars, diskVars, readVars>>

\* Killed, or the machine lost power.
Crash ==
  /\ Working
  /\ proc' = "dead"
  /\ UNCHANGED <<host, workVars, memAge, cancelVars, diskVars, readVars>>

\* The operating system gives the pid to another process, and takes it back.
PidRecycled ==
  /\ proc = "dead" /\ proc' = "recycled"
  /\ UNCHANGED <<host, workVars, memAge, cancelVars, diskVars, readVars>>

PidFreed ==
  /\ proc = "recycled" /\ proc' = "dead"
  /\ UNCHANGED <<host, workVars, memAge, cancelVars, diskVars, readVars>>

\* request_cancel writes the sentinel file, whatever state the run is in.
RequestCancel ==
  /\ ~cancelFile
  /\ cancelFile' = TRUE
  /\ early' = (wpc = "queued")
  /\ UNCHANGED <<procVars, workVars, memAge, token, polled, ripe, diskVars, readVars>>

Tick ==
  /\ memAge' = QuietLonger(memAge)
  /\ diskAge' = Older(diskAge)
  /\ copyAge' = [r \in Readers |-> IF rpc[r] = "idle" THEN 0 ELSE Older(copyAge[r])]
  /\ polled' = FALSE
  /\ ripe' = cancelFile
  /\ UNCHANGED <<procVars, workVars, token, cancelFile, early, disk, rpc, copy>>

-----------------------------------------------------------------------------
(* The readers.                                                            *)

ProcessAlive == proc \in {"alive", "recycled"}

\* Faulty variants: a live pid is believed for ever, or never asked for.
NeverPastPid(m, age) == age >= StaleAfter /\ ~ProcessAlive
StaleIsEnough(m, age) == age >= StaleAfter

\* RunStore._is_abandoned, on a manifest and the age of its heartbeat.
IsAbandoned(m, age) ==
  /\ age >= StaleAfter
  /\ \/ age > Ceiling /\ m.status # "pending"
     \/ ~ProcessAlive

\* Faulty variant: the stage in flight is left as it was.
InterruptedOnTop(m) ==
  [m EXCEPT !.status = "interrupted",
            !.failedStage = IF m.failure = "none" THEN FirstStage(m, "running") ELSE @,
            !.failure = IF m.failure = "none" THEN "interrupted" ELSE @]

\* The manifest RunStore._reconcile writes for an abandoned run.
Interrupted(m) ==
  [m EXCEPT !.status = "interrupted",
            !.failedStage = IF m.failure = "none" THEN FirstStage(m, "running") ELSE @,
            !.failure = IF m.failure = "none" THEN "interrupted" ELSE @,
            !.stages = [s \in Stages |->
                          IF m.stages[s] = "running" THEN "failed" ELSE m.stages[s]]]

\* RunStore.load reads the file; a terminal manifest is returned as it is.
Load(r) ==
  /\ rpc[r] = "idle"
  /\ disk.status \in Active
  /\ rpc' = [rpc EXCEPT ![r] = "loaded"]
  /\ copy' = [copy EXCEPT ![r] = disk]
  /\ copyAge' = [copyAge EXCEPT ![r] = diskAge]
  /\ UNCHANGED <<procVars, workVars, memAge, cancelVars, diskVars>>

\* A reader drops what it loaded.
Forget(r) ==
  /\ rpc' = [rpc EXCEPT ![r] = "idle"]
  /\ copy' = [copy EXCEPT ![r] = NewManifest]
  /\ copyAge' = [copyAge EXCEPT ![r] = 0]

\* Faulty variant: a run that is not abandoned is saved again by its reader.
JudgeAndTouch(r) ==
  /\ rpc[r] = "loaded"
  /\ IF IsAbandoned(copy[r], copyAge[r])
     THEN /\ rpc' = [rpc EXCEPT ![r] = "condemned"]
          /\ UNCHANGED <<copy, copyAge, diskVars>>
     ELSE Forget(r) /\ disk' = copy[r] /\ diskAge' = 0
  /\ UNCHANGED <<procVars, workVars, memAge, cancelVars>>

Judge(r) ==
  /\ rpc[r] = "loaded"
  /\ IF IsAbandoned(copy[r], copyAge[r])
     THEN rpc' = [rpc EXCEPT ![r] = "condemned"] /\ UNCHANGED <<copy, copyAge>>
     ELSE Forget(r)
  /\ UNCHANGED <<procVars, workVars, memAge, cancelVars, diskVars>>

\* The condemned copy replaces the file, whatever the file holds by now, and
\* the heartbeat stays that of the copy.
Condemn(r) ==
  /\ rpc[r] = "condemned"
  /\ disk' = Interrupted(copy[r])
  /\ diskAge' = copyAge[r]
  /\ Forget(r)
  /\ UNCHANGED <<procVars, workVars, memAge, cancelVars>>

\* The reader's write raises OSError, which is logged.
CondemnFails(r) ==
  /\ SaveMayFail
  /\ rpc[r] = "condemned"
  /\ Forget(r)
  /\ UNCHANGED <<procVars, workVars, memAge, cancelVars, diskVars>>

Reader(r) == Load(r) \/ Judge(r) \/ Condemn(r) \/ CondemnFails(r)

-----------------------------------------------------------------------------

\* RunSession.__init__: the run directory exists, any old sentinel file is
\* gone, and the pending manifest is saved.
Init ==
  /\ proc = "alive"
  /\ host \in {"cli", "dashboard"}
  /\ wpc = "queued"
  /\ current = 1
  /\ mem = NewManifest
  /\ memAge = 0
  /\ token = FALSE
  /\ polled = FALSE
  /\ cancelled = FALSE
  /\ cancelFile = FALSE
  /\ disk = NewManifest
  /\ diskAge = 0
  /\ rpc = [r \in Readers |-> "idle"]
  /\ copy = [r \in Readers |-> NewManifest]
  /\ copyAge = [r \in Readers |-> 0]
  /\ cut = 0
  /\ early = FALSE
  /\ ripe = FALSE

Environment == Exit \/ Crash \/ PidRecycled \/ PidFreed \/ RequestCancel \/ Tick

Next == Worker \/ Environment \/ \E r \in Readers : Reader(r)

Spec == Init /\ [][Next]_vars

\* Time passes, and somebody keeps looking at the store: the live view
\* reloads every two seconds and every page load reconciles.  A reader that
\* keeps trying to write is not refused for ever.  Nothing is assumed of the
\* worker: a stage may hang, and no process has to be restarted.
Fairness ==
  /\ WF_vars(Tick)
  /\ \A r \in Readers : WF_vars(Load(r)) /\ WF_vars(Judge(r)) /\ SF_vars(Condemn(r))

FairSpec == Spec /\ Fairness

-----------------------------------------------------------------------------

TypeOK ==
  /\ proc \in {"alive", "dead", "recycled"}
  /\ host \in {"cli", "dashboard"}
  /\ wpc \in {"queued", "boundary", "body", "finishing", "crashed", "unwound", "done"}
  /\ current \in Stages
  /\ mem \in Manifest
  /\ memAge \in 0..HeartbeatInterval
  /\ token \in BOOLEAN /\ polled \in BOOLEAN
  /\ cancelled \in BOOLEAN /\ cancelFile \in BOOLEAN
  /\ disk \in Manifest
  /\ diskAge \in Ages
  /\ rpc \in [Readers -> {"idle", "loaded", "condemned"}]
  /\ copy \in [Readers -> Manifest]
  /\ copyAge \in [Readers -> Ages]
  /\ cut \in 0..NStages
  /\ early \in BOOLEAN /\ ripe \in BOOLEAN

WellClosed(m) ==
  /\ \A s \in Stages : m.stages[s] # "running"
  /\ m.status \in {"failed", "error", "interrupted"} => m.failure # "none"
  /\ m.failedStage # 0 => m.stages[m.failedStage] = "failed"

\* A manifest that says the run is over has no stage in flight, and one that
\* says it went wrong says why; the stage it blames is recorded as failed.
\* Whoever wrote it last, the worker or a reader working from an old copy
\* (RunSession.finish, RunStore._reconcile).
TerminalIsClosed == disk.status \in Terminal => WellClosed(disk)

\* A manifest that says "passed" was written by the run itself after all of
\* its stages, every one of them ended well, and none of them was cut short
\* by an exception (PipelineResult.passed, RunSession.stage).
PassedIsEarned ==
  disk.status = "passed" =>
    /\ mem.status = "passed"
    /\ \A s \in Stages : disk.stages[s] \in {"ok", "skipped"}
    /\ disk.failure = "none"
    /\ cut = 0

\* A cancellation requested while the run was still queued is not lost: the
\* run starts none of its stages and does not pass, although the sentinel is
\* only polled and a fresh poll would hide it.  The one excuse is a look that
\* raised on the sentinel it found (CancellationToken.cancelled,
\* RunStore.create, ValidationPipeline._stage).
QueuedCancelStops ==
  early =>
    /\ \A s \in Stages : mem.stages[s] = "none" /\ disk.stages[s] = "none"
    /\ disk.status # "passed"

\* While the worker's process lives, nobody can report its run interrupted on
\* the strength of a heartbeat that is not past the ceiling, and nobody can
\* report a queued run interrupted at all (RunStore._is_abandoned).
LivePidBuysTime ==
  proc = "alive" /\ disk.status = "interrupted" =>
    diskAge > Ceiling /\ mem.status # "pending"

\* A cancellation requested a poll interval ago is not missed: the run starts
\* no further stage, however its polls were spaced and whatever they saw.  A
\* look that raised on the sentinel excuses the run for one poll interval and
\* no longer (ValidationPipeline._stage, CancellationToken.cancelled).
NoStageAfterCancel ==
  [][\A s \in Stages :
       ripe /\ ripe' /\ mem.stages[s] = "none" => mem'.stages[s] = "none"]_vars

\* Once the process is dead and the manifest says the run is over, no reader
\* working from an older copy makes it look active again
\* (RunStore._reconcile: "an abandoned one must never look alive").
SettledAfterDeath ==
  [][proc # "alive" /\ disk.status \in Terminal => disk'.status \in Terminal]_vars

\* A run that was recorded as running and whose process died ends up recorded
\* as over, even when its pid is soon given to another process, as long as
\* somebody keeps reading the store (RunStore.reconcile_all).
DeadRunSettles ==
  (proc # "alive" /\ disk.status = "running") ~> (disk.status \in Terminal)

-----------------------------------------------------------------------------
(* The worker's own view implements RunOutcome.                            *)

VerdictOf(status) ==
  CASE status \in {"ok", "skipped"} -> "good"
    [] status = "failed" -> "bad"
    [] OTHER -> "open"

Outcome == INSTANCE RunOutcome WITH
  outcome  <- mem.status,
  verdicts <- [s \in Stages |-> VerdictOf(mem.stages[s])]

\* What the worker holds for the truth follows RunOutcome: verdicts in order
\* and never revised, one outcome that they justify, decided once, also when
\* the launcher's handler closes the run (ValidationPipeline.run).
OutcomeDecidedOnce == Outcome!Spec

-----------------------------------------------------------------------------
(* A claim of the documentation that the code does not keep.               *)

\* The outcome a run recorded for itself stays on disk.  A reader that loaded
\* the manifest before the run finished, and found the process gone when it
\* looked after the run finished, replaces the outcome by "interrupted".
RecordedOutcomeStays ==
  [][disk.status \in Decided => disk'.status = disk.status]_vars

=============================================================================
