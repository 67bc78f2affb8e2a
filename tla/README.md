# TLA+ models of the EAIV validation platform

EAIV runs validation suites against an embedded target (a simulator, an
emulator, a board on a serial port), records each run, compares its report with
a baseline and says whether the firmware is fit for release. These modules model
the parts of it in which order, concurrency, failure and restart decide whether
what is recorded can be believed. Paths below are relative to the repository;
the Python package is `src/eaiv/`. `PROJECT.json` maps every definition to the
lines it stands for.

## 1. Inventory

| component | state it keeps | operations | works with |
|---|---|---|---|
| **Run lifecycle** `runs/store.py`, `session.py`, `cancel.py`, `models.py` | `manifest.json` per run (status, stage records, failure, heartbeat, pid), sentinel file `cancel.request`, the worker's copy in memory, the token's poll clock | create, start, stage, progress, finish, flush; load and reconcile; request cancel, poll | pipeline, launcher, dashboard pages, CLI; other processes through the files |
| **Pipeline** `core/pipeline.py` | the result's stages, `cancelled` | six stages in a fixed order, finalize | session, orchestrator, baseline store |
| **Launcher** `dashboard/ui/runner.py` | live threads | launch, crash handler | pipeline, session |
| **Reports and baselines** `core/reporter.py`, `core/baseline.py` | `latest.json`, `telemetry.csv`, baseline files, shared by all runs of a report directory | publish (truncate, write), save (check, temp file, rename), load | pipeline stages of every run; users |
| **Evidence, gate, verdict** `core/evidence.py`, `regression.py`, `metrics.py`, `report_schema.py`, `insights/verdict.py` | none; functions of reports | report_issues, compare_reports, classify, verdict | pipeline, baseline store, dashboard |
| **Firmware suite** `firmware/tester.py`, `targets/qemu.py`, `targets/serial.py` | emulator process handle, port, pipe or input buffer, attempt | flash, reset, read_serial, close; retry loop | orchestrator, device |
| **Orchestrator** `core/orchestrator.py` | results in progress | run suites in order, publish, close the target | suites, session |
| **Event stream** `runs/events.py` | sequence counter, `events.jsonl` and one rotated file | emit, rotate, read after a number | session writes, pages read |
| **Telemetry** `telemetry/*` | the adapter's partial line, collected records | feed, ask for the status, flush | target, pipeline |
| **Power monitors** `power/*` | sampling thread, stop event, samples, window start | start, stop | TinyML benchmark |
| **HIL** `hil/*` | fault chain, counters, random generators | stream, run, simulated target | HIL suite |
| **RT profiler** `rt_perf/*` | traces | collect, judge | target |
| **Comparison** `core/comparison.py`, **insights** `insights/engine.py` | none; functions of reports | compatibility, classification of changes, findings | pages, CLI, verdict |
| **Configuration** `config.py`, `configspec/*`, `dashboard/ui/views/new_run.py` | a session's mission, the presets' own lists, saved missions | load with inheritance, build, edit, validate, save, launch | launcher, orchestrator |
| TinyML, fusion, sensors, datasets, plugins, diagnostics, dashboard views, CLI, device firmware | see `PROJECT.json` | | |

What makes them correct, and what is hard about it:

* *Run lifecycle.* One file, several writers, no lock. The worker writes from its
  memory and never reads back; a reader writes back what it loaded earlier. The
  worker may be killed, its pid reused, a save may fail, the cancellation file
  is polled. Whoever writes last, the manifest must be coherent; a pass must be
  earned; a dead run must be recorded as over; a live one must not be declared
  dead early; a cancellation must not get lost.
* *Reports and baselines.* Runs share `latest.json` and read it back in separate
  stages. A baseline must be whole and passing, and should be the report of the
  run that promoted it.
* *Gate and verdict.* Three places judge the same report. A chain of gated runs
  must not erode what the first baseline covered; a rerun must pass; the verdict
  must not say "ship" of what could not be gated.
* *Firmware suite.* A retry starts from whatever the failed attempt left: a
  process, buffered output. Verdicts must be about this boot, and the suite must
  end.
* *Event stream.* A page follows a file that rotates under it, and reads the
  manifest before it; appends are cut short and rotations stop half way.
* *Telemetry, power, profiler, faults.* Reads that end inside a line; a thread
  that outlives the window it samples for; a trace lost to a late exception, or
  one that an earlier profile left behind; faults that reorder time.
* *Review.* Verdict, banner, comparison and gate judge the same runs in different
  places, some of them against a baseline that was replaced since. None may clear
  what failed, or block what passed.
* *Configuration.* Merges share lists between configurations, and the launcher
  shares sections between a page and a run that reads them suite by suite.

All hazards with their lines are listed in `PROJECT.json`, those no property
covers yet with the reason.

## 2. Modules

| module | what it is |
|---|---|
| `RunOutcome` | abstract promise of a run to whoever watches it: verdicts in order, never revised; one outcome, decided once, justified by them |
| `RunLifecycle` | worker, manifest, readers, process, clock. Shown to implement `RunOutcome` |
| `MCRunLifecycle` | its instance for TLC (symmetry of readers) |
| `RunLifecycleProofs` | theorems about it |
| `SharedReports`, `MCSharedReports`, `SharedReportsProofs` | runs sharing `latest.json`, `telemetry.csv` and a baseline |
| `Evidence` | what a report is and how it is judged: issues, direction, gate, verdict. Operators only |
| `EvidenceGate`, `MCEvidenceGate`, `EvidenceGateProofs` | a baseline and a chain of gated runs over it |
| `Comparison`, `Insights` | two reports side by side; the rules of the insight engine. Operators only |
| `ReleaseReview`, `MCReleaseReview`, `ReleaseReviewProofs` | composes the two with a pipeline that records what failed, and with what the pages say of it |
| `FirmwareSuite`, `FirmwareSuiteProofs` | the retry loop over an emulated or a serial target |
| `EventStream`, `EventStreamProofs` | the event log and the live page |
| `PowerCapture`, `FaultStream`, `DeviceLine` | the TinyML benchmark with its sampling thread; the HIL experiment; profiler and telemetry over a serial line |
| `Bench`, `MCBench`, `BenchProofs` | composes those three as the stages of one run |
| `ConfigSpec` | schema, presets, merge, inheritance, validation, selection of suites. Operators only |
| `Missions`, `MCMissions`, `MissionsProofs` | mission builder sessions, saved missions, runs that read their configuration |

Definitions marked *Faulty variant* are not part of any model's behaviour. They
state a plausible slip in the code next to the definition they would replace,
and each property is known to catch one of them.

### RunLifecycle

`mem` is `RunSession.manifest`, `disk` is `manifest.json`, `copy[r]` what reader
`r` loaded. `wpc` is the worker's place in `ValidationPipeline.run`: `queued`,
`boundary` (the cancellation check that `_stage` starts with), `body` (inside a
stage), `finishing` (`_finalize`), `crashed` (the launcher's handler),
`unwound`, `done`. One action per thing that can happen there:

* `Flush` is `RunSession.flush`: the heartbeat clock restarts whether or not the
  write succeeded, because an `OSError` is logged and swallowed.
* `BeginStage`, `EndStage`, `CancelInBody`, `EscapeFromStage` are the paths
  through `RunSession.stage` and `_stage`. `EscapeFromStage` is an exception that
  is not an `Exception` (`KeyboardInterrupt`, `SystemExit`); `EscapeBetweenStages`
  is any exception outside a stage. On the command line they end the process, in
  the dashboard they reach the launcher's handler (`FinishCrashed`).
* `CancelSeen`, `PolledInVain`, `RaisedCancelled` are `CancellationToken`: the
  sentinel is looked at only if the last look is old enough. A look may raise an
  `OSError` although the sentinel is there (`LookMayFail`); the code catches it and
  answers that nothing was requested (`runs/cancel.py:70`), so that a stage begins.
  What the code then still keeps is stated with two histories: `early`, the
  cancellation was requested before the run started, and `ripe`, a poll interval
  passed since it was requested; a look that raised ends both, until the next
  interval has passed.
* `Load`, `Judge`, `Condemn` are the three steps of `RunStore.load` and
  `_reconcile`, separate because nothing locks the file between them.
* `Crash`, `Exit`, `PidRecycled`, `PidFreed`, `RequestCancel`, `Tick` are the
  environment. One `Tick` is at least the cancellation poll interval.

Times are ages that saturate one past the largest threshold the code compares
them with, so no clock grows. Choices worth knowing: `CancelInBody` is allowed in
every stage although the code polls only in `validate` and `telemetry`, which
admits more behaviours, not fewer; a `KeyboardInterrupt` between the save of a
new stage record and the `try` looks on disk like a crash; `RunStore.delete` is
left out. Rewriting a manifest is atomic, as `os.replace` is.

### SharedReports

`pc[r]` is the pipeline stage of run `r`; publishing is two steps
(`OpenLatest`, `WriteLatest`) because `Path.write_text` empties the file before
it writes, and the stage may still fail in a rendering after it was written whole.
Likewise the stage that saves the baseline may fail after the store replaced it,
when the file is registered as an artifact of the run (`pipeline.py:399`,
`session.py:209`): `failed[r]` is then `record`, as opposed to `stage` for every
other failure. `Torn` is a file that is not whole JSON: emptied, or with the tail of
a longer text. `Compare` and `SaveBaseline` each read `latest`, as the stages do.
`overlap` says whether runs may be active at the same time, so that what holds
only for runs that do not overlap can be stated. A report is reduced to who
measured it, whether it passes, and one lower-is-better cost: enough to tell
whose report was promoted and whether a gate saw it. The gate itself is
`EvidenceGate`.

### Evidence and EvidenceGate

A report is a function from suite names to records, with metrics that may declare
direction, provenance and source, or declare nothing. `ReportIssues` is
`report_issues`, `ComparisonIssues`, `GatedDirection`, `Worsened`, `Regressed` and
`GatePasses` are `compare_reports`, `Verdict` is `_judge`. The state is the stored
baseline, the report under judgement, the severities the insight engine found on
it, and the baseline gating began with; `GatedPromotion` is a run with both a
comparison and a promotion, `Rebase` is `eaiv baseline save`. Left out or merged:
every shape error of a report is one flag; a declared unit behaves as a declared
source does; the direction guessed from a metric's name is the constant `Hint`;
`gate_non_measured` keeps its default, false. Values are exact integers, whereas
the code computes `(c - b) / abs(b) * 100.0` in floating point and compares
exactly, so a change of precisely the allowance (100 to 107 at 7 per cent gives
7.000000000000001) may be flagged: that rounding is outside the model and listed
as a hazard. `Verdict` goes through the branches of `_judge` in the code's order,
each with its own condition, and what is said of it compares it with the gate
(`ReadyReportsGate`); `PromotionWithinAllowance` says in its own arithmetic what the
allowance means below and at zero (`WithinAllowance`).

### FirmwareSuite

`pc` is the place in `FirmwareTester.run`; `current` is the process that
`QEMUTarget._proc` refers to, `alive` the processes that run, `unread` what each
printed and nobody read. A boot is named by the attempt and by what caused it
(`flash`, or the `reset` that follows). An emulator's output has its own pipe, a
board's goes into one input buffer, so for `serial` any unread line may be read.
Every step that can raise has an action that does. `AwaitLine` / `GotLine` is
`readline`, which blocks without regard to the window.

### Comparison, Insights and ReleaseReview

An artifact is a report with its setup (the hashes of its inputs and the version),
who wrote the firmware, and the *symptoms* its metrics show: `miss`, `rom-over`,
`roll` and so on, one for each condition that a rule of the insight engine tests.
Each rule of `insights/engine.py` is an operator that yields insights with the
severity, category and suite the code gives them; `GenerateInsights` is their
union with the code's early return on invalid evidence. `Comparison` is
`check_compatibility`, `compare_runs` and `recommendation` over the reports of
`Evidence`. In `ReleaseReview` a manifest records each failure as a stage and its
kind, because `_is_expected_stage_failure` tells them apart by their text.
`entries` holds runs and the bare reports of `eaiv run`; `Shown` is
`ReportSource.report`, which adds the run's status to a report;
`ResultsInsights`, `ResultsVerdict`, `ShowInsights` and `Comparables` are what
the Results page, `eaiv runs show` and the Compare page compute. Runs here do not
overlap, as overlap is the subject of `SharedReports`.

### EventStream

`files` is every file that was ever `events.jsonl`, so that a page that opened
one goes on reading it after it was renamed or unlinked; `live` and `backup` say
which of them have a name now. A rotation is two steps (`Unlink`, `Rename`) and an
append is one write or two; each may fail, and `Die` may come between any two. A
line is `whole`, `part` (no newline yet) or `bad` (a second event behind a part).
The page's `owed` is what stood in the file when it was opened, its `seen` what it
parsed. Three kinds of event are told apart: the end of the run, the start of the
failure of a stage, and all others. `Save` follows the append, which is the order of
`RunSession.emit`; whether it happens is left open (the heartbeat may not be due,
the save may fail). A manifest may be *ahead*: when a stage raises, the pipeline
marks its record `failed` and then logs (`core/pipeline.py:269`), and the log event's
heartbeat can save that record before STAGE_COMPLETED is in the log
(`runs/session.py:256`). `ManifestAt` therefore lets the manifest that follows a
`failure` show one event more than was appended, and `PageIsCoherent` speaks of what
a manifest shows but for that one event (`Announced`). The first save of a run may
show its creation in the same way before anything was appended.

The page of this repository reads the whole file again at each refresh. What
`read_events` offers beyond that is not modelled, but the model shows its limits:
a follower that asks with `after_seq` for what is newer than the last event it
saw will not ask again for an event whose line was still half written when a
later one was read, contrary to the comment at `runs/events.py:262`; and
`events.jsonl.1` is read by nobody, so that the log is a durable record of the
newest events only.

### PowerCapture, FaultStream, DeviceLine and Bench

The three components share nothing but the order of the stages; `Bench` composes
them with the steps in which the orchestrator goes from one suite to the next, and
with what runs beside them. A suite's object is gone when the next one begins:
`ForgetTiny` and `ForgetHil` put its variables back, but for a sampling thread that
still lives and the buffer of the line.

* `PowerCapture`: `sampler` is the monitor's thread, `asked` its stop event.
  `Stop` may come while the thread is in a read, because `join` gives up after two
  seconds. The number of readings is told apart up to two.
* `FaultStream`: a sample goes through the chain fault by fault; `lastT` is what
  each `TimingJitter` remembers.
* `DeviceLine`: a line is two halves. `rx` is the operating system's input buffer,
  `text` what the current read collected. `run_command` takes whatever is printed
  while it waits, so the answer to `RT_PROFILE_START` carries the lines of a
  profile that nobody stopped. `since` is the number of lines printed when the
  profile was started. A status answer is a line like any other; the newline that
  `provider.py:63` puts behind it is the piece `Newline`. When the read ended
  inside a line, that newline cuts the line there, and its truncated value is
  parsed: `TelemetryIsWhole` excepts the last line for that reason. `Parsing` is the
  loop over the pieces of a text: a piece that ends a line (`Ends`) gives a record
  (`RecordAt`), unless there is nothing on the line (`EndsNothing`).

### ConfigSpec and Missions

A section holds one `value` (`default`, `set`, `wrong`, or `filled` by a drawn
form) and, for `hil` and `rt_perf`, a list. `SCHEMA` and `PRESETS` keep, of the
code's tables, the suite of each section, whether it is required, its list and
what a form writes back into an untouched field. `load_config` follows `extends`
from file to file with the set of files seen, raises at a file that is absent or
was seen, and merges on the way back. Configurations are objects:
`configs` are their identities, and a list is a reference that says whose list it
is (`own`, or a preset's), since `deep_merge` copies mappings and not lists. A run
holds the configuration of its page, since `Config(dict(...))` copies the top level
only. `Draw` is one pass of the Streamlit script, which writes back every field it
draws and validates. `review` is what the session last saw of that: `stale`
(nothing drawn yet, or since another mission was loaded), `errors`, `ok`, and
`outdated`, which is a page that was drawn valid and edited since. The Launch button
is disabled by the browser, for the page as it was drawn: `Launch` needs a page that
was drawn valid, and is one pass of the script, which takes the edits that come with
the click, draws and validates, and starts the run without asking whether it is
still valid (`new_run.py:442`). `LaunchedIsRunnable` therefore speaks of launches from
a page to which nothing happened since it was seen valid.

Things the model shows and no property forbids, as no document says otherwise:
a mission saved earlier keeps its path in the session, so that "the exact
equivalent command line" of the page names the file of an earlier state, and
omits the baseline directory and the run's name; a saved mission is written in
place, and two names may be one file once they are made safe for a path; a field
without a value is drawn as 0 and written back (`new_run.py:97`); `eaiv pipeline`
validates nothing, and a section that is missing passes validation although the
orchestrator subscripts it. Left out: suites and targets of plugins, the kinds of
target, the form's fields for baselines and telemetry.

## 3. Runs

| run | instance | shows |
|---|---|---|
| `lifecycle_safety` | 2 stages, 2 readers, saves and looks at the sentinel may fail | `TerminalIsClosed`, `PassedIsEarned`, `QueuedCancelStops`, `LivePidBuysTime`, `NoStageAfterCancel`, `SettledAfterDeath` |
| `lifecycle_liveness` | 2 stages, 1 reader, fairness | `DeadRunSettles`; `OutcomeDecidedOnce`, the refinement of `RunOutcome` |
| `shared_reports` | 2 runs, costs 0 and 1, allowance 0 | `PromoterPassed`, `AloneRunsOwnTheirEvidence`, `AlonePromotedWasJudged` |
| `evidence_gate` | 2 suites, 2 metrics, 47 reports, allowance 10 % | `CoverageIsKept`, `ReadyReportsGate`, `RerunPasses`, `PromotionWithinAllowance` |
| `release_review` | 5 suites, 10 artifacts, 2 entries | `ClearedRunsPassed`, `PassedRunsAreNotBlocked`, `FailuresAreDiagnosed`, `ComparisonAgreesWithGate` |
| `firmware_suite` | 2 retries, firmware that talks | `PassIsOfThisBoot`, `LeftoversAreOld`, `SuiteEnds` |
| `event_stream` | 5 events, 2 lines a file, fairness of the page | `ReadIsComplete`, `RecentIsKept`, `PageIsCoherent`, `EndIsShown` |
| `bench` | 1 warm-up and 2 timed invocations, 3 samples, 6 fault chains, 4 lines, fairness of the thread | `DeviceResultsAreEarned`, `StreamIsSound`, `TelemetryIsWhole`, `SamplerIsReleased` |
| `missions` | 2 sessions, 2 presets, 3 configurations, 1 edit, 1 run, a mission file over a parent | `LaunchedIsRunnable`, `OnlyEditsReachRuns`; and, as an assumption TLC evaluates, `LoadIsNearest` over all 1000 tables of three files |
| `v_outcome` | 2 stages, 1 reader | **violated**: a recorded outcome is overwritten by `interrupted` |
| `v_promoted` | 2 runs | **violated**: a run promotes another run's report |
| `v_config` | as `missions` | **violated**: a run uses sections that its record does not show |

Every passing run also checks its module's type invariant, but for `lifecycle_liveness`,
which has the model of `lifecycle_safety`, and `missions`, whose types are proved.

Each violation contradicts a sentence of the repository that the finding in
`PROJECT.json` quotes:

* `v_outcome`: a reader loads a running manifest with a stale heartbeat, the run
  ends, saves its outcome and its process exits, then the reader asks for the pid
  and writes its old copy back as `interrupted`. `SettledAfterDeath` and
  `TerminalIsClosed` say what remains true: the manifest is still over and coherent.
* `v_promoted`: two runs of one dashboard, or a command-line run next to it,
  share `latest.json`.
* `v_config`: after the launch, the page edits the very mappings that the run goes
  on reading; `resolved-config.yaml` was written before.

Further divergences were noticed while modelling. Each is visible in the model as
an action, and is too direct to need a run:

* `RunSession.stage` closes a record that is still running as `ok` in its `finally`
  clause, also on the way out of a `KeyboardInterrupt` (`runs/session.py:254`),
  whereas `docs/runs-and-reports.md:66` says that the stage in flight is marked
  failed; once it is `ok`, reconciliation has nothing in flight to mark.
* The age ceiling that guards against reused pids exempts pending runs
  (`runs/store.py:248`): a queued run whose process died stays pending for as long
  as its pid is in use, although "an abandoned one never looks alive"
  (`docs/runs-and-reports.md:68`).
* `readline` on an emulator's output has no timeout (`targets/qemu.py:65`): silent
  firmware holds the suite beyond its window.
* `eaiv runs show` diagnoses a run without its baseline (`cli.py:505`) and can print
  a clearing verdict for a run that failed its gate.
* Mission control judges the newest report next to the newest manifest
  (`mission_control.py:157`), which need not belong together.
* "Only a fully passing run is promoted; a failing run is refused" (`new_run.py:309`),
  but the stage that promotes fails, and the run with it, after the promotion when
  the new baseline file cannot be looked at (`pipeline.py:399`, `session.py:209`).
  `PromoterPassed` says that this is the only way.
* The page says that errors "must be fixed before launching" (`new_run.py:325`), but
  the script starts the run on the click alone (`new_run.py:442`): an edit that
  reaches it together with the click is found invalid and launched.
  `LaunchedIsRunnable` says what holds for a page that was not edited.
* `docs/runs-and-reports.md:184` says a cancelled run marks every unreached stage
  `cancelled`; `pipeline.py:179` marks them in the `PipelineResult`, and the
  manifest has no record of them.

**Bounds, and why they are enough.** Two stages give a first, a last and a stage
after a failed one. Two readers can hold different copies at once and overwrite each
other; a third adds no new pair. `HeartbeatInterval = StaleAfter = 1` and `Ceiling =
2` are the smallest values in the order the code has them (heartbeat no longer than
stale, stale below the ceiling), so each threshold is crossed separately. Looks at
the sentinel fail in the safety run only, as nothing that must eventually happen to
a dead run depends on them. Two runs suffice for every clash over a shared file,
which is between a writer and the next reader. The 47 reports vary one feature at a
time around a plain report (values below, at and above the allowance, negative and
zero; each declaration present, absent or changed; a suite or metric gone, skipped,
failed or not a number) and are combined in chains of any length. `Retries = 2`
gives a first, a middle and a last attempt. `MaxUnread = 1` bounds the lines a boot
has printed and nobody read; as lines are told apart only by boot and by pattern,
and the set keeps what was read, a longer queue adds lines that can be read later
but no new combination of what was seen.

Two entries are the newest and an earlier one, with promotions of either in
between: what is said of an entry depends on its own artifact and manifest and on
the stored baseline only. The 10 artifacts carry symptoms that make one rule
silence another, and the respects in which two reports cannot be compared. Two
lines a file and five events give two rotations, so that a file is renamed while it
is read and unlinked while it is still open; a stage's failure and its completion
may fall on either side of one. Three time stamps,
two of them adjacent, with a jitter of two let a sample overtake the next two and
leave or enter the outage; chains of two hold every interacting pair. Four lines
of two halves, with one more before the start, let each of the reads begin and end
inside a line. In `missions` one edit is enough to separate a record from its use,
three configurations are those of two pages and one more preset, and the
definitions chosen for editing are the section whose empty field is written back
(`memory`) and one with a list (`rt_perf`).

**Deadlock** checking is off in runs of the models in which work really ends: the
run is done and its process gone, all runs are done, the suite is closed, the
stages of the bench are over, the entries or missions of the bound are used up.
`EvidenceGate` and `EventStream`, whose page refreshes forever, are checked for it.

**Fairness.** `RunLifecycle`: time passes; somebody keeps reading the store,
because the live page reloads every two seconds and every page load reconciles;
a reader that tries to write again and again succeeds at some point (strong
fairness of `Condemn`, since each failed attempt goes back to loading). Nothing
is assumed of the worker: a stage may hang and a process may stay dead.
`FirmwareSuite`: the suite's thread runs and its window elapses; for `SuiteEnds`
also that firmware, while it is being listened to, says something or exits;
without that last assumption the suite may wait forever, as said above.
`EventStream`: the page refreshes for as long as it is open, which is the two
second timer of the live page; nothing is assumed of the worker. `Bench`: the
operating system runs the sampling thread and its readings return; nothing is
assumed of the suites or of the board.

## 4. Theorems

Checked by TLAPS for all values of the constants allowed by the assumptions of
each module (any number of stages, readers, runs, suites, metrics, reports,
findings and events; any thresholds in the order given above). Every invariant
and every action property that a passing run checks is proved, with the
refinement, and so are the types of `Missions`. The assumptions say
what kind of thing a constant is, and four of them more than that:

* the time stamps of a recording ascend (`StreamAssumption`), as `StreamIsSound`
  would be false of the input itself otherwise. `datasets validate` reports a
  recording in which they do not (`datasets/metadata.py:124`); the experiment
  (`hil/suite.py`) does not look;
* the symptoms of an artifact agree with its suites (`SymptomsAgree`): what a rule
  of the engine blocks on (a deadline that was missed, an angle that was off, faults
  that were felt, a budget exceeded) is what the suite that measures it fails on.
  Both compare the same metric with the same limit, the rule as the report rounds
  it, so that the limit is to have no more decimals than the report;
* there are finitely many mission files, which hold sections known to the schema
  (`FilesTyped`), and may be absent or unreadable;
* the thresholds of `RunLifecycle` are in the order that the code's defaults have.

* `RunLifecycleProofs`. The safety properties follow from one inductive
  invariant `IInv`: the types and four more parts. `WorkerInv` ties the control
  point to the manifest in memory (the stages before the current one are closed,
  the current one runs only inside its body, an outcome is there only at the end).
  `ManifestInv` says that every manifest there is, in memory, on disk or in a
  reader's hand, is one the worker could have written or, on disk, a well closed
  one written by a reader; it is needed because `Condemn` makes a reader's old
  copy the file again. `CancelInv` carries an early cancellation to the first
  check, and says of a ripe one that the next look will find it, whether or not looks
  failed before. `PidInv` carries the reason for which a reader condemned a run whose
  process lives. None of the properties is inductive without them.
  `Invariance` proves `IInv` action by action;
  `TerminalIsClosedAlways`, `PassedIsEarnedAlways`, `QueuedCancelStopsAlways`,
  `LivePidBuysTimeAlways` are consequences; `NoStageAfterCancelAlways` and
  `SettledAfterDeathAlways` are action properties proved from it.
  `OutcomeDecidedOnceAlways` proves the refinement: initial states map to initial
  states and each step of `RunLifecycle` is a step of `RunOutcome` or a stutter.
* `SharedReportsProofs`. `IInv` adds to the types who wrote what (`OriginInv`), that the
  run that wrote the baseline is past its last stage, no other stage of it has
  failed, and if it is recorded as failed then for what followed the save only
  (`PromoterInv`), and, for runs that do not overlap, that at most one is active
  and that `latest.json`, `telemetry.csv` and what was judged follow it from stage
  to stage unless it has failed already (`AloneInv`).
* `EvidenceGateProofs`. `CoverageIsKeptAlways` rests on two lemmas about the
  relation `Covers` (reflexive, transitive) and on `GateCovers`: what passes the
  gate covers the baseline. A chain of promotions then covers its start, however
  long. `RerunPassesAlways`, `ReadyReportsGateAlways` and
  `PromotionWithinAllowanceAlways` hold for any set of reports, which the
  runs can only sample. `SameIsNotWorse` is the arithmetic at zero.

* `FirmwareSuiteProofs`. `PassInv` says that what an emulated attempt has collected
  was printed by the boot it listens to (`ReadsOwnBoot`) and that a verdict ends
  the loop (`VerdictEnds`); without the first, a pass in hand says nothing of where
  its lines came from. `LeftoversAreOldAlways` needs that every other emulator
  alive is of an earlier attempt (`OthersAreOld`).
* `MissionsProofs`. `ObjInv` is the shape of the object graph: pages and runs refer
  to configurations that exist, and each list is a configuration's own or a
  preset's under the same section. `NextStep` goes through the actions and shows for
  each that whatever a run can still read stays, or that the action is one of the
  edits `OnlyEditsReachRuns` names. Frame lemmas about `Read` carry most of it.
  `LaunchedIsRunnableAlways` needs `PassedInv`: no two pages have the same
  configuration (`ApartOk`), a page's configuration has every section (`PageWhole`),
  and what a review passed has no wrong value in the sections of its suites, nor
  an error that is not in a preset's list (`PagePassed`), for as long as the page
  itself is not edited; the pass of the click fills the form in once more, which
  makes no value wrong that was not (`FilledFits`). Without `ApartOk` an edit on
  one page could spoil what another has reviewed; that a preset's list can be
  edited elsewhere after the review is in the property, because it is in the code.
  `LoadIsNearestAlways` says of any finite set of files and chains of any length
  that loading raises exactly when the chain of the file does not end, and otherwise
  gives one configuration, with each key as the nearest file has it. The
  induction is on the number of files not seen yet. `TypeOKAlways` follows the
  shapes of sections through merging, drawing, editing and saving.
* `ReleaseReviewProofs`. `RunsInv` says that a run that is over passed only if no
  stage failed. `ClearedRunsPassedAlways` then follows from the verdict alone:
  whatever the baseline is now, a report of a run that did not pass carries an
  issue. `FailuresAreDiagnosedAlways` shows that the fall-back rule sees every suite
  that no blocking insight names, for any symptoms; `ComparisonAgreesWithGateAlways`
  unfolds the two judgements, written separately in the code, into the same
  conditions, for any allowance and any threshold below which a change is none.
  `PassedRunsAreNotBlockedAlways` rests on `GateInv`: a gated run that is past its
  comparison without a failure was compared by its own report, which therefore has a
  number to show; without it the engine could still block for want of evidence.
  The rest is a walk through the blocking rules, each of which names a suite that
  failed or a symptom that its suite would have failed for.
* `EventStreamProofs`. `LogInv` is about the worker and its files. Its heart is
  `Gaps`: two lines of a file are at least as far apart in their events as in their
  places, whatever was lost between them. So the first line of a full file is older
  than the capacity reaches, and so is every line of an earlier file
  (`EarlierAreOld`), which is what makes the unlink of a rotation harmless
  (`OldAreOld`). `AllWritten` says that what was appended is somewhere, and the two
  together are `RecentIsKeptAlways`. `ManifestIsCovered` is the order of append and
  save: what the saved manifest announces, that is all it shows but for the event it
  may be ahead by, was written or lost. `PageInv` is about the page: what it saw is
  from lines before its place in the file (`Behind`), what it owes was seen or
  stands behind that place (`Owing`), and of the manifest it loaded, what is in no
  earlier file is owed (`PageCovers`). It is stable under the worker's steps because
  lines keep their place and whole lines their text (`Keeps`), also in a file that
  was renamed or unlinked. `ReadIsCompleteAlways` and `PageIsCoherentAlways` follow.
  That no file outgrows the capacity (`TypeOKAlways`) needs that no append starts on
  a full file.

* `BenchProofs`. Each suite has an invariant that its own steps keep and those of the
  others leave alone. `TinyInv` ties a power verdict to where its trace came from
  (`TraceFits`, `Simulated`). `HilInv` says that what came out is in order and
  accounted for (`InOrder`, `Accounted`); it is inductive because the last jitter of
  a chain remembers a time stamp not earlier than the last that came out, although
  faults behind it may have dropped that sample. `LineInv` is about the serial
  line. `FreshAnswer` is the profiler's half: once the buffer was emptied and the
  board was told to start, what arrives is of this profile, but for the end of a line
  it was in the middle of. `CaptureFits` is the telemetry's half: the adapter's
  buffer, the text of the read and the driver's buffer, put one behind the other,
  are the board's output without a gap (`Continuous`) up to what it printed last
  (`LastPrinted`), and they begin where the parsed records end (`Joined`).
  `TypeOKAlways`, `DeviceResultsAreEarnedAlways`, `StreamIsSoundAlways` and
  `TelemetryIsWholeAlways` follow for any workload, recording, chain and number of
  lines.

The chain of faults, the parser, the selection of suites and the chain of files are
recursive functions. What they do is shown by induction on the place in a sequence
or the number of files left, which the modules state for a set instead of a
predicate (`UpTo`, from the well-foundedness of the naturals), since the library's
induction theorems take an operator and cannot be used here; that there is a
function which satisfies the recursion is a lemma of its own (`RecursionExists`,
`LoadExists`).

**Only model-checked:** the liveness properties `DeadRunSettles`, `SuiteEnds`,
`EndIsShown` and `SamplerIsReleased`, as fairness is beyond the prover; and the
three violations, which are counterexamples. `LoadIsNearest` is evaluated by TLC
over 1000 tables of three files with the chain spelled out there, and proved with
the chain as a relation (`IsChain`).

## 5. Not modelled

Floating-point arithmetic (fusion filters, statistics, rounding of percentages,
register scaling, energy integration); presentation (layout, Markdown, HTML,
wording); parsing (YAML, JSON, command lines); the device firmware, which
`FirmwareSuite` and `DeviceLine` let print anything; calls to external tools that
keep no state (J-Link, flashing, git); the plugin registry, which is filled at
import and never changed; datasets, sensors, diagnostics and the memory benchmark,
which are sequential and compute numbers. `PROJECT.json` gives the reason for each
component. Within what is modelled: `RunStore.delete`, the listing of runs, the
launcher's table of live threads, the per-run copies of reports, mission control,
the recorded and the synthetic telemetry providers.

`LeftoversAreOld` deserves a remark: it documents what is, not what one would
wish. `flash` overwrites the handle of an emulator that still runs, so a suite
that retried leaves up to one emulator per earlier attempt behind; what the
property secures is that nothing else is left.

## 6. Plan

Done, in the order of what matters most: lifecycle, shared files, gate and
verdict, firmware suite, comparison and insights, event stream, the bench, the
configuration. What would be worth adding next:

1. `RunStore.delete` and the launcher's bookkeeping in `RunLifecycle`: a delete
   between a reader's load and its save brings the directory back. `IInv` would gain
   a part about manifests whose directory was deleted.
2. A composition of `Missions` with `RunLifecycle`, so that what a run used is
   followed into its report.
3. The collector's statistics over a capture with truncated lines, and a theorem
   that they count what `TelemetryIsWhole` says was parsed.
4. A sharper statement about shared files, for which `OriginInv` is the start: that a
   run owns its report as long as nobody publishes between its measurement and its
   last stage, whatever else overlaps.
