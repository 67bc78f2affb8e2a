----------------------------- MODULE SharedReports -----------------------------
(***************************************************************************)
(* Pipeline runs that share one report directory and one baseline store.   *)
(*                                                                         *)
(* Each run publishes its report to latest.json by truncating the file and *)
(* then writing it (Reporter.publish), and its compare and save_baseline   *)
(* stages read latest.json back, each on its own.  The baseline is         *)
(* replaced atomically (BaselineStore.save).  Nothing keeps two runs       *)
(* apart: the launcher starts a thread per run, and a command-line run may *)
(* use the same directory.  When no two runs overlap, what a run reads     *)
(* back is its own unless its suites raised, in which case it is whatever  *)
(* an earlier run left.                                                    *)
(***************************************************************************)
EXTENDS Integers

CONSTANTS
  Runs,        \* the pipeline runs
  Costs,       \* what a report measured, on a lower-is-better scale
  Allowance    \* how much worse than the baseline a run may be

ASSUME CostAssumption == Costs \subseteq Nat /\ Costs # {} /\ Allowance \in Nat
ASSUME RunsAssumption == Runs \cap {"none", "torn", "legacy", "user"} = {}

VARIABLES
  overlap,   \* whether runs may be active at the same time
  pc,        \* the stage each run is about to execute, or is in
  wants,     \* which of the optional stages each run was asked for
  failed,    \* "stage": some stage of the run has failed; "record": only its
             \* last one did, once it had replaced the baseline; else "none"
  outcome,   \* how the run ended
  own,       \* the report the run measured
  latest,    \* reports/latest.json
  baseline,  \* the baseline file
  csv,       \* the run whose capture is in reports/telemetry.csv
  capture,   \* the run whose capture is in this run's own directory
  judged,    \* history: the report the run's compare stage accepted
  promoter   \* history: the run that wrote the baseline

runVars == <<pc, failed, outcome, own, judged>>
fileVars == <<latest, baseline, csv, capture, promoter>>
vars == <<overlap, wants, runVars, fileVars>>

-----------------------------------------------------------------------------

Origins == Runs \cup {"none", "torn", "legacy"}
Report == [run : Origins, ok : BOOLEAN, cost : Costs]

SomeCost == CHOOSE c \in Costs : TRUE

NoReport == [run |-> "none", ok |-> FALSE, cost |-> SomeCost]
Torn == [run |-> "torn", ok |-> FALSE, cost |-> SomeCost]

\* A file that exists and holds a whole JSON object.
Readable(f) == f.run \notin {"none", "torn"}

\* core.evidence.report_issues finds nothing wrong.
NoIssues(report) == report.ok

\* core.regression.compare_reports: no issue on either side, no regression.
GateAccepts(base, current) ==
  /\ NoIssues(base) /\ NoIssues(current)
  /\ current.cost <= base.cost + Allowance

Stage == {"validate", "telemetry", "compare", "save"}
Active(r) == pc[r] \notin {"new", "done"}

At(r, stage) == pc[r] = stage
Goto(r, stage) == pc' = [pc EXCEPT ![r] = stage]
Fail(r) == failed' = [failed EXCEPT ![r] = "stage"]

-----------------------------------------------------------------------------

\* A run begins with its build stage.  When that fails, the other stages are
\* executed all the same.
Build(r) ==
  /\ At(r, "new")
  /\ overlap \/ \A q \in Runs : ~Active(q)
  /\ Fail(r) \/ UNCHANGED failed
  /\ Goto(r, "validate")
  /\ UNCHANGED <<overlap, wants, outcome, own, judged, fileVars>>

\* Faulty variant: suites that raised do not fail their stage.
ValidateRaisesUnnoticed(r) ==
  /\ At(r, "validate")
  /\ Goto(r, "telemetry")
  /\ UNCHANGED <<overlap, wants, failed, outcome, own, judged, fileVars>>

\* The target cannot be built or a suite raises: nothing is published, and
\* latest.json keeps what it had.
ValidateRaises(r) ==
  /\ At(r, "validate")
  /\ Fail(r)
  /\ Goto(r, "telemetry")
  /\ UNCHANGED <<overlap, wants, outcome, own, judged, fileVars>>

\* The suites ran: publishing opens latest.json, which empties it.
OpenLatest(r, ok, cost) ==
  /\ At(r, "validate")
  /\ own' = [own EXCEPT ![r] = [run |-> r, ok |-> ok, cost |-> cost]]
  /\ latest' = Torn
  /\ Goto(r, "publish")
  /\ UNCHANGED <<overlap, wants, failed, outcome, judged, baseline, csv, capture, promoter>>

\* The text is written.  Over what another run wrote since the open, it may
\* leave a tail of the other text behind.  The stage fails when a suite did,
\* or when one of the renderings that follow cannot be written or registered.
WriteLatest(r) ==
  /\ At(r, "publish")
  /\ \/ latest' = own[r]
     \/ latest # Torn /\ latest' = Torn
  /\ Fail(r) \/ (own[r].ok /\ UNCHANGED failed)
  /\ Goto(r, "telemetry")
  /\ UNCHANGED <<overlap, wants, outcome, own, judged, baseline, csv, capture, promoter>>

\* The write raises OSError; latest.json stays as the open left it.
WriteLatestFails(r) ==
  /\ At(r, "publish")
  /\ Fail(r)
  /\ Goto(r, "telemetry")
  /\ UNCHANGED <<overlap, wants, outcome, own, judged, fileVars>>

\* The telemetry stage is skipped, or captures to the shared telemetry.csv ...
SkipTelemetry(r) ==
  /\ At(r, "telemetry")
  /\ "telemetry" \notin wants[r]
  /\ Goto(r, "compare")
  /\ UNCHANGED <<overlap, wants, failed, outcome, own, judged, fileVars>>

Capture(r) ==
  /\ At(r, "telemetry")
  /\ "telemetry" \in wants[r]
  /\ csv' = r
  /\ Goto(r, "copy")
  /\ UNCHANGED <<overlap, wants, failed, outcome, own, judged, latest, baseline, capture, promoter>>

CaptureFails(r) ==
  /\ At(r, "telemetry")
  /\ "telemetry" \in wants[r]
  /\ Fail(r)
  /\ csv' \in {csv, r}
  /\ Goto(r, "compare")
  /\ UNCHANGED <<overlap, wants, outcome, own, judged, latest, baseline, capture, promoter>>

\* Faulty variant: the report is copied in place of the capture.
CopyReport(r) ==
  /\ At(r, "copy")
  /\ capture' = [capture EXCEPT ![r] = latest.run]
  /\ Goto(r, "compare")
  /\ UNCHANGED <<overlap, wants, failed, outcome, own, judged, latest, baseline, csv, promoter>>

\* ... and copies that file to the run's own directory.
CopyCapture(r) ==
  /\ At(r, "copy")
  /\ \/ capture' = [capture EXCEPT ![r] = csv] /\ (Fail(r) \/ UNCHANGED failed)
     \/ Fail(r) /\ UNCHANGED capture
  /\ Goto(r, "compare")
  /\ UNCHANGED <<overlap, wants, outcome, own, judged, latest, baseline, csv, promoter>>

\* Faulty variant: a comparison that is blocked does not fail the stage.
CompareLeniently(r) ==
  /\ At(r, "compare")
  /\ IF "gate" \in wants[r] /\ Readable(baseline) /\ Readable(latest)
        /\ GateAccepts(baseline, latest)
     THEN judged' = [judged EXCEPT ![r] = latest]
     ELSE UNCHANGED judged
  /\ Goto(r, "save")
  /\ UNCHANGED <<overlap, wants, failed, outcome, own, fileVars>>

\* The baseline and latest.json are loaded and compared.  A file that is
\* missing or cut off raises, and so do issues and regressions.
Compare(r) ==
  /\ At(r, "compare")
  /\ IF "gate" \notin wants[r] THEN UNCHANGED <<judged, failed>>
     ELSE IF /\ Readable(baseline) /\ Readable(latest)
             /\ GateAccepts(baseline, latest)
     THEN judged' = [judged EXCEPT ![r] = latest] /\ UNCHANGED failed
     ELSE Fail(r) /\ UNCHANGED judged
  /\ Goto(r, "save")
  /\ UNCHANGED <<overlap, wants, outcome, own, fileVars>>

\* BaselineStore.save of what latest.json holds.
Promote(who) ==
  /\ Readable(latest) /\ NoIssues(latest)
  /\ baseline' = latest
  /\ promoter' = who

\* Faulty variant: what the run's own stages found is not asked for.
SaveBaselineAnyway(r) ==
  /\ At(r, "save")
  /\ IF "promote" \notin wants[r] THEN UNCHANGED <<failed, baseline, promoter>>
     ELSE \/ Promote(r) /\ UNCHANGED failed
          \/ Fail(r) /\ UNCHANGED <<baseline, promoter>>
  /\ Goto(r, "finalize")
  /\ UNCHANGED <<overlap, wants, outcome, own, judged, latest, csv, capture>>

\* The stage refuses a run that is failing already, then promotes what
\* latest.json holds by now.  Writing the baseline may fail; so may registering
\* the written file with the run, and then the baseline stays replaced.
SaveBaseline(r) ==
  /\ At(r, "save")
  /\ IF "promote" \notin wants[r] THEN UNCHANGED <<failed, baseline, promoter>>
     ELSE \/ /\ failed[r] = "none"
             /\ Promote(r)
             /\ UNCHANGED failed \/ failed' = [failed EXCEPT ![r] = "record"]
          \/ Fail(r) /\ UNCHANGED <<baseline, promoter>>
  /\ Goto(r, "finalize")
  /\ UNCHANGED <<overlap, wants, outcome, own, judged, latest, csv, capture>>

\* A cancellation is seen between two stages.
Cancel(r) ==
  /\ pc[r] \in Stage
  /\ outcome' = [outcome EXCEPT ![r] = "cancelled"]
  /\ Goto(r, "done")
  /\ UNCHANGED <<overlap, wants, failed, own, judged, fileVars>>

Finalize(r) ==
  /\ At(r, "finalize")
  /\ outcome' = [outcome EXCEPT ![r] = IF failed[r] = "none" THEN "passed" ELSE "failed"]
  /\ Goto(r, "done")
  /\ UNCHANGED <<overlap, wants, failed, own, judged, fileVars>>

\* The run's process dies, in the middle of a write perhaps, or an exception
\* leaves the pipeline between two stages.
Crash(r) ==
  /\ Active(r)
  /\ outcome' = [outcome EXCEPT ![r] = "died"]
  /\ Goto(r, "done")
  /\ UNCHANGED <<overlap, wants, failed, own, judged, fileVars>>

\* `eaiv baseline save reports/latest.json`, or the Baselines page.
UserPromotes ==
  /\ Promote("user")
  /\ UNCHANGED <<overlap, wants, runVars, latest, csv, capture>>

-----------------------------------------------------------------------------

Init ==
  /\ overlap \in BOOLEAN
  /\ pc = [r \in Runs |-> "new"]
  /\ wants \in [Runs -> SUBSET {"telemetry", "gate", "promote"}]
  /\ failed = [r \in Runs |-> "none"]
  /\ outcome = [r \in Runs |-> "open"]
  /\ own = [r \in Runs |-> NoReport]
  /\ latest = NoReport
  /\ baseline \in {NoReport} \cup [run : {"legacy"}, ok : BOOLEAN, cost : Costs]
  /\ csv = "none"
  /\ capture = [r \in Runs |-> "none"]
  /\ judged = [r \in Runs |-> NoReport]
  /\ promoter = "none"

Run(r) ==
  \/ Build(r)
  \/ ValidateRaises(r) \/ WriteLatest(r) \/ WriteLatestFails(r)
  \/ \E ok \in BOOLEAN, cost \in Costs : OpenLatest(r, ok, cost)
  \/ SkipTelemetry(r) \/ Capture(r) \/ CaptureFails(r) \/ CopyCapture(r)
  \/ Compare(r) \/ SaveBaseline(r)
  \/ Cancel(r) \/ Finalize(r) \/ Crash(r)

Next == UserPromotes \/ \E r \in Runs : Run(r)

Spec == Init /\ [][Next]_vars

-----------------------------------------------------------------------------

TypeOK ==
  /\ overlap \in BOOLEAN
  /\ pc \in [Runs -> Stage \cup {"new", "publish", "copy", "finalize", "done"}]
  /\ wants \in [Runs -> SUBSET {"telemetry", "gate", "promote"}]
  /\ failed \in [Runs -> {"none", "stage", "record"}]
  /\ outcome \in [Runs -> {"open", "passed", "failed", "cancelled", "died"}]
  /\ own \in [Runs -> Report]
  /\ latest \in Report /\ baseline \in Report
  /\ csv \in Runs \cup {"none"}
  /\ capture \in [Runs -> Runs \cup {"none"}]
  /\ judged \in [Runs -> Report]
  /\ promoter \in Runs \cup {"none", "user"}

\* A run none of whose other stages failed wrote the baseline, and it is not
\* recorded as cancelled; it is recorded as failed only when registering the
\* baseline it had replaced already went wrong (ValidationPipeline._save_baseline
\* is the last stage, and refuses).
PromoterPassed ==
  promoter \in Runs =>
    /\ failed[promoter] # "stage"
    /\ outcome[promoter] # "cancelled"
    /\ outcome[promoter] = "failed" => failed[promoter] = "record"

\* When runs do not overlap, the baseline a run wrote and the telemetry in its
\* directory are its own, although an earlier run's files may be left in the
\* report directory and suites that raise publish nothing.
AloneRunsOwnTheirEvidence ==
  ~overlap =>
    /\ promoter \in Runs => baseline = own[promoter]
    /\ \A r \in Runs : capture[r] \in {r, "none"}

\* When runs do not overlap, a run that was asked to gate promotes exactly the
\* report that its gate accepted, although both stages load the file anew.
AlonePromotedWasJudged ==
  ~overlap /\ promoter \in Runs /\ "gate" \in wants[promoter] =>
    judged[promoter] = baseline

-----------------------------------------------------------------------------
(* A claim of the source that the code does not keep.                      *)

\* The baseline a run promotes is that run's own report.
PromotedIsOwn == promoter \in Runs => baseline.run = promoter

=============================================================================
