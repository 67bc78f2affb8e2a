----------------------------- MODULE ReleaseReview -----------------------------
(***************************************************************************)
(* Recorded runs, one after the other, and what the pages and the command  *)
(* line say of them: the verdict on the Results page, the banner of        *)
(* `eaiv runs show` and `eaiv runs compare`.                               *)
(*                                                                         *)
(* A run validates, compares with the stored baseline and may promote its  *)
(* report; each stage may fail, and the later ones still run.  `eaiv run`  *)
(* leaves a report without a manifest.  Runs that overlap are the subject  *)
(* of SharedReports.                                                       *)
(***************************************************************************)
EXTENDS Insights, Sequences

CONSTANTS
  Artifacts,    \* what the suites may produce
  MaxEntries    \* bound: runs and bare reports

ASSUME ReviewAssumption ==
  /\ \A artifact \in Artifacts :
       IsArtifact(artifact) /\ SymptomsAgree(artifact)
  /\ MaxEntries \in Nat

VARIABLES
  entries,   \* runs and bare reports, the newest last
  stage,     \* the next stage of the active run, or "idle"
  latest,    \* latest.json
  stored     \* the baseline

vars == <<entries, stage, latest, stored>>

Statuses == {"running", "passed", "failed", "cancelled", "interrupted"}

Newest == Len(entries)
Active == entries[Newest].manifest

-----------------------------------------------------------------------------
(* The pipeline.                                                           *)

StartRun(gated, promotes) ==
  /\ stage = "idle" /\ Newest < MaxEntries
  /\ entries' = Append(entries,
       [manifest |-> [status |-> "running", failed |-> {}, gated |-> gated,
                      promotes |-> promotes],
        artifact |-> NoArtifact])
  /\ stage' = "validate"
  /\ UNCHANGED <<latest, stored>>

\* The active run goes on to its next stage with these further failures.
Proceed(next, failures) ==
  /\ entries' = [entries EXCEPT ![Newest].manifest.failed = @ \cup failures]
  /\ stage' = next

\* The suites run to the end; what they found is published.
Validate(artifact) ==
  /\ stage = "validate"
  /\ entries' = [entries EXCEPT
       ![Newest].artifact = artifact,
       ![Newest].manifest.failed =
         IF FailedSuites(artifact.report) # {} THEN @ \cup {<<"validate", "suites failed">>}
         ELSE @]
  /\ stage' = "compare"
  /\ latest' = artifact
  /\ UNCHANGED stored

\* The target cannot be reached; nothing is published.
ValidateRaises ==
  /\ stage = "validate"
  /\ Proceed("compare", {<<"validate", "error">>})
  /\ UNCHANGED <<latest, stored>>

CompareFailures ==
  IF ~Active.gated THEN {}
  ELSE IF stored = NoArtifact \/ latest = NoArtifact THEN {<<"compare", "error">>}
  ELSE IF ComparisonIssues(stored.report, latest.report) THEN {<<"compare", "blocked">>}
  ELSE IF Regressions(stored.report, latest.report) # {} THEN {<<"compare", "regressions">>}
  ELSE {}

CompareStage ==
  /\ stage = "compare"
  /\ Proceed("save_baseline", CompareFailures)
  /\ UNCHANGED <<latest, stored>>

\* A report that cannot be read, promoted or written is an error; so is a
\* baseline that was replaced and could not be registered with the run.
SaveStage ==
  /\ stage = "save_baseline"
  /\ \/ ~Active.promotes /\ Proceed("finish", {}) /\ UNCHANGED stored
     \/ /\ Active.promotes /\ Active.failed # {}
        /\ Proceed("finish", {<<"save_baseline", "refusing">>}) /\ UNCHANGED stored
     \/ /\ Active.promotes /\ Active.failed = {}
        /\ Proceed("finish", {<<"save_baseline", "error">>}) /\ UNCHANGED stored
     \/ /\ Active.promotes /\ Active.failed = {}
        /\ latest # NoArtifact /\ ReportIssues(latest.report) = {}
        /\ \E failures \in {{}, {<<"save_baseline", "error">>}} : Proceed("finish", failures)
        /\ stored' = latest
  /\ UNCHANGED latest

\* Faulty variant: a run that is closed still has a stage to go.
CloseWithoutStopping(status) ==
  /\ entries' = [entries EXCEPT ![Newest].manifest.status = status]
  /\ UNCHANGED <<stage, latest, stored>>

Close(status) ==
  /\ entries' = [entries EXCEPT ![Newest].manifest.status = status]
  /\ stage' = "idle"
  /\ UNCHANGED <<latest, stored>>

Finish ==
  /\ stage = "finish"
  /\ Close(IF Active.failed = {} THEN "passed" ELSE "failed")

\* A cancellation is seen, or the process dies and a reader says so.
CutShort(status) ==
  /\ stage # "idle" /\ status \in {"cancelled", "interrupted"}
  /\ Close(status)

-----------------------------------------------------------------------------
(* Without a run.                                                          *)

BareRun(artifact) ==
  /\ stage = "idle" /\ Newest < MaxEntries
  /\ entries' = Append(entries, [manifest |-> NoManifest, artifact |-> artifact])
  /\ latest' = artifact
  /\ UNCHANGED <<stage, stored>>

\* `eaiv baseline save` of any report file.
PromoteByHand(e) ==
  /\ e \in 1..Newest /\ entries[e].artifact # NoArtifact
  /\ ReportIssues(entries[e].artifact.report) = {}
  /\ stored' = entries[e].artifact
  /\ UNCHANGED <<entries, stage, latest>>

\* A report as it is shown once its run has passed.
AsPassed(artifact) == [artifact EXCEPT !.report.complete = TRUE]

\* The Baselines page promotes runs that passed, as they are shown.
PromoteFromPage(e) ==
  /\ e \in 1..Newest /\ entries[e].manifest.status = "passed"
  /\ entries[e].artifact # NoArtifact
  /\ ReportIssues(AsPassed(entries[e].artifact).report) = {}
  /\ stored' = AsPassed(entries[e].artifact)
  /\ UNCHANGED <<entries, stage, latest>>

Init ==
  /\ entries = << >> /\ stage = "idle"
  /\ latest = NoArtifact /\ stored = NoArtifact

Next ==
  \/ \E gated, promotes \in BOOLEAN : StartRun(gated, promotes)
  \/ \E artifact \in Artifacts : Validate(artifact) \/ BareRun(artifact)
  \/ ValidateRaises
  \/ CompareStage
  \/ SaveStage
  \/ Finish
  \/ \E status \in {"cancelled", "interrupted"} : CutShort(status)
  \/ \E e \in 1..MaxEntries : PromoteByHand(e) \/ PromoteFromPage(e)

Spec == Init /\ [][Next]_vars

-----------------------------------------------------------------------------
(* What is shown.                                                          *)

HasReport(e) == e \in 1..Newest /\ entries[e].artifact # NoArtifact
Recorded(e) == e \in 1..Newest /\ entries[e].manifest # NoManifest

\* Faulty variant: the report as it was written.
ShownAsWritten(e) == entries[e].artifact

\* The report of an entry, told how its run ended.
Shown(e) ==
  IF Recorded(e)
    THEN [entries[e].artifact EXCEPT !.report.complete = entries[e].manifest.status = "passed"]
    ELSE entries[e].artifact

\* Faulty variant: compared with the baseline whether the run asked for it or not.
AnyBaseline(e) == stored

\* The baseline a run named, as it is now.
BaselineOf(e) ==
  IF Recorded(e) /\ entries[e].manifest.gated THEN stored ELSE NoArtifact

ResultsInsights(e) == GenerateInsights(Shown(e), entries[e].manifest, BaselineOf(e))
ResultsVerdict(e) == Verdict(Shown(e).report, SeveritiesOf(ResultsInsights(e)))

\* `eaiv runs show`: the report as it was written, and no comparison.
ShowInsights(e) == GenerateInsights(entries[e].artifact, entries[e].manifest, NoArtifact)

\* What the Compare page offers: every report, and the baselines.
Comparables == {Shown(e) : e \in {f \in 1..Newest : HasReport(f)}} \cup ({stored} \ {NoArtifact})

Cleared == {"ship", "ship-with-risk"}

-----------------------------------------------------------------------------

TypeOK ==
  /\ \A e \in 1..Newest :
       /\ entries[e].artifact \in Artifacts \cup {NoArtifact}
       /\ Recorded(e) => /\ entries[e].manifest.status \in Statuses
                         /\ entries[e].manifest.status = "running" => e = Newest
  /\ stage \in {"idle", "validate", "compare", "save_baseline", "finish"}
  /\ stage # "idle" => Newest > 0 /\ Active.status = "running"
  /\ latest \in Artifacts \cup {NoArtifact}
  /\ \/ stored = NoArtifact
     \/ /\ stored \in Artifacts \cup {AsPassed(a) : a \in Artifacts}
        /\ ReportIssues(stored.report) = {}

\* A verdict on the Results page that lets firmware out belongs to a run that
\* ended with every stage and every suite passed (ReportSource.report, _judge).
ClearedRunsPassed ==
  \A e \in 1..Newest :
    HasReport(e) /\ Recorded(e) /\ ResultsVerdict(e) \in Cleared =>
      /\ entries[e].manifest.status = "passed" /\ entries[e].manifest.failed = {}
      /\ FailedSuites(entries[e].artifact.report) = {}

\* A run that passed on sound evidence is not blocked afterwards on the Results
\* page, as long as the baseline it named, if it named one, is its own report
\* or still lets it through; but for a model with unstable output, which no
\* suite fails on (generate_insights, compare_reports).
PassedRunsAreNotBlocked ==
  \A e \in 1..Newest :
    /\ HasReport(e) /\ Recorded(e) /\ entries[e].manifest.status = "passed"
    /\ "unstable" \notin entries[e].artifact.symptoms
    /\ ReportIssues(entries[e].artifact.report) = {}
    /\ entries[e].manifest.gated =>
         \/ stored = entries[e].artifact
         \/ GatePasses(stored.report, entries[e].artifact.report)
    => ResultsVerdict(e) \in Cleared

\* Every suite that failed is accounted for by a blocking finding about that
\* suite, unless the evidence as a whole is refused: on the Results page and
\* on the command line (_unexplained_failure_insights).
FailuresAreDiagnosed ==
  \A e \in 1..Newest : HasReport(e) =>
    \A insights \in {ResultsInsights(e), ShowInsights(e)} :
      \/ \E i \in insights : i.id = <<"evidence-invalid">>
      \/ \A s \in FailedSuites(entries[e].artifact.report) :
           \E i \in insights : i.suite = s /\ i.severity \in Blocking

\* A comparison passes exactly where the gate does: what is called
\* incomparable, and a number that is gone, never pass the gate; and what is
\* recommended comes from a run that passed (check_compatibility,
\* compare_reports, recommendation).
ComparisonAgreesWithGate ==
  \A old, new \in Comparables :
    /\ ComparisonPasses(old, new) <=> GatePasses(old.report, new.report)
    /\ Removed(old.report, new.report) # {} => ~ComparisonPasses(old, new)
    /\ \A e \in 1..Newest :
         HasReport(e) /\ Recorded(e) /\ Shown(e) = new /\ entries[e].manifest.status # "passed" =>
           Recommendation(old, new) \notin {"safe to promote", "equivalent"}

=============================================================================
