------------------------------- MODULE Insights -------------------------------
(***************************************************************************)
(* The insight engine: independent rules over a report, the manifest of    *)
(* its run and a comparison with a baseline.  An insight has a severity,   *)
(* a category and, most of the time, the suite it is about.                *)
(*                                                                         *)
(* What a suite noticed in its metrics is a set of symptoms:               *)
(*   miss, overrun        a task missed its deadline, or only its budget   *)
(*   rom-over, rom-thin   flash beyond its budget, or nearly used up       *)
(*   ram-over, ram-thin   the same for static RAM                          *)
(*   roll, pitch          an axis whose error is above the limit           *)
(*   faulted, drops       error under faults above it; many samples lost   *)
(*   unstable             a model that answers the same input differently  *)
(***************************************************************************)
EXTENDS Comparison, FiniteSets

\* No manifest (a bare report file), and no report to compare with.
NoManifest == [status |-> "none"]
NoArtifact == [symptoms |-> "none"]

Symptoms ==
  {"miss", "overrun", "rom-over", "rom-thin", "ram-over", "ram-thin",
   "roll", "pitch", "faulted", "drops", "unstable"}

Insight(id, severity, category, suite) ==
  [id |-> id, severity |-> severity, category |-> category, suite |-> suite]

When(condition, insight) == IF condition THEN {insight} ELSE {}

-----------------------------------------------------------------------------
(* The rules.                                                              *)

\* A stage that failed for a reason which another rule is to diagnose.
ExpectedStageFailure(failure) ==
  failure \in {<<"validate", "suites failed">>, <<"compare", "regressions">>,
               <<"save_baseline", "refusing">>}

ExecutionInsights(manifest) ==
  IF manifest = NoManifest THEN {}
  ELSE When(manifest.status = "interrupted",
            Insight(<<"run-interrupted">>, "critical", "execution", "none"))
       \cup When(manifest.status = "cancelled",
                 Insight(<<"run-cancelled">>, "medium", "execution", "none"))
       \cup {Insight(<<"stage-failed", failure[1]>>, "critical", "execution", "none") :
               failure \in {f \in manifest.failed : ~ExpectedStageFailure(f)}}

\* Rules that read one symptom each.
DeadlineRules ==
  [miss     |-> Insight(<<"deadline-miss">>, "critical", "deadline", "rt_perf"),
   overrun  |-> Insight(<<"wcet-overrun">>, "medium", "headroom", "rt_perf")]

AccuracyRules ==
  [roll     |-> Insight(<<"fusion-rmse-roll">>, "high", "accuracy", "fusion"),
   pitch    |-> Insight(<<"fusion-rmse-pitch">>, "high", "accuracy", "fusion"),
   faulted  |-> Insight(<<"hil-faulted-rmse">>, "high", "robustness", "hil"),
   drops    |-> Insight(<<"hil-drop-rate">>, "medium", "robustness", "hil"),
   unstable |-> Insight(<<"tinyml-unstable-output">>, "high", "accuracy", "tinyml")]

Told(rules, artifact) == {rules[s] : s \in artifact.symptoms \cap DOMAIN rules}

\* Nothing is said of the memory of a suite that was skipped.
BudgetInsights(artifact) ==
  IF "memory" \in SkippedSuites(artifact.report) THEN {}
  ELSE {Insight(<<s>>, "critical", "budget", "memory") :
          s \in artifact.symptoms \cap {"rom-over", "ram-over"}}
       \cup {Insight(<<s>>, "medium", "headroom", "memory") :
               s \in artifact.symptoms \cap {"rom-thin", "ram-thin"}}

ReportEmpty(report) ==
  When(SuitesOf(report) = {}, Insight(<<"report-empty">>, "critical", "execution", "none"))

RegressionInsights(base, report) ==
  {Insight(<<"regression", p[1], p[2]>>, "high", "regression", p[1]) : p \in Regressions(base, report)}
  \cup When(ComparisonIssues(base, report),
            Insight(<<"comparison-evidence-blocked">>, "high", "regression", "none"))

\* What a rule blocks on is what its suite failed on: both compare the same
\* metric with the same limit (the rule as the report rounds it, so that the
\* limit is to have no more decimals), and a suite that was skipped has none.
SymptomsAgree(artifact) ==
  LET FailedOn(symptoms, suite) ==
        artifact.symptoms \cap symptoms # {} => suite \in FailedSuites(artifact.report)
  IN /\ FailedOn({"miss"}, "rt_perf") /\ FailedOn({"roll", "pitch"}, "fusion")
     /\ FailedOn({"faulted"}, "hil") /\ FailedOn({"rom-over", "ram-over"}, "memory")

\* Suites whose failures are left to the rules above.
HaveRules == {"fusion", "hil", "rt_perf", "memory"}

FailureInsight(s) ==
  Insight(<<"suite-failed", s>>, "high",
          IF s = "firmware" THEN "execution" ELSE "accuracy", s)

SuiteFailures(report) == {FailureInsight(s) : s \in FailedSuites(report) \ HaveRules}

\* Faulty variant: whatever was said of a suite explains why it failed.
UnexplainedUnlessMentioned(report, existing) ==
  {FailureInsight(s) :
     s \in (FailedSuites(report) \cap HaveRules) \ {i.suite : i \in existing}}

\* Suites that failed although none of their rules blocks: a missing dataset,
\* an error that is exactly at its limit, a task without samples.
UnexplainedFailures(report, existing) ==
  {FailureInsight(s) :
     s \in (FailedSuites(report) \cap HaveRules)
           \ {i.suite : i \in {j \in existing : j.severity \in Blocking}}}

ImprovementInsights(base, report) ==
  When(\E p \in Deltas(base, report) :
         ~Regressed(base, report, p) /\ Improved(base, report, p, 5),
       Insight(<<"improvements">>, "informational", "improvement", "none"))

CoverageInsights(report, manifest) ==
  When("memory" \in SkippedSuites(report),
       Insight(<<"memory-skipped">>, "medium", "coverage", "memory"))
  \cup When(manifest # NoManifest /\ SuitesOf(report) # Suites,
            Insight(<<"partial-suite-selection">>, "informational", "coverage", "none"))

ProvenanceInsights(report) ==
  LET overall == OverallProvenance(report)
  IN IF overall = "measured"
       THEN When(NonDevice(report) # {},
                 Insight(<<"provenance-not-device">>, "medium", "provenance", "none"))
       ELSE {Insight(<<"provenance", overall>>, "informational", "provenance", "none")}

\* The firmware suite has numbers, all of them measured on the device.
OnDevice(report) ==
  LET numbers == {p \in Numeric(report) : p[1] = "firmware"}
  IN numbers # {} /\ numbers \cap NonDevice(report) = {}

AuthorshipInsights(artifact) ==
  When(artifact.origin \in {"ai_assisted", "ai_generated"} /\ ~OnDevice(artifact.report),
       Insight(<<"ai-firmware-not-on-device">>, "medium", "provenance", "firmware"))

-----------------------------------------------------------------------------

Invalid(report) ==
  ReportIssues(report) \ {"empty-report", "suite-failed", "report-failed"} # {}

\* base is NoArtifact where nothing is compared.
GenerateInsights(artifact, manifest, base) ==
  LET report == artifact.report
      compared == base # NoArtifact
      found == ExecutionInsights(manifest) \cup ReportEmpty(report)
               \cup Told(DeadlineRules, artifact) \cup Told(AccuracyRules, artifact)
               \cup BudgetInsights(artifact)
               \cup (IF compared THEN RegressionInsights(base.report, report) ELSE {})
               \cup SuiteFailures(report)
  IN IF Invalid(report)
       THEN ExecutionInsights(manifest)
            \cup {Insight(<<"evidence-invalid">>, "critical", "execution", "none")}
       ELSE found \cup UnexplainedFailures(report, found)
            \cup (IF compared THEN ImprovementInsights(base.report, report) ELSE {})
            \cup CoverageInsights(report, manifest) \cup ProvenanceInsights(report)
            \cup AuthorshipInsights(artifact)

SeveritiesOf(insights) == {i.severity : i \in insights}

=============================================================================
