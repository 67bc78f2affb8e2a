------------------------------- MODULE Evidence -------------------------------
(***************************************************************************)
(* What a report shows: why it cannot establish a pass, how it compares    *)
(* with a baseline, and which verdict it earns.                            *)
(*                                                                         *)
(* A report lists suites; a suite has a verdict, may have been skipped and *)
(* has metrics; a metric has a value and may declare its direction, its    *)
(* provenance and its source (a declared unit is treated as a source is).  *)
(* Every problem with the shape of a report is one flag, malformed.        *)
(***************************************************************************)
EXTENDS Integers

CONSTANTS
  Suites, Metrics,   \* names
  Values,            \* finite metric values
  Hint,              \* the direction a metric's name suggests
  Allowance          \* max_regression_pct

Direction == {"higher", "lower", "info"}
Provenance == {"measured", "simulated", "mock", "unknown"}
Source == {"device", "host", "unknown"}

Metric ==
  [kind : {"number", "nan", "text"}, value : Values,
   direction : Direction \cup {"undeclared"},
   provenance : Provenance \cup {"undeclared"},
   source : Source \cup {"undeclared"}]

\* A record with these fields and no others.
HasFields(record, fields) == record = [f \in fields |-> record[f]]

\* A suite names some of the metrics, a report some of the suites.
IsSuite(suite) ==
  /\ DOMAIN suite = {"passed", "skipped", "metrics"}
  /\ suite.passed \in BOOLEAN /\ suite.skipped \in BOOLEAN
  /\ DOMAIN suite.metrics \subseteq Metrics
  /\ \A m \in DOMAIN suite.metrics : suite.metrics[m] \in Metric

Target == {"undeclared", "boardA", "boardB"}

IsReport(report) ==
  /\ HasFields(report, {"suites", "malformed", "complete", "declaresFailure", "target"})
  /\ {report.malformed, report.complete, report.declaresFailure} \subseteq BOOLEAN
  /\ report.target \in Target
  /\ DOMAIN report.suites \subseteq Suites
  /\ \A s \in DOMAIN report.suites : IsSuite(report.suites[s])

Severity == {"critical", "high", "medium", "informational"}

ASSUME EvidenceAssumption ==
  /\ Values \subseteq Int /\ Allowance \in Nat
  /\ Hint \in [Metrics -> Direction]

-----------------------------------------------------------------------------
(* What a report shows by itself.                                          *)

SuitesOf(report) == DOMAIN report.suites
MetricsOf(report, s) == DOMAIN report.suites[s].metrics
Of(report, s, m) == report.suites[s].metrics[m]

\* The metrics, as pairs of a suite and a name.
Pairs(report) ==
  {p \in Suites \X Metrics : p[1] \in SuitesOf(report) /\ p[2] \in MetricsOf(report, p[1])}

HasNumber(report, p) ==
  p \in Pairs(report) /\ Of(report, p[1], p[2]).kind = "number"

IssueCode ==
  {"empty-report", "malformed", "incomplete-run", "report-failed", "suite-failed",
   "invalid-number"}

\* Why a report cannot establish a passing result.
ReportIssues(report) ==
  {code \in IssueCode :
     \/ code = "empty-report" /\ SuitesOf(report) = {}
     \/ /\ SuitesOf(report) # {}
        /\ \/ code = "malformed" /\ report.malformed
           \/ code = "incomplete-run" /\ ~report.complete
           \/ code = "report-failed" /\ report.declaresFailure
           \/ code = "suite-failed" /\ \E s \in SuitesOf(report) : ~report.suites[s].passed
           \/ /\ code = "invalid-number"
              /\ \E p \in Pairs(report) : Of(report, p[1], p[2]).kind = "nan"}

-----------------------------------------------------------------------------
(* Comparing a candidate with a baseline.                                  *)

SharedNumbers(base, current) ==
  {p \in Suites \X Metrics : HasNumber(base, p) /\ HasNumber(current, p)}

\* A definition that the baseline declares and the candidate does not repeat.
\* What only the candidate declares is not a change.
DefinitionChanged(base, current, p) ==
  LET b == Of(base, p[1], p[2])
      c == Of(current, p[1], p[2])
  IN \/ b.direction # "undeclared" /\ b.direction # c.direction
     \/ b.provenance # "undeclared" /\ b.provenance # c.provenance
     \/ b.source # "undeclared" /\ b.source # c.source

\* Faulty variant: the metrics of the candidate are the ones looked at.
LostInCandidateOnly(base, current) ==
  {p \in Pairs(current) : ~HasNumber(base, p) /\ p[1] \in SuitesOf(base)}

\* Numbers of the baseline that the candidate has not.
LostNumbers(base, current) ==
  {p \in Pairs(base) :
     p[1] \in SuitesOf(current) /\ HasNumber(base, p) /\ ~HasNumber(current, p)}

LostSuites(base, current) == SuitesOf(base) \ SuitesOf(current)

NowSkipped(base, current) ==
  {s \in SuitesOf(base) \cap SuitesOf(current) :
     current.suites[s].skipped /\ ~base.suites[s].skipped}

TargetChanged(base, current) ==
  base.target # "undeclared" /\ base.target # current.target

\* The direction a metric is gated in.
GatedDirection(base, current, p) ==
  LET b == Of(base, p[1], p[2])
      c == Of(current, p[1], p[2])
  IN IF DefinitionChanged(base, current, p) \/ "mock" \in {b.provenance, c.provenance}
       THEN "info"
     ELSE IF c.direction # "undeclared" THEN c.direction
     ELSE IF b.direction # "undeclared" THEN b.direction
     ELSE Hint[p[2]]

Abs(n) == IF n < 0 THEN -n ELSE n

\* Faulty variant: the change is divided by the old value, sign and all.
WorsenedSigned(old, new, direction) ==
  LET change == IF old < 0 THEN old - new ELSE new - old
  IN \/ direction = "higher" /\ change * 100 < -Allowance * Abs(old)
     \/ direction = "lower" /\ change * 100 > Allowance * Abs(old)

\* Faulty variant: a change that reaches the allowance exceeds it.
WorsenedAtLimit(old, new, direction) ==
  \/ direction = "higher" /\ (new - old) * 100 <= -Allowance * Abs(old)
  \/ direction = "lower" /\ (new - old) * 100 >= Allowance * Abs(old)

\* The change exceeds the allowance, in per cent of the old value.  From zero,
\* any change is infinite.
Worsened(old, new, direction) ==
  \/ direction = "higher" /\ (new - old) * 100 < -Allowance * Abs(old)
  \/ direction = "lower" /\ (new - old) * 100 > Allowance * Abs(old)

Regressed(base, current, p) ==
  Worsened(Of(base, p[1], p[2]).value, Of(current, p[1], p[2]).value,
           GatedDirection(base, current, p))

\* Issues that leave the two reports comparable.
Tolerated == {"suite-failed", "report-failed", "incomplete-run", "invalid-number"}

Comparable(base, current) ==
  ReportIssues(base) \cup ReportIssues(current) \subseteq Tolerated

\* What the comparison shows: nothing, when a report cannot be read.
Deltas(base, current) ==
  IF Comparable(base, current) THEN SharedNumbers(base, current) ELSE {}

ComparisonIssues(base, current) ==
  \/ ReportIssues(base) # {} \/ ReportIssues(current) # {}
  \/ TargetChanged(base, current)
  \/ LostSuites(base, current) # {}
  \/ NowSkipped(base, current) # {}
  \/ LostNumbers(base, current) # {}
  \/ \E p \in SharedNumbers(base, current) : DefinitionChanged(base, current, p)
  \/ Deltas(base, current) = {}

GatePasses(base, current) ==
  /\ ~ComparisonIssues(base, current)
  /\ \A p \in Deltas(base, current) : ~Regressed(base, current, p)

-----------------------------------------------------------------------------
(* The release verdict.                                                    *)

\* The numbers the verdict looks at; NaN is a number here.
Numeric(report) == {p \in Pairs(report) : Of(report, p[1], p[2]).kind # "text"}

ProvenanceOf(report, p) ==
  IF Of(report, p[1], p[2]).provenance = "undeclared" THEN "unknown"
  ELSE Of(report, p[1], p[2]).provenance

\* One word for whether the numbers were real.
OverallProvenance(report) ==
  LET kinds == {ProvenanceOf(report, p) : p \in Numeric(report)}
  IN IF kinds \subseteq {"unknown"} THEN "unknown"
     ELSE IF kinds = {"measured"} THEN "measured"
     ELSE IF "measured" \notin kinds THEN "simulated"
     ELSE "mixed"

\* Faulty variant: a number measured on the host will do.
NotMeasured(report) ==
  {p \in Numeric(report) : ProvenanceOf(report, p) # "measured"}

\* Numbers that do not speak for the device.
NonDevice(report) ==
  {p \in Numeric(report) :
     \/ ProvenanceOf(report, p) # "measured"
     \/ Of(report, p[1], p[2]).source # "device"}

SkippedSuites(report) == {s \in SuitesOf(report) : report.suites[s].skipped}

Blocking == {"critical", "high"}

FailedSuites(report) == {s \in SuitesOf(report) : ~report.suites[s].passed}

\* The first of these that applies.
Verdict(report, severities) ==
  LET issues == ReportIssues(report)
  IN IF SuitesOf(report) = {} THEN "unknown"
     ELSE IF ~(issues \subseteq {"suite-failed", "report-failed"}) THEN "do-not-ship"
     ELSE IF severities \cap Blocking # {} THEN "do-not-ship"
     ELSE IF issues # {} THEN "do-not-ship"
     ELSE IF FailedSuites(report) # {} THEN "do-not-ship"
     ELSE IF OverallProvenance(report) # "measured" THEN "ship-with-risk"
     ELSE IF NonDevice(report) # {} \/ SkippedSuites(report) # {} THEN "ship-with-risk"
     ELSE IF "medium" \in severities THEN "ship-with-risk"
     ELSE "ship"

=============================================================================
