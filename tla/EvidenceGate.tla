------------------------------ MODULE EvidenceGate ------------------------------
(***************************************************************************)
(* What reports may become baselines, over chains of gated promotions, and *)
(* whether the gate, the baseline store and the verdict agree.             *)
(*                                                                         *)
(* Reports come from runs, and from files that a person or a CI job names. *)
(***************************************************************************)
EXTENDS Evidence

CONSTANTS
  Offered,           \* the reports that runs publish
  Findings           \* the sets of severities that the insight engine may find

ASSUME GateAssumption ==
  /\ \A report \in Offered : IsReport(report)
  /\ Findings \subseteq SUBSET Severity

VARIABLES
  baseline,  \* the stored baseline
  latest,    \* the report under judgement
  open,      \* the severities of the insights open on it
  first      \* history: the baseline from which gating started

vars == <<baseline, latest, open, first>>

-----------------------------------------------------------------------------

\* A run publishes a report, or a report file is named; the engine finds what
\* it finds.
Publish(report, severities) ==
  /\ latest' = report
  /\ open' = severities
  /\ UNCHANGED <<baseline, first>>

\* A run that compares itself with the baseline and replaces it.
GatedPromotion ==
  /\ GatePasses(baseline, latest)
  /\ ReportIssues(latest) = {}
  /\ baseline' = latest
  /\ UNCHANGED <<latest, open, first>>

\* Faulty variant: whatever the report says, it is saved.
RebaseAnything ==
  /\ baseline' = latest /\ first' = latest
  /\ UNCHANGED <<latest, open>>

\* Someone establishes a new baseline (`eaiv baseline save`).
Rebase ==
  /\ ReportIssues(latest) = {}
  /\ baseline' = latest /\ first' = latest
  /\ UNCHANGED <<latest, open>>

Init ==
  /\ baseline \in Offered /\ ReportIssues(baseline) = {}
  /\ first = baseline
  /\ latest = baseline
  /\ open = {}

Next ==
  \/ \E report \in Offered, severities \in Findings : Publish(report, severities)
  \/ GatedPromotion
  \/ Rebase

Spec == Init /\ [][Next]_vars

-----------------------------------------------------------------------------

\* Reports that nothing is wrong with.
Sound == {report \in Offered : ReportIssues(report) = {}}

TypeOK ==
  /\ baseline \in Sound /\ first \in Sound
  /\ latest \in Offered
  /\ open \subseteq Severity

\* A new report asks of a candidate all that an old one asked.
Covers(old, new) ==
  /\ old.target \in {"undeclared", new.target}
  /\ SuitesOf(old) \subseteq SuitesOf(new)
  /\ \A s \in SuitesOf(old) : new.suites[s].skipped => old.suites[s].skipped
  /\ \A p \in Suites \X Metrics :
       HasNumber(old, p) => HasNumber(new, p) /\ ~DefinitionChanged(old, new, p)

\* However many gated runs replace the baseline one after the other, it never
\* asks less than the one gating started from: no suite, number, definition or
\* target is lost on the way, although each run is compared with the last
\* baseline only (compare_reports, BaselineStore.save).
CoverageIsKept == Covers(first, baseline)

\* A report that could be stored passes against itself, so that a rerun with
\* the same numbers is never blocked; a report without a number is compared
\* with nothing (compare_reports).
RerunPasses ==
  latest \in Sound =>
    (GatePasses(latest, latest) <=> \E p \in Suites \X Metrics : HasNumber(latest, p))

\* In the direction, the new value is at most the allowance worse than the old
\* one: below a negative value is further from zero, and from zero there is
\* nothing to allow.
WithinAllowance(old, new, direction) ==
  /\ direction = "lower" =>
       100 * new <= (IF old < 0 THEN 100 - Allowance ELSE 100 + Allowance) * old
  /\ direction = "higher" =>
       100 * new >= (IF old < 0 THEN 100 + Allowance ELSE 100 - Allowance) * old

\* A gated run never replaces the baseline by one in which a number is worse
\* than allowed, whatever its sign and also when it was zero, in the direction
\* the baseline declares or, when neither report declares one, the name
\* suggests; but for mock values (compare_reports).
PromotionWithinAllowance ==
  [][GatedPromotion =>
       \A p \in Suites \X Metrics :
         HasNumber(baseline, p) =>
           LET old == Of(baseline, p[1], p[2])
               new == Of(latest, p[1], p[2])
           IN "mock" \notin {old.provenance, new.provenance} =>
                /\ old.direction # "undeclared" =>
                     WithinAllowance(old.value, new.value, old.direction)
                /\ old.direction = "undeclared" /\ new.direction = "undeclared" =>
                     WithinAllowance(old.value, new.value, Hint[p[2]])]_vars

\* A report that is judged ready can serve as a baseline, has numbers to gate
\* with, and every one of them was measured on the device, so that none is
\* muted as a mock (_judge, compare_reports).
ReadyReportsGate ==
  Verdict(latest, open) = "ship" =>
    /\ GatePasses(latest, latest)
    /\ \A p \in SharedNumbers(latest, latest) :
         /\ Of(latest, p[1], p[2]).provenance = "measured"
         /\ Of(latest, p[1], p[2]).source = "device"

=============================================================================
