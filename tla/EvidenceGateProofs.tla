--------------------------- MODULE EvidenceGateProofs ---------------------------
(***************************************************************************)
(* What EvidenceGate promises, for every set of reports and every          *)
(* allowance.  The argument about chains of promotions is that Covers is   *)
(* reflexive and transitive, and that the gate checks it for one step.     *)
(***************************************************************************)
EXTENDS EvidenceGate, TLAPS

\* A number's value is an integer.
LEMMA NumbersAreIntegers ==
  ASSUME NEW report \in Offered, NEW p \in Suites \X Metrics, HasNumber(report, p)
  PROVE  Of(report, p[1], p[2]).value \in Int
<1>1. /\ p[1] \in SuitesOf(report) /\ p[2] \in MetricsOf(report, p[1])
  BY DEF HasNumber, Pairs
<1>2. IsReport(report)
  BY GateAssumption, EvidenceAssumption
<1>3. IsSuite(report.suites[p[1]])
  BY <1>1, <1>2 DEF IsReport, SuitesOf
<1>4. Of(report, p[1], p[2]) \in Metric
  BY <1>1, <1>3 DEF IsSuite, MetricsOf, Of
<1>5. Of(report, p[1], p[2]).value \in Values
  BY <1>4 DEF Metric
<1> QED
  BY <1>5, GateAssumption, EvidenceAssumption

\* The same value again is no worsening, also from zero.
LEMMA SameIsNotWorse ==
  ASSUME NEW n \in Int, NEW direction PROVE ~Worsened(n, n, direction)
<1>1. Abs(n) \in Nat
  BY DEF Abs
<1>2. Allowance \in Nat
  BY GateAssumption, EvidenceAssumption
<1>3. Allowance * Abs(n) \in Nat
  BY <1>1, <1>2
<1>4. (n - n) * 100 = 0
  OBVIOUS
<1>5. -Allowance * Abs(n) = -(Allowance * Abs(n))
  BY <1>1, <1>2
<1> QED
  BY <1>3, <1>4, <1>5 DEF Worsened

LEMMA CoversReflexive ==
  ASSUME NEW report PROVE Covers(report, report)
BY DEF Covers, DefinitionChanged

LEMMA CoversTransitive ==
  ASSUME NEW a, NEW b, NEW c, Covers(a, b), Covers(b, c)
  PROVE  Covers(a, c)
<1>1. a.target \in {"undeclared", c.target}
  BY DEF Covers
<1>2. SuitesOf(a) \subseteq SuitesOf(c)
  BY DEF Covers
<1>3. \A s \in SuitesOf(a) : c.suites[s].skipped => a.suites[s].skipped
  BY DEF Covers
<1>4. ASSUME NEW p \in Suites \X Metrics, HasNumber(a, p)
      PROVE  HasNumber(c, p) /\ ~DefinitionChanged(a, c, p)
  <2>1. HasNumber(b, p) /\ ~DefinitionChanged(a, b, p)
    BY <1>4 DEF Covers
  <2>2. HasNumber(c, p) /\ ~DefinitionChanged(b, c, p)
    BY <2>1 DEF Covers
  <2> QED
    BY <2>1, <2>2 DEF DefinitionChanged
<1> QED
  BY <1>1, <1>2, <1>3, <1>4 DEF Covers

\* One gated step loses nothing.
LEMMA GateCovers ==
  ASSUME NEW base, NEW current, GatePasses(base, current)
  PROVE  Covers(base, current)
<1>1. ~ComparisonIssues(base, current)
  BY DEF GatePasses
<1>2. base.target \in {"undeclared", current.target}
  BY <1>1 DEF ComparisonIssues, TargetChanged
<1>3. SuitesOf(base) \subseteq SuitesOf(current)
  BY <1>1 DEF ComparisonIssues, LostSuites
<1>4. \A s \in SuitesOf(base) : current.suites[s].skipped => base.suites[s].skipped
  BY <1>1, <1>3 DEF ComparisonIssues, NowSkipped
<1>5. ASSUME NEW p \in Suites \X Metrics, HasNumber(base, p)
      PROVE  HasNumber(current, p) /\ ~DefinitionChanged(base, current, p)
  <2>1. p \in Pairs(base) /\ p[1] \in SuitesOf(current)
    BY <1>3, <1>5 DEF HasNumber, Pairs
  <2>2. HasNumber(current, p)
    BY <1>1, <1>5, <2>1 DEF ComparisonIssues, LostNumbers
  <2>3. p \in SharedNumbers(base, current)
    BY <1>5, <2>2 DEF SharedNumbers
  <2> QED
    BY <1>1, <2>2, <2>3 DEF ComparisonIssues
<1> QED
  BY <1>2, <1>3, <1>4, <1>5 DEF Covers

-----------------------------------------------------------------------------

Inv == TypeOK /\ CoverageIsKept

LEMMA InitInv == Init => Inv
<1> SUFFICES ASSUME Init PROVE Inv
  OBVIOUS
<1>1. TypeOK
  BY DEF Init, TypeOK, Sound
<1>2. CoverageIsKept
  BY CoversReflexive DEF Init, CoverageIsKept
<1> QED
  BY <1>1, <1>2 DEF Inv

LEMMA NextInv == Inv /\ [Next]_vars => Inv'
<1> SUFFICES ASSUME Inv, [Next]_vars PROVE Inv'
  OBVIOUS
<1>1. CASE \E report \in Offered, severities \in Findings : Publish(report, severities)
  <2>1. PICK report \in Offered, severities \in Findings : Publish(report, severities)
    BY <1>1
  <2>2. TypeOK'
    BY <2>1, GateAssumption, EvidenceAssumption DEF Inv, TypeOK, Publish
  <2>3. CoverageIsKept'
    BY <2>1 DEF Inv, CoverageIsKept, Publish
  <2> QED
    BY <2>2, <2>3 DEF Inv
<1>2. CASE GatedPromotion
  <2>1. TypeOK'
    BY <1>2 DEF Inv, TypeOK, Sound, GatedPromotion
  <2>2. Covers(baseline, latest)
    BY <1>2, GateCovers DEF GatedPromotion
  <2>3. Covers(first, latest)
    BY <2>2, CoversTransitive DEF Inv, CoverageIsKept
  <2>4. CoverageIsKept'
    BY <1>2, <2>3 DEF GatedPromotion, CoverageIsKept
  <2> QED
    BY <2>1, <2>4 DEF Inv
<1>3. CASE Rebase
  <2>1. TypeOK'
    BY <1>3 DEF Inv, TypeOK, Sound, Rebase
  <2>2. CoverageIsKept'
    BY <1>3, CoversReflexive DEF Rebase, CoverageIsKept
  <2> QED
    BY <2>1, <2>2 DEF Inv
<1>4. CASE UNCHANGED vars
  BY <1>4 DEF Inv, TypeOK, CoverageIsKept, vars
<1> QED
  BY <1>1, <1>2, <1>3, <1>4 DEF Next

\* The baseline is always a report nothing is wrong with, and covers the one
\* that gating started from.
THEOREM Invariance == Spec => []Inv
BY InitInv, NextInv, PTL DEF Spec

\* Only reports without issues are stored (BaselineStore.save).
THEOREM TypeCorrect == Spec => []TypeOK
<1>1. Inv => TypeOK
  BY DEF Inv
<1> QED
  BY <1>1, Invariance, PTL

\* No chain of gated promotions, however long, loses a suite, a number, a
\* definition or the target (compare_reports).
THEOREM CoverageIsKeptAlways == Spec => []CoverageIsKept
<1>1. Inv => CoverageIsKept
  BY DEF Inv
<1> QED
  BY <1>1, Invariance, PTL

-----------------------------------------------------------------------------

\* A report that could be stored passes against itself if it has a number
\* (compare_reports).
LEMMA SoundPassesItself ==
  ASSUME NEW report \in Sound
  PROVE  GatePasses(report, report) <=> \E p \in Suites \X Metrics : HasNumber(report, p)
<1>1. report \in Offered /\ ReportIssues(report) = {}
  BY DEF Sound
<1>2. Deltas(report, report) = SharedNumbers(report, report)
  BY <1>1 DEF Deltas, Comparable
<1>3. Deltas(report, report) # {} <=> \E p \in Suites \X Metrics : HasNumber(report, p)
  BY <1>2 DEF SharedNumbers
<1>4. ~TargetChanged(report, report) /\ LostSuites(report, report) = {}
  BY DEF TargetChanged, LostSuites
<1>5. NowSkipped(report, report) = {}
  BY DEF NowSkipped
<1>6. LostNumbers(report, report) = {}
  BY DEF LostNumbers
<1>7. \A p \in Suites \X Metrics : ~DefinitionChanged(report, report, p)
  BY DEF DefinitionChanged
<1>8. ASSUME NEW p \in Deltas(report, report) PROVE ~Regressed(report, report, p)
  <2>1. p \in Suites \X Metrics /\ HasNumber(report, p)
    BY <1>2, <1>8 DEF SharedNumbers
  <2>2. Of(report, p[1], p[2]).value \in Int
    BY <1>1, <2>1, NumbersAreIntegers
  <2> QED
    BY <2>2, SameIsNotWorse DEF Regressed
<1>9. ComparisonIssues(report, report) <=> Deltas(report, report) = {}
  <2>1. \A p \in SharedNumbers(report, report) : p \in Suites \X Metrics
    BY DEF SharedNumbers
  <2> QED
    BY <1>1, <1>4, <1>5, <1>6, <1>7, <2>1 DEF ComparisonIssues
<1> QED
  BY <1>3, <1>8, <1>9 DEF GatePasses

\* A rerun with the same numbers is never blocked (compare_reports).
THEOREM RerunPassesAlways == Spec => []RerunPasses
<1>1. TypeOK => RerunPasses
  BY SoundPassesItself DEF RerunPasses
<1> QED
  BY <1>1, TypeCorrect, PTL

\* A report that is judged ready gates, with numbers of the device only
\* (_judge, compare_reports).
THEOREM ReadyReportsGateAlways == Spec => []ReadyReportsGate
<1>1. TypeOK => ReadyReportsGate
  <2> SUFFICES ASSUME TypeOK, Verdict(latest, open) = "ship"
               PROVE  /\ GatePasses(latest, latest)
                      /\ \A p \in SharedNumbers(latest, latest) :
                           /\ Of(latest, p[1], p[2]).provenance = "measured"
                           /\ Of(latest, p[1], p[2]).source = "device"
    BY DEF ReadyReportsGate
  <2>1. /\ ReportIssues(latest) = {} /\ SuitesOf(latest) # {}
        /\ OverallProvenance(latest) = "measured" /\ NonDevice(latest) = {}
    BY DEF Verdict
  <2>2. latest \in Sound
    BY <2>1 DEF TypeOK, Sound
  <2>3. {ProvenanceOf(latest, p) : p \in Numeric(latest)} # {}
    BY <2>1 DEF OverallProvenance
  <2>4. PICK p \in Numeric(latest) : TRUE
    BY <2>3
  <2>5. p \in Pairs(latest) /\ Of(latest, p[1], p[2]).kind # "text"
    BY DEF Numeric
  <2>6. IsReport(latest)
    BY GateAssumption, EvidenceAssumption DEF TypeOK
  <2>7. Of(latest, p[1], p[2]) \in Metric
    BY <2>5, <2>6 DEF Pairs, SuitesOf, MetricsOf, IsReport, IsSuite, Of
  <2>8. Of(latest, p[1], p[2]).kind # "nan"
    BY <2>1, <2>5 DEF ReportIssues, IssueCode
  <2>9. HasNumber(latest, p) /\ p \in Suites \X Metrics
    BY <2>5, <2>7, <2>8 DEF HasNumber, Metric, Pairs
  <2>10. GatePasses(latest, latest)
    BY <2>2, <2>9, SoundPassesItself
  <2>11. ASSUME NEW q \in SharedNumbers(latest, latest)
         PROVE  /\ Of(latest, q[1], q[2]).provenance = "measured"
                /\ Of(latest, q[1], q[2]).source = "device"
    <3>1. q \in Numeric(latest)
      BY DEF SharedNumbers, HasNumber, Numeric
    <3>2. /\ ProvenanceOf(latest, q) = "measured"
          /\ Of(latest, q[1], q[2]).source = "device"
      BY <3>1, <2>1 DEF NonDevice
    <3> QED
      BY <3>2 DEF ProvenanceOf
  <2> QED
    BY <2>10, <2>11
<1> QED
  BY <1>1, TypeCorrect, PTL

-----------------------------------------------------------------------------

\* What the gate does not flag is within the allowance, on both sides of zero
\* and at zero (compare_reports).
LEMMA NotWorsenedIsWithin ==
  ASSUME NEW old \in Int, NEW new \in Int, NEW direction, ~Worsened(old, new, direction)
  PROVE  WithinAllowance(old, new, direction)
<1> USE EvidenceAssumption
<1>1. CASE old < 0
  <2>1. Allowance * Abs(old) = -(Allowance * old)
    BY <1>1 DEF Abs
  <2>2. (100 - Allowance) * old = 100 * old - Allowance * old
    OBVIOUS
  <2>3. (100 + Allowance) * old = 100 * old + Allowance * old
    OBVIOUS
  <2> QED BY <1>1, <2>1, <2>2, <2>3 DEF Worsened, WithinAllowance
<1>2. CASE old >= 0
  <2>1. Allowance * Abs(old) = Allowance * old
    BY <1>2 DEF Abs
  <2>2. (100 - Allowance) * old = 100 * old - Allowance * old
    OBVIOUS
  <2>3. (100 + Allowance) * old = 100 * old + Allowance * old
    OBVIOUS
  <2> QED BY <1>2, <2>1, <2>2, <2>3 DEF Worsened, WithinAllowance
<1> QED BY <1>1, <1>2

\* No gated run worsens a number beyond the allowance (compare_reports).
THEOREM PromotionWithinAllowanceAlways == Spec => PromotionWithinAllowance
<1> DEFINE Within(p) ==
      LET old == Of(baseline, p[1], p[2])
          new == Of(latest, p[1], p[2])
      IN "mock" \notin {old.provenance, new.provenance} =>
           /\ old.direction # "undeclared" =>
                WithinAllowance(old.value, new.value, old.direction)
           /\ old.direction = "undeclared" /\ new.direction = "undeclared" =>
                WithinAllowance(old.value, new.value, Hint[p[2]])
<1>1. ASSUME TypeOK, GatedPromotion, NEW p \in Suites \X Metrics, HasNumber(baseline, p)
      PROVE  Within(p)
  <2>1. GatePasses(baseline, latest)
    BY <1>1 DEF GatedPromotion
  <2>2. HasNumber(latest, p) /\ ~DefinitionChanged(baseline, latest, p)
    BY <1>1, <2>1, GateCovers DEF Covers
  <2>3. p \in SharedNumbers(baseline, latest)
    BY <1>1, <2>2 DEF SharedNumbers
  <2>4. SharedNumbers(baseline, latest) = Deltas(baseline, latest)
    BY <2>1, <2>3 DEF GatePasses, ComparisonIssues, Deltas
  <2>5. ~Regressed(baseline, latest, p)
    BY <2>1, <2>3, <2>4 DEF GatePasses
  <2>6. /\ Of(baseline, p[1], p[2]).value \in Int
        /\ Of(latest, p[1], p[2]).value \in Int
    BY <1>1, <2>2, NumbersAreIntegers DEF TypeOK, Sound
  <2>7. \A direction : ~Worsened(Of(baseline, p[1], p[2]).value,
                                 Of(latest, p[1], p[2]).value, direction)
                      => WithinAllowance(Of(baseline, p[1], p[2]).value,
                                         Of(latest, p[1], p[2]).value, direction)
    BY <2>6, NotWorsenedIsWithin
  <2> QED
    BY <2>2, <2>5, <2>7 DEF Regressed, GatedDirection, DefinitionChanged
<1>2. TypeOK /\ [Next]_vars => [GatedPromotion => \A p \in Suites \X Metrics :
                        HasNumber(baseline, p) => Within(p)]_vars
  BY <1>1
<1>3. Spec => [][GatedPromotion => \A p \in Suites \X Metrics :
                   HasNumber(baseline, p) => Within(p)]_vars
  BY <1>2, TypeCorrect, PTL DEF Spec
<1> QED
  BY <1>3 DEF PromotionWithinAllowance

=============================================================================
