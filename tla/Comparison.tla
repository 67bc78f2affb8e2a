------------------------------ MODULE Comparison ------------------------------
(***************************************************************************)
(* Two reports side by side: whether they can be compared, what became of  *)
(* each metric, and what to do.  The gate is that of Evidence; this module *)
(* puts the setup of the two runs next to it.                              *)
(*                                                                         *)
(* An artifact is a report with what is known of how it came about: the    *)
(* hashes of its inputs, the version of the platform, who wrote the        *)
(* firmware, and what the suites noticed (see Insights).                   *)
(***************************************************************************)
EXTENDS Evidence

CONSTANT Epsilon     \* epsilon_pct: a change below it is none

ASSUME ComparisonAssumption == Epsilon \in Nat

Inputs == {"model", "dataset", "firmware", "version"}
Origins == {"unknown", "human", "ai_assisted", "ai_generated"}

\* "none" is an input whose hash, or a version that, was not recorded.
IsArtifact(artifact) ==
  /\ HasFields(artifact, {"report", "setup", "origin", "symptoms"})
  /\ IsReport(artifact.report)
  /\ DOMAIN artifact.setup = Inputs
  /\ artifact.origin \in Origins

-----------------------------------------------------------------------------
(* Compatibility.                                                          *)

\* Faulty variant: a target that only one report names is another target.
OtherTargetOrNone(old, new) == old.target # new.target

\* Both reports name their target, and they name different ones.
OtherTarget(old, new) ==
  /\ "undeclared" \notin {old.target, new.target}
  /\ old.target # new.target

\* A number that one run measured and the other one made up.
OtherProvenance(old, new) ==
  \E p \in SharedNumbers(old, new) :
    /\ "unknown" \notin {ProvenanceOf(old, p), ProvenanceOf(new, p)}
    /\ ProvenanceOf(old, p) # ProvenanceOf(new, p)

\* Differences that forbid a conclusion.
BlockingDifferences(old, new) ==
  {field \in {"Report integrity", "Target", "Measurement provenance"} :
     \/ field = "Report integrity" /\ (old.malformed \/ new.malformed)
     \/ field = "Target" /\ OtherTarget(old, new)
     \/ field = "Measurement provenance" /\ OtherProvenance(old, new)}

\* Differences to confirm.
Caveats(old, new) ==
  {input \in Inputs :
     /\ "none" \notin {old.setup[input], new.setup[input]}
     /\ old.setup[input] # new.setup[input]}
  \cup (IF old.origin # new.origin THEN {"Firmware authorship"} ELSE {})
  \cup (IF SuitesOf(old.report) # SuitesOf(new.report) THEN {"Suite coverage"} ELSE {})

CompatibilityLevel(old, new) ==
  IF BlockingDifferences(old.report, new.report) # {} THEN "incomparable"
  ELSE IF Caveats(old, new) # {} THEN "caveated"
  ELSE "comparable"

-----------------------------------------------------------------------------
(* What became of each metric.                                             *)

Improved(base, current, p, threshold) ==
  LET old == Of(base, p[1], p[2]).value
      new == Of(current, p[1], p[2]).value
      direction == GatedDirection(base, current, p)
  IN \/ direction = "higher" /\ (new - old) * 100 > threshold * Abs(old)
     \/ direction = "lower" /\ (new - old) * 100 < -threshold * Abs(old)

Regressions(base, current) == {p \in Deltas(base, current) : Regressed(base, current, p)}

Improvements(base, current) ==
  {p \in Deltas(base, current) :
     ~Regressed(base, current, p) /\ Improved(base, current, p, Epsilon)}

\* Numbers that only the new report has, and that only the old one has.
Added(base, current) ==
  IF base.malformed \/ current.malformed THEN {}
  ELSE {p \in Pairs(current) : HasNumber(current, p) /\ ~HasNumber(base, p)}

Removed(base, current) == Added(current, base)

ComparisonPasses(old, new) ==
  /\ CompatibilityLevel(old, new) # "incomparable"
  /\ ~ComparisonIssues(old.report, new.report)
  /\ Regressions(old.report, new.report) = {}

\* The sentence at the end of a comparison.
Recommendation(old, new) ==
  IF CompatibilityLevel(old, new) = "incomparable" THEN "no conclusion"
  ELSE IF ComparisonIssues(old.report, new.report) THEN "hold: evidence"
  ELSE IF Regressions(old.report, new.report) # {} THEN "hold: regression"
  ELSE IF CompatibilityLevel(old, new) = "caveated" THEN "confirm the caveats"
  ELSE IF Improvements(old.report, new.report) # {} THEN "safe to promote"
  ELSE "equivalent"

=============================================================================
