-------------------------- MODULE ReleaseReviewProofs --------------------------
(***************************************************************************)
(* What ReleaseReview promises for every set of artifacts, any number of   *)
(* runs and every allowance, with proofs.                                  *)
(*                                                                         *)
(* Two of the invariants follow from the operators alone, once a recorded  *)
(* report is known to be shown with the end of its run: there the proof is *)
(* about the gate and the insight engine.  ClearedRunsPassed also needs    *)
(* that a run which ended with a failure is never called passed, and       *)
(* PassedRunsAreNotBlocked that a gated run was compared by its own report. *)
(***************************************************************************)
EXTENDS ReleaseReview, SequenceTheorems, TLAPS

-----------------------------------------------------------------------------
(* The gate and the comparison.                                            *)

LEMMA NoIssues ==
  ASSUME NEW report, ReportIssues(report) = {}
  PROVE  /\ SuitesOf(report) # {} /\ ~report.malformed /\ report.complete
         /\ \A s \in SuitesOf(report) : report.suites[s].passed
<1>1. SuitesOf(report) # {}
  BY DEF ReportIssues, IssueCode
<1>2. /\ "malformed" \notin ReportIssues(report) /\ "incomplete-run" \notin ReportIssues(report)
      /\ "suite-failed" \notin ReportIssues(report)
  OBVIOUS
<1> QED
  BY <1>1, <1>2 DEF ReportIssues, IssueCode

\* What blocks a comparison is an issue for the gate as well.
LEMMA BlockingIsAnIssue ==
  ASSUME NEW old, NEW new, BlockingDifferences(old, new) # {}
  PROVE  ComparisonIssues(old, new)
<1> SUFFICES ASSUME ~ComparisonIssues(old, new) PROVE FALSE
  OBVIOUS
<1>1. ReportIssues(old) = {} /\ ReportIssues(new) = {}
  BY DEF ComparisonIssues
<1>2. ~old.malformed /\ ~new.malformed
  BY <1>1, NoIssues
<1>3. ~OtherTarget(old, new)
  BY DEF ComparisonIssues, TargetChanged, OtherTarget
<1>4. ~OtherProvenance(old, new)
  <2> SUFFICES ASSUME NEW p \in SharedNumbers(old, new),
                      ProvenanceOf(old, p) # "unknown",
                      ProvenanceOf(old, p) # ProvenanceOf(new, p),
                      ProvenanceOf(new, p) # "unknown"
               PROVE  FALSE
    BY DEF OtherProvenance
  <2>1. /\ Of(old, p[1], p[2]).provenance # "undeclared"
        /\ Of(old, p[1], p[2]).provenance # Of(new, p[1], p[2]).provenance
    BY DEF ProvenanceOf
  <2>2. DefinitionChanged(old, new, p)
    BY <2>1 DEF DefinitionChanged
  <2> QED
    BY <2>2 DEF ComparisonIssues
<1> QED
  BY <1>2, <1>3, <1>4 DEF BlockingDifferences

\* A comparison passes exactly where the gate does.
LEMMA ComparisonIsTheGate ==
  ASSUME NEW old, NEW new
  PROVE  ComparisonPasses(old, new) <=> GatePasses(old.report, new.report)
<1>1. ~ComparisonIssues(old.report, new.report) => CompatibilityLevel(old, new) # "incomparable"
  BY BlockingIsAnIssue DEF CompatibilityLevel
<1>2. Regressions(old.report, new.report) = {} <=>
        \A p \in Deltas(old.report, new.report) : ~Regressed(old.report, new.report, p)
  BY DEF Regressions
<1> QED
  BY <1>1, <1>2 DEF ComparisonPasses, GatePasses

\* A number that is gone keeps a comparison from passing.
LEMMA RemovedBlocks ==
  ASSUME NEW old, NEW new, Removed(old, new) # {}
  PROVE  ComparisonIssues(old, new)
<1>1. PICK p \in Pairs(old) : HasNumber(old, p) /\ ~HasNumber(new, p)
  BY DEF Removed, Added
<1>2. p[1] \in SuitesOf(old)
  BY <1>1 DEF Pairs
<1>3. CASE p[1] \in SuitesOf(new)
  BY <1>1, <1>3 DEF ComparisonIssues, LostNumbers
<1>4. CASE p[1] \notin SuitesOf(new)
  BY <1>2, <1>4 DEF ComparisonIssues, LostSuites
<1> QED
  BY <1>3, <1>4

Recommended(old, new) == Recommendation(old, new) \in {"safe to promote", "equivalent"}

LEMMA RecommendedIsSound ==
  ASSUME NEW old, NEW new, Recommended(old, new)
  PROVE  ReportIssues(new.report) = {}
<1>1. ~ComparisonIssues(old.report, new.report)
  BY DEF Recommended, Recommendation
<1> QED
  BY <1>1 DEF ComparisonIssues

-----------------------------------------------------------------------------
(* The insight engine.                                                     *)

Diagnosed(insights, s) ==
  \/ \E i \in insights : i.id = <<"evidence-invalid">>
  \/ \E i \in insights : i.suite = s /\ i.severity \in Blocking

\* Every failed suite has a blocking insight of its own, unless the evidence is
\* refused as a whole.
LEMMA EveryFailureHasAReason ==
  ASSUME NEW artifact, NEW manifest, NEW base, NEW s \in FailedSuites(artifact.report)
  PROVE  Diagnosed(GenerateInsights(artifact, manifest, base), s)
<1> DEFINE report == artifact.report
           insights == GenerateInsights(artifact, manifest, base)
           found == ExecutionInsights(manifest) \cup ReportEmpty(report)
                    \cup Told(DeadlineRules, artifact) \cup Told(AccuracyRules, artifact)
                    \cup BudgetInsights(artifact)
                    \cup (IF base # NoArtifact THEN RegressionInsights(base.report, report) ELSE {})
                    \cup SuiteFailures(report)
<1> SUFFICES \/ \E i \in insights : i.id = <<"evidence-invalid">>
             \/ \E i \in insights : i.suite = s /\ i.severity \in Blocking
  BY Zenon DEF Diagnosed
<1>1. FailureInsight(s).suite = s /\ FailureInsight(s).severity \in Blocking
  BY DEF FailureInsight, Insight, Blocking
<1>2. CASE Invalid(report)
  <2>1. Insight(<<"evidence-invalid">>, "critical", "execution", "none") \in insights
    BY <1>2 DEF GenerateInsights
  <2>2. \E i \in insights : i.id = <<"evidence-invalid">>
    BY <2>1 DEF Insight
  <2> QED
    BY <2>2
<1>3. CASE ~Invalid(report)
  <2>1. found \subseteq insights /\ UnexplainedFailures(report, found) \subseteq insights
    BY <1>3 DEF GenerateInsights
  <2>2. SuiteFailures(report) \subseteq found
    OBVIOUS
  <2> HIDE DEF found, insights
  <2>3. CASE s \notin HaveRules
    <3>1. FailureInsight(s) \in SuiteFailures(report)
      BY <2>3 DEF SuiteFailures
    <3> QED
      BY <1>1, <2>1, <2>2, <3>1 DEF insights
  <2>4. CASE s \in HaveRules /\ \E i \in found : i.suite = s /\ i.severity \in Blocking
    BY <2>1, <2>4 DEF insights
  <2>5. CASE s \in HaveRules /\ ~\E i \in found : i.suite = s /\ i.severity \in Blocking
    <3>1. FailureInsight(s) \in UnexplainedFailures(report, found)
      BY <2>5 DEF UnexplainedFailures
    <3> QED
      BY <1>1, <2>1, <3>1 DEF insights
  <2> QED
    BY <2>3, <2>4, <2>5
<1> QED
  BY <1>2, <1>3

-----------------------------------------------------------------------------
(* The runs.                                                               *)

Failure == {"validate", "compare", "save_baseline"}
             \X {"suites failed", "error", "blocked", "regressions", "refusing"}
Manifest ==
  [status : Statuses, failed : SUBSET Failure, gated : BOOLEAN, promotes : BOOLEAN]
Entry == [manifest : Manifest \cup {NoManifest}, artifact : Artifacts \cup {NoArtifact}]

\* Only the newest run may be going on, and a run that passed had no failure.
RunsInv ==
  /\ entries \in Seq(Entry)
  /\ stage # "idle" => /\ Newest \in DOMAIN entries
                       /\ Active \in Manifest /\ Active.status = "running"
  /\ \A e \in DOMAIN entries :
       entries[e].manifest \in Manifest /\ entries[e].manifest.status = "passed" =>
         entries[e].manifest.failed = {}

LEMMA EntriesDomain ==
  ASSUME RunsInv
  PROVE  /\ Newest \in Nat /\ DOMAIN entries = 1..Newest
         /\ \A e \in DOMAIN entries : entries[e] \in Entry
  BY ElementOfSeq, LenProperties DEF RunsInv, Newest

LEMMA NoneIsNoManifest == NoManifest \notin Manifest
<1>1. DOMAIN NoManifest = {"status"}
  BY DEF NoManifest
<1>2. \A m \in Manifest : "failed" \in DOMAIN m
  BY DEF Manifest
<1> QED
  BY <1>1, <1>2

\* An entry is added.
LEMMA AddEntry ==
  ASSUME RunsInv, NEW entry \in Entry, entries' = Append(entries, entry), stage = "idle",
         \/ stage' = "idle"
         \/ entry.manifest \in Manifest /\ entry.manifest.status = "running",
         entry.manifest \in Manifest => entry.manifest.status = "running"
  PROVE  RunsInv'
<1>1. Newest \in Nat /\ DOMAIN entries = 1..Newest /\ entries \in Seq(Entry)
  BY EntriesDomain DEF RunsInv
<1>2. /\ entries' \in Seq(Entry) /\ Len(entries') = Newest + 1
      /\ \A e \in 1..Newest : entries'[e] = entries[e]
      /\ entries'[Newest + 1] = entry
  BY <1>1 DEF Newest
<1>3. DOMAIN entries' = 1..(Newest + 1) /\ Newest' = Newest + 1
  BY <1>2, LenProperties DEF Newest
<1>4. \A e \in DOMAIN entries' : e \in DOMAIN entries \/ e = Newest + 1
  BY <1>1, <1>3
<1>5. ASSUME NEW e \in DOMAIN entries', entries'[e].manifest \in Manifest,
             entries'[e].manifest.status = "passed"
      PROVE  entries'[e].manifest.failed = {}
  BY <1>1, <1>2, <1>4, <1>5 DEF RunsInv
<1>6. stage' # "idle" => /\ Newest' \in DOMAIN entries'
                         /\ Active' \in Manifest /\ Active'.status = "running"
  BY <1>1, <1>2, <1>3 DEF Active
<1> QED
  BY <1>2, <1>5, <1>6 DEF RunsInv

\* The entry of the active run is changed.
LEMMA ChangeEntry ==
  ASSUME RunsInv, stage # "idle", NEW entry \in Entry,
         entries' = [entries EXCEPT ![Newest] = entry], entry.manifest \in Manifest,
         entry.manifest.status = "passed" => entry.manifest.failed = {},
         stage' = "idle" \/ entry.manifest.status = "running"
  PROVE  RunsInv'
<1>1. /\ Newest \in Nat /\ DOMAIN entries = 1..Newest /\ entries \in Seq(Entry)
      /\ Newest \in DOMAIN entries
  BY EntriesDomain DEF RunsInv
<1>2. /\ entries' \in Seq(Entry) /\ Len(entries') = Newest
      /\ \A e \in 1..Newest : entries'[e] = IF e = Newest THEN entry ELSE entries[e]
  BY <1>1, ExceptSeq DEF Newest
<1>3. DOMAIN entries' = 1..Newest /\ Newest' = Newest
  BY <1>2, LenProperties DEF Newest
<1>4. ASSUME NEW e \in DOMAIN entries', entries'[e].manifest \in Manifest,
             entries'[e].manifest.status = "passed"
      PROVE  entries'[e].manifest.failed = {}
  BY <1>1, <1>2, <1>3, <1>4 DEF RunsInv
<1>5. stage' # "idle" => /\ Newest' \in DOMAIN entries'
                         /\ Active' \in Manifest /\ Active'.status = "running"
  BY <1>1, <1>2, <1>3 DEF Active
<1> QED
  BY <1>2, <1>4, <1>5 DEF RunsInv

LEMMA KeepEntries ==
  ASSUME RunsInv, UNCHANGED <<entries, stage>> PROVE RunsInv'
  BY DEF RunsInv, Newest, Active

LEMMA ActiveEntry ==
  ASSUME RunsInv, stage # "idle"
  PROVE  /\ entries[Newest] \in Entry /\ Active = entries[Newest].manifest
         /\ Active \in Manifest /\ Active.status = "running"
  BY EntriesDomain DEF RunsInv, Active

LEMMA ProceedKeeps ==
  ASSUME RunsInv, stage # "idle", NEW next, NEW failures \in SUBSET Failure,
         Proceed(next, failures)
  PROVE  RunsInv'
<1> DEFINE manifest == [Active EXCEPT !.failed = @ \cup failures]
           entry == [entries[Newest] EXCEPT !.manifest = manifest]
<1>1. Active \in Manifest /\ Active.status = "running" /\ entries[Newest] \in Entry
      /\ Active = entries[Newest].manifest
  BY ActiveEntry
<1>2. manifest \in Manifest /\ manifest.status = "running"
  BY <1>1 DEF Manifest
<1>3. entry \in Entry /\ entry.manifest = manifest
  BY <1>1, <1>2 DEF Entry
<1>4. entries' = [entries EXCEPT ![Newest] = entry]
  BY <1>1 DEF Proceed
<1> HIDE DEF entry
<1> QED
  BY <1>2, <1>3, <1>4, ChangeEntry

LEMMA CloseKeeps ==
  ASSUME RunsInv, stage # "idle", NEW status \in Statuses, Close(status),
         status = "passed" => Active.failed = {}
  PROVE  RunsInv'
<1> DEFINE manifest == [Active EXCEPT !.status = status]
           entry == [entries[Newest] EXCEPT !.manifest = manifest]
<1>1. Active \in Manifest /\ entries[Newest] \in Entry /\ Active = entries[Newest].manifest
  BY ActiveEntry
<1>2. /\ manifest \in Manifest /\ manifest.status = status
      /\ manifest.status = "passed" => manifest.failed = {}
  BY <1>1 DEF Manifest
<1>3. entry \in Entry /\ entry.manifest = manifest
  BY <1>1, <1>2 DEF Entry
<1>4. entries' = [entries EXCEPT ![Newest] = entry] /\ stage' = "idle"
  BY <1>1 DEF Close
<1> HIDE DEF entry, manifest
<1> QED
  BY <1>2, <1>3, <1>4, ChangeEntry

LEMMA ValidateKeeps ==
  ASSUME RunsInv, NEW artifact \in Artifacts, Validate(artifact) PROVE RunsInv'
<1> DEFINE failures == IF FailedSuites(artifact.report) # {}
                       THEN {<<"validate", "suites failed">>} ELSE {}
           manifest == [Active EXCEPT !.failed = @ \cup failures]
           entry == [entries[Newest] EXCEPT !.artifact = artifact, !.manifest = manifest]
<1>0. stage # "idle"
  BY DEF Validate
<1>1. Active \in Manifest /\ Active.status = "running" /\ entries[Newest] \in Entry
      /\ Active = entries[Newest].manifest
  BY <1>0, ActiveEntry
<1>2. failures \in SUBSET Failure
  <2>1. <<"validate", "suites failed">> \in Failure
    BY DEF Failure
  <2> QED
    BY <2>1
<1>3. manifest \in Manifest /\ manifest.status = "running"
  BY <1>1, <1>2 DEF Manifest
<1>4. entry \in Entry /\ entry.manifest = manifest
  BY <1>1, <1>3 DEF Entry
<1>5. entries' = [entries EXCEPT ![Newest] = entry]
  <2>1. entries' = [entries EXCEPT ![Newest].artifact = artifact,
                                   ![Newest].manifest.failed = @ \cup failures]
    BY <1>1 DEF Validate
  <2> QED
    BY <1>1, <2>1
<1> HIDE DEF entry, manifest
<1> QED
  BY <1>0, <1>3, <1>4, <1>5, ChangeEntry

LEMMA FailureValues ==
  /\ {} \in SUBSET Failure
  /\ {<<"validate", "error">>} \in SUBSET Failure
  /\ \A code \in {"error", "blocked", "regressions"} : {<<"compare", code>>} \in SUBSET Failure
  /\ \A code \in {"error", "refusing"} : {<<"save_baseline", code>>} \in SUBSET Failure
<1>1. <<"validate", "error">> \in Failure
  BY DEF Failure
<1>2. \A code \in {"error", "blocked", "regressions"} : <<"compare", code>> \in Failure
  BY DEF Failure
<1>3. \A code \in {"error", "refusing"} : <<"save_baseline", code>> \in Failure
  BY DEF Failure
<1> QED
  BY <1>1, <1>2, <1>3

LEMMA RunsNext == RunsInv /\ [Next]_vars => RunsInv'
<1> SUFFICES ASSUME RunsInv, [Next]_vars PROVE RunsInv'
  OBVIOUS
<1>1. ASSUME NEW gated \in BOOLEAN, NEW promotes \in BOOLEAN, StartRun(gated, promotes)
      PROVE  RunsInv'
  <2> DEFINE manifest == [status |-> "running", failed |-> {}, gated |-> gated,
                          promotes |-> promotes]
             entry == [manifest |-> manifest, artifact |-> NoArtifact]
  <2>1. manifest \in Manifest /\ manifest.status = "running"
    BY DEF Manifest, Statuses
  <2>2. entry \in Entry /\ entry.manifest = manifest
    BY <2>1 DEF Entry
  <2>3. stage = "idle" /\ entries' = Append(entries, entry)
    BY <1>1 DEF StartRun
  <2> HIDE DEF entry, manifest
  <2> QED
    BY <2>1, <2>2, <2>3, AddEntry
<1>2. ASSUME NEW artifact \in Artifacts, BareRun(artifact) PROVE RunsInv'
  <2> DEFINE entry == [manifest |-> NoManifest, artifact |-> artifact]
  <2>1. entry \in Entry /\ entry.manifest \notin Manifest
    BY NoneIsNoManifest DEF Entry
  <2>2. stage = "idle" /\ stage' = "idle" /\ entries' = Append(entries, entry)
    BY <1>2 DEF BareRun
  <2> HIDE DEF entry
  <2> QED
    BY <2>1, <2>2, AddEntry
<1>3. ASSUME NEW artifact \in Artifacts, Validate(artifact) PROVE RunsInv'
  BY <1>3, ValidateKeeps
<1>4. CASE ValidateRaises
  BY <1>4, FailureValues, ProceedKeeps DEF ValidateRaises
<1>5. CASE CompareStage
  <2>1. CompareFailures \in SUBSET Failure
    BY FailureValues DEF CompareFailures
  <2> QED
    BY <1>5, <2>1, ProceedKeeps DEF CompareStage
<1>6. CASE SaveStage
  <2>1. stage # "idle"
    BY <1>6 DEF SaveStage
  <2>2. \/ Proceed("finish", {}) \/ Proceed("finish", {<<"save_baseline", "refusing">>})
        \/ Proceed("finish", {<<"save_baseline", "error">>})
    BY <1>6 DEF SaveStage
  <2> QED
    BY <2>1, <2>2, FailureValues, ProceedKeeps
<1>7. CASE Finish
  <2>1. stage # "idle" /\ Close(IF Active.failed = {} THEN "passed" ELSE "failed")
    BY <1>7 DEF Finish
  <2>2. CASE Active.failed = {}
    BY <2>1, <2>2, CloseKeeps DEF Statuses
  <2>3. CASE Active.failed # {}
    BY <2>1, <2>3, CloseKeeps DEF Statuses
  <2> QED
    BY <2>2, <2>3
<1>8. ASSUME NEW status \in {"cancelled", "interrupted"}, CutShort(status) PROVE RunsInv'
  BY <1>8, CloseKeeps DEF CutShort, Statuses
<1>9. ASSUME NEW e \in 1..MaxEntries, PromoteByHand(e) \/ PromoteFromPage(e) PROVE RunsInv'
  BY <1>9, KeepEntries DEF PromoteByHand, PromoteFromPage
<1>10. CASE UNCHANGED vars
  BY <1>10, KeepEntries DEF vars
<1> QED
  BY <1>1, <1>2, <1>3, <1>4, <1>5, <1>6, <1>7, <1>8, <1>9, <1>10 DEF Next

\* Only the newest run may be going on, and a run that passed had no failure.
THEOREM RunsAlways == Spec => []RunsInv
<1>1. Init => RunsInv
  BY EmptySeq DEF Init, RunsInv
<1> QED
  BY <1>1, RunsNext, PTL DEF Spec

-----------------------------------------------------------------------------
(* What is shown of them.                                                  *)

LEMMA EntryParts ==
  ASSUME RunsInv, NEW e, HasReport(e)
  PROVE  /\ e \in DOMAIN entries /\ entries[e].artifact \in Artifacts
         /\ Recorded(e) => entries[e].manifest \in Manifest
<1>1. e \in DOMAIN entries /\ entries[e] \in Entry
  BY EntriesDomain DEF HasReport
<1> QED
  BY <1>1 DEF Entry, HasReport, Recorded

\* Of a report only its completeness is shown otherwise than it was written.
LEMMA ShownParts ==
  ASSUME RunsInv, NEW e, HasReport(e)
  PROVE  /\ Shown(e).report.suites = entries[e].artifact.report.suites
         /\ Recorded(e) => Shown(e).report.complete = (entries[e].manifest.status = "passed")
<1>1. IsArtifact(entries[e].artifact)
  BY EntryParts, ReviewAssumption
<1>2. /\ "report" \in DOMAIN entries[e].artifact
      /\ "complete" \in DOMAIN entries[e].artifact.report
      /\ "suites" \in DOMAIN entries[e].artifact.report
  BY <1>1 DEF IsArtifact, IsReport, HasFields
<1> QED
  BY <1>2 DEF Shown

-----------------------------------------------------------------------------
(* What each step does to the entries.                                     *)

\* Every entry but the newest stays what it is.
OthersKept ==
  /\ Newest' = Newest /\ DOMAIN entries' = DOMAIN entries
  /\ \A e \in DOMAIN entries \ {Newest} : entries'[e] = entries[e]

LEMMA EntryAdded ==
  ASSUME RunsInv, NEW entry \in Entry, entries' = Append(entries, entry)
  PROVE  /\ Newest' = Newest + 1 /\ DOMAIN entries' = 1..(Newest + 1)
         /\ entries'[Newest + 1] = entry
         /\ \A e \in DOMAIN entries : entries'[e] = entries[e]
<1>1. Newest \in Nat /\ DOMAIN entries = 1..Newest /\ entries \in Seq(Entry)
  BY EntriesDomain DEF RunsInv
<1>2. /\ entries' \in Seq(Entry) /\ Len(entries') = Newest + 1
      /\ \A e \in 1..Newest : entries'[e] = entries[e]
      /\ entries'[Newest + 1] = entry
  BY <1>1 DEF Newest
<1>3. DOMAIN entries' = 1..(Newest + 1)
  BY <1>2, LenProperties
<1> QED
  BY <1>1, <1>2, <1>3 DEF Newest

\* The entry StartRun adds.
NewRun(gated, promotes) ==
  [manifest |-> [status |-> "running", failed |-> {}, gated |-> gated, promotes |-> promotes],
   artifact |-> NoArtifact]

LEMMA NewRunIsEntry ==
  ASSUME NEW gated \in BOOLEAN, NEW promotes \in BOOLEAN
  PROVE  NewRun(gated, promotes) \in Entry
<1> DEFINE manifest == [status |-> "running", failed |-> {}, gated |-> gated,
                        promotes |-> promotes]
<1>1. manifest \in Manifest
  BY DEF Manifest, Statuses
<1> QED
  BY <1>1 DEF Entry, NewRun

LEMMA EntryChanged ==
  ASSUME RunsInv, stage # "idle", NEW entry, entries' = [entries EXCEPT ![Newest] = entry]
  PROVE  OthersKept /\ entries'[Newest] = entry
<1>1. /\ Newest \in Nat /\ DOMAIN entries = 1..Newest /\ entries \in Seq(Entry)
      /\ Newest \in DOMAIN entries
  BY EntriesDomain DEF RunsInv
<1>2. DOMAIN entries' = DOMAIN entries /\ Len(entries') = Newest
  BY <1>1 DEF Newest
<1> QED
  BY <1>1, <1>2 DEF OthersKept, Newest

LEMMA ProceedParts ==
  ASSUME RunsInv, stage # "idle", NEW next, NEW failures, Proceed(next, failures)
  PROVE  /\ OthersKept
         /\ entries'[Newest].artifact = entries[Newest].artifact
         /\ entries'[Newest].manifest.status = "running"
         /\ entries'[Newest].manifest.gated = Active.gated
         /\ entries'[Newest].manifest.failed = Active.failed \cup failures
<1> DEFINE manifest == [Active EXCEPT !.failed = @ \cup failures]
           entry == [entries[Newest] EXCEPT !.manifest = manifest]
<1>1. Active \in Manifest /\ Active.status = "running" /\ entries[Newest] \in Entry
      /\ Active = entries[Newest].manifest
  BY ActiveEntry
<1>2. /\ manifest.status = "running" /\ manifest.gated = Active.gated
      /\ manifest.failed = Active.failed \cup failures
  BY <1>1 DEF Manifest
<1>3. entry.artifact = entries[Newest].artifact /\ entry.manifest = manifest
  BY <1>1 DEF Entry
<1>4. entries' = [entries EXCEPT ![Newest] = entry]
  BY <1>1 DEF Proceed
<1> HIDE DEF entry, manifest
<1> QED
  BY <1>2, <1>3, <1>4, EntryChanged

LEMMA CloseParts ==
  ASSUME RunsInv, stage # "idle", NEW status, Close(status)
  PROVE  /\ OthersKept
         /\ entries'[Newest].artifact = entries[Newest].artifact
         /\ entries'[Newest].manifest.status = status
         /\ entries'[Newest].manifest.gated = Active.gated
         /\ entries'[Newest].manifest.failed = Active.failed
<1> DEFINE manifest == [Active EXCEPT !.status = status]
           entry == [entries[Newest] EXCEPT !.manifest = manifest]
<1>1. Active \in Manifest /\ entries[Newest] \in Entry /\ Active = entries[Newest].manifest
  BY ActiveEntry
<1>2. manifest.status = status /\ manifest.gated = Active.gated /\ manifest.failed = Active.failed
  BY <1>1 DEF Manifest
<1>3. entry.artifact = entries[Newest].artifact /\ entry.manifest = manifest
  BY <1>1 DEF Entry
<1>4. entries' = [entries EXCEPT ![Newest] = entry]
  BY <1>1 DEF Close
<1> HIDE DEF entry, manifest
<1> QED
  BY <1>2, <1>3, <1>4, EntryChanged

LEMMA ValidateParts ==
  ASSUME RunsInv, NEW artifact, Validate(artifact)
  PROVE  /\ stage # "idle" /\ OthersKept
         /\ entries'[Newest].artifact = artifact
         /\ entries'[Newest].manifest.status = "running"
<1> DEFINE failed == IF FailedSuites(artifact.report) # {}
                       THEN Active.failed \cup {<<"validate", "suites failed">>}
                       ELSE Active.failed
           manifest == [Active EXCEPT !.failed = failed]
           entry == [entries[Newest] EXCEPT !.artifact = artifact, !.manifest = manifest]
<1>0. stage # "idle"
  BY DEF Validate
<1>1. Active \in Manifest /\ Active.status = "running" /\ entries[Newest] \in Entry
      /\ Active = entries[Newest].manifest
  BY <1>0, ActiveEntry
<1>2. manifest.status = "running"
  BY <1>1 DEF Manifest
<1>3. entry.artifact = artifact /\ entry.manifest = manifest
  BY <1>1 DEF Entry
<1>4. entries' = [entries EXCEPT ![Newest] = entry]
  <2>1. entries' = [entries EXCEPT ![Newest].artifact = artifact,
                                   ![Newest].manifest.failed = failed]
    BY <1>1 DEF Validate
  <2> QED
    BY <1>1, <2>1
<1> HIDE DEF entry, manifest
<1> QED
  BY <1>0, <1>2, <1>3, <1>4, EntryChanged

-----------------------------------------------------------------------------
(* Types.                                                                  *)

Stages == {"idle", "validate", "compare", "save_baseline", "finish"}

Promotable ==
  {a \in Artifacts \cup {AsPassed(b) : b \in Artifacts} : ReportIssues(a.report) = {}}

\* While no run is active nothing is running, and only sound evidence is stored.
TypeInv ==
  /\ stage \in Stages
  /\ \A e \in DOMAIN entries :
       entries[e].manifest.status = "running" => e = Newest /\ stage # "idle"
  /\ latest \in Artifacts \cup {NoArtifact}
  /\ stored \in Promotable \cup {NoArtifact}

\* Steps of the active run.
LEMMA RunningStays ==
  ASSUME RunsInv, TypeInv, OthersKept, stage # "idle",
         stage' # "idle" \/ entries'[Newest].manifest.status # "running"
  PROVE  \A e \in DOMAIN entries' :
           entries'[e].manifest.status = "running" => e = Newest' /\ stage' # "idle"
  BY DEF TypeInv, OthersKept

LEMMA RunningAdded ==
  ASSUME RunsInv, TypeInv, stage = "idle", NEW entry \in Entry, entries' = Append(entries, entry),
         entry.manifest.status = "running" => stage' # "idle"
  PROVE  \A e \in DOMAIN entries' :
           entries'[e].manifest.status = "running" => e = Newest' /\ stage' # "idle"
<1>1. Newest \in Nat /\ DOMAIN entries = 1..Newest
  BY EntriesDomain
<1> QED
  BY <1>1, EntryAdded DEF TypeInv

\* What may be promoted is an artifact, and sound.
LEMMA PromotionIsSound ==
  ASSUME RunsInv, NEW e,
         PromoteByHand(e) \/ PromoteFromPage(e)
  PROVE  stored' \in Promotable
<1>1. HasReport(e)
  BY DEF PromoteByHand, PromoteFromPage, HasReport
<1>2. entries[e].artifact \in Artifacts
  BY <1>1, EntryParts
<1> QED
  BY <1>2 DEF PromoteByHand, PromoteFromPage, Promotable

LEMMA TypeInvNext == RunsInv /\ TypeInv /\ [Next]_vars => TypeInv'
<1> SUFFICES ASSUME RunsInv, TypeInv, [Next]_vars PROVE TypeInv'
  OBVIOUS
<1> DEFINE Running == \A e \in DOMAIN entries :
             entries[e].manifest.status = "running" => e = Newest /\ stage # "idle"
<1>1. ASSUME NEW gated \in BOOLEAN, NEW promotes \in BOOLEAN, StartRun(gated, promotes)
      PROVE  TypeInv'
  <2> DEFINE entry == NewRun(gated, promotes)
  <2>1. entry \in Entry /\ stage = "idle" /\ stage' # "idle" /\ entries' = Append(entries, entry)
    BY <1>1, NewRunIsEntry DEF StartRun, NewRun
  <2> HIDE DEF entry
  <2>2. Running'
    BY <2>1, RunningAdded
  <2> QED
    BY <1>1, <2>2 DEF StartRun, TypeInv, Stages
<1>2. ASSUME NEW artifact \in Artifacts, BareRun(artifact) PROVE TypeInv'
  <2> DEFINE entry == [manifest |-> NoManifest, artifact |-> artifact]
  <2>1. /\ entry \in Entry /\ stage = "idle" /\ entries' = Append(entries, entry)
        /\ entry.manifest.status # "running"
    BY <1>2 DEF BareRun, Entry, NoManifest
  <2> HIDE DEF entry
  <2>2. Running'
    BY <2>1, RunningAdded
  <2> QED
    BY <1>2, <2>2 DEF BareRun, TypeInv
<1>3. ASSUME NEW artifact \in Artifacts, Validate(artifact) PROVE TypeInv'
  <2>1. Running'
    BY <1>3, ValidateParts, RunningStays DEF Validate
  <2> QED
    BY <1>3, <2>1 DEF Validate, TypeInv, Stages
<1>4. CASE ValidateRaises
  <2>1. Running'
    BY <1>4, ProceedParts, RunningStays DEF ValidateRaises, Proceed
  <2> QED
    BY <1>4, <2>1 DEF ValidateRaises, Proceed, TypeInv, Stages
<1>5. CASE CompareStage
  <2>1. Running'
    BY <1>5, ProceedParts, RunningStays DEF CompareStage, Proceed
  <2> QED
    BY <1>5, <2>1 DEF CompareStage, Proceed, TypeInv, Stages
<1>6. CASE SaveStage
  <2>1. stage # "idle" /\ stage' = "finish" /\ \E failures : Proceed("finish", failures)
    BY <1>6 DEF SaveStage, Proceed
  <2>2. Running'
    BY <2>1, ProceedParts, RunningStays
  <2>3. stored' \in Promotable \cup {NoArtifact}
    BY <1>6 DEF SaveStage, TypeInv, Promotable
  <2>4. latest' = latest
    BY <1>6 DEF SaveStage
  <2> QED
    BY <2>1, <2>2, <2>3, <2>4 DEF TypeInv, Stages
<1>7. ASSUME NEW status \in Statuses \ {"running"}, stage # "idle", Close(status)
      PROVE  TypeInv'
  <2>1. Running'
    BY <1>7, CloseParts, RunningStays DEF Close
  <2> QED
    BY <1>7, <2>1 DEF Close, TypeInv, Stages
<1>8. CASE Finish
  BY <1>7, <1>8 DEF Finish, Statuses
<1>9. ASSUME NEW status \in {"cancelled", "interrupted"}, CutShort(status) PROVE TypeInv'
  BY <1>7, <1>9 DEF CutShort, Statuses
<1>10. ASSUME NEW e \in 1..MaxEntries, PromoteByHand(e) \/ PromoteFromPage(e) PROVE TypeInv'
  <2>1. UNCHANGED <<entries, stage, latest>>
    BY <1>10 DEF PromoteByHand, PromoteFromPage
  <2>2. Newest' = Newest
    BY <2>1 DEF Newest
  <2> QED
    BY <1>10, <2>1, <2>2, PromotionIsSound DEF TypeInv
<1>11. CASE UNCHANGED vars
  BY <1>11 DEF vars, TypeInv, Newest
<1> QED
  BY <1>1, <1>2, <1>3, <1>4, <1>5, <1>6, <1>8, <1>9, <1>10, <1>11 DEF Next

LEMMA TypeInvAlways == Spec => [](RunsInv /\ TypeInv)
<1>1. Init => RunsInv /\ TypeInv
  BY EmptySeq DEF Init, RunsInv, TypeInv, Stages
<1> QED
  BY <1>1, RunsNext, TypeInvNext, PTL DEF Spec

\* Types; only the newest run may be going on, and the baseline is a report
\* some run produced, without anything that keeps it from being one.
THEOREM TypeOKAlways == Spec => []TypeOK
<1>1. RunsInv /\ TypeInv => TypeOK
  <2> SUFFICES ASSUME RunsInv, TypeInv PROVE TypeOK
    OBVIOUS
  <2>1. Newest \in Nat /\ DOMAIN entries = 1..Newest
        /\ \A e \in DOMAIN entries : entries[e] \in Entry
    BY EntriesDomain
  <2>2. ASSUME NEW e \in 1..Newest
        PROVE  /\ entries[e].artifact \in Artifacts \cup {NoArtifact}
               /\ Recorded(e) => /\ entries[e].manifest.status \in Statuses
                                 /\ entries[e].manifest.status = "running" => e = Newest
    BY <2>1, <2>2 DEF TypeInv, Recorded, Entry, Manifest
  <2>3. stage # "idle" => Newest > 0 /\ Active.status = "running"
    BY <2>1 DEF RunsInv
  <2>4. /\ stage \in {"idle", "validate", "compare", "save_baseline", "finish"}
        /\ latest \in Artifacts \cup {NoArtifact}
        /\ stored \in Promotable \cup {NoArtifact}
    BY DEF TypeInv, Stages
  <2> QED
    BY <2>2, <2>3, <2>4 DEF TypeOK, Promotable
<1> QED
  BY <1>1, TypeInvAlways, PTL

-----------------------------------------------------------------------------
(* The verdicts and the findings.                                          *)

\* A verdict that lets firmware out belongs to a run that ended with every
\* stage and every suite passed (ReportSource.report, _judge).
THEOREM ClearedRunsPassedAlways == Spec => []ClearedRunsPassed
<1>1. RunsInv => ClearedRunsPassed
  <2> SUFFICES ASSUME RunsInv, NEW e \in 1..Newest, HasReport(e), Recorded(e),
                      ResultsVerdict(e) \in Cleared
               PROVE  /\ entries[e].manifest.status = "passed" /\ entries[e].manifest.failed = {}
                      /\ FailedSuites(entries[e].artifact.report) = {}
    BY DEF ClearedRunsPassed
  <2>1. ReportIssues(Shown(e).report) = {}
    BY DEF ResultsVerdict, Verdict, Cleared
  <2>2. /\ Shown(e).report.complete
        /\ \A s \in SuitesOf(Shown(e).report) : Shown(e).report.suites[s].passed
    BY <2>1, NoIssues
  <2>3. entries[e].manifest.status = "passed"
    BY <2>2, ShownParts
  <2>4. entries[e].manifest.failed = {}
    BY <2>3, EntryParts DEF RunsInv
  <2>5. FailedSuites(entries[e].artifact.report) = {}
    BY <2>2, ShownParts DEF FailedSuites, SuitesOf
  <2> QED
    BY <2>3, <2>4, <2>5
<1> QED
  BY <1>1, RunsAlways, PTL

\* Every suite that failed is accounted for by a blocking finding about it, or
\* the evidence is refused as a whole (_unexplained_failure_insights).
THEOREM FailuresAreDiagnosedAlways == Spec => []FailuresAreDiagnosed
<1>1. RunsInv => FailuresAreDiagnosed
  <2> SUFFICES ASSUME RunsInv, NEW e \in 1..Newest, HasReport(e),
                      NEW insights \in {ResultsInsights(e), ShowInsights(e)},
                      ~\E i \in insights : i.id = <<"evidence-invalid">>,
                      NEW s \in FailedSuites(entries[e].artifact.report)
               PROVE  \E i \in insights : i.suite = s /\ i.severity \in Blocking
    BY DEF FailuresAreDiagnosed
  <2>1. s \in FailedSuites(Shown(e).report)
    BY ShownParts DEF FailedSuites, SuitesOf
  <2>2. ASSUME NEW artifact, NEW manifest, NEW base, s \in FailedSuites(artifact.report),
               insights = GenerateInsights(artifact, manifest, base)
        PROVE  \E i \in insights : i.suite = s /\ i.severity \in Blocking
    <3>1. Diagnosed(GenerateInsights(artifact, manifest, base), s)
      BY <2>2, EveryFailureHasAReason, Zenon
    <3> QED
      BY <2>2, <3>1, Zenon DEF Diagnosed
  <2>3. CASE insights = ResultsInsights(e)
    BY <2>1, <2>2, <2>3, Zenon DEF ResultsInsights
  <2>4. CASE insights = ShowInsights(e)
    BY <2>2, <2>4, Zenon DEF ShowInsights
  <2> QED
    BY <2>3, <2>4
<1> QED
  BY <1>1, RunsAlways, PTL

\* A comparison passes exactly where the gate does, a number that is gone
\* passes neither, and what is recommended comes from a run that passed
\* (check_compatibility, compare_reports, recommendation).
THEOREM ComparisonAgreesWithGateAlways == Spec => []ComparisonAgreesWithGate
<1>1. RunsInv => ComparisonAgreesWithGate
  <2> SUFFICES ASSUME RunsInv, NEW old \in Comparables, NEW new \in Comparables
               PROVE  /\ ComparisonPasses(old, new) <=> GatePasses(old.report, new.report)
                      /\ Removed(old.report, new.report) # {} => ~ComparisonPasses(old, new)
                      /\ \A e \in 1..Newest :
                           HasReport(e) /\ Recorded(e) /\ Shown(e) = new
                             /\ entries[e].manifest.status # "passed" =>
                             Recommendation(old, new) \notin {"safe to promote", "equivalent"}
    BY DEF ComparisonAgreesWithGate
  <2>1. ComparisonPasses(old, new) <=> GatePasses(old.report, new.report)
    BY ComparisonIsTheGate
  <2>2. Removed(old.report, new.report) # {} => ~ComparisonPasses(old, new)
    BY RemovedBlocks DEF ComparisonPasses
  <2>3. ASSUME Recommendation(old, new) \in {"safe to promote", "equivalent"},
               NEW e \in 1..Newest, HasReport(e), Recorded(e), Shown(e) = new
        PROVE  entries[e].manifest.status = "passed"
    <3>1. ReportIssues(new.report) = {}
      <4>1. Recommended(old, new)
        BY <2>3 DEF Recommended
      <4> QED
        BY <4>1, RecommendedIsSound, Zenon
    <3> DEFINE report == new.report
    <3>2. report.complete
      <4>1. ReportIssues(report) = {}
        BY <3>1
      <4> HIDE DEF report
      <4> QED
        BY <4>1, NoIssues
    <3> QED
      BY <2>3, <3>2, ShownParts
  <2> QED
    BY <2>1, <2>2, <2>3
<1> QED
  BY <1>1, RunsAlways, PTL

-----------------------------------------------------------------------------
(* What passed is not blocked.                                             *)

WithNumbers(report) == \E p \in Pairs(report) : HasNumber(report, p)

Published(e) == entries[e].artifact # NoArtifact

\* A gated run that is past its comparison without a failure was compared, by
\* its own report, with a baseline; so that this report has a number.
GateInv ==
  /\ stage = "validate" => ~Published(Newest)
  /\ stage \in {"compare", "save_baseline", "finish"} /\ Published(Newest) =>
       latest = entries[Newest].artifact
  /\ /\ stage \in {"save_baseline", "finish"} /\ Published(Newest)
     /\ Active.gated /\ Active.failed = {}
     => WithNumbers(entries[Newest].artifact.report)
  /\ \A e \in DOMAIN entries :
       /\ Published(e) /\ entries[e].manifest \in Manifest
       /\ entries[e].manifest.gated /\ entries[e].manifest.status = "passed"
       => WithNumbers(entries[e].artifact.report)

LEMMA GateNeedsNumbers ==
  ASSUME NEW old, NEW new, ~ComparisonIssues(old, new)
  PROVE  WithNumbers(new)
<1>1. Deltas(old, new) # {}
  BY DEF ComparisonIssues
<1>2. PICK p \in SharedNumbers(old, new) : TRUE
  BY <1>1 DEF Deltas
<1> QED
  BY <1>2 DEF SharedNumbers, HasNumber, WithNumbers

\* The last part, for a step of the active run.
LEMMA PassedStays ==
  ASSUME RunsInv, GateInv, OthersKept,
         Newest \in DOMAIN entries,
         entries'[Newest].manifest.status = "passed" =>
           /\ entries'[Newest].artifact = entries[Newest].artifact
           /\ entries'[Newest].manifest.gated = Active.gated
           /\ stage = "finish" /\ Active.failed = {}
  PROVE  \A e \in DOMAIN entries' :
           /\ entries'[e].artifact # NoArtifact /\ entries'[e].manifest \in Manifest
           /\ entries'[e].manifest.gated /\ entries'[e].manifest.status = "passed"
           => WithNumbers(entries'[e].artifact.report)
  BY DEF GateInv, OthersKept, Published, Active

LEMMA PassedAdded ==
  ASSUME RunsInv, GateInv, NEW entry \in Entry, entries' = Append(entries, entry),
         entry.manifest.status # "passed"
  PROVE  \A e \in DOMAIN entries' :
           /\ entries'[e].artifact # NoArtifact /\ entries'[e].manifest \in Manifest
           /\ entries'[e].manifest.gated /\ entries'[e].manifest.status = "passed"
           => WithNumbers(entries'[e].artifact.report)
<1>1. Newest \in Nat /\ DOMAIN entries = 1..Newest
  BY EntriesDomain
<1> QED
  BY <1>1, EntryAdded DEF GateInv, Published

LEMMA GateInvNext == RunsInv /\ TypeInv /\ GateInv /\ [Next]_vars => GateInv'
<1> SUFFICES ASSUME RunsInv, TypeInv, GateInv, [Next]_vars PROVE GateInv'
  OBVIOUS
<1> DEFINE PassedPart ==
             \A e \in DOMAIN entries :
               /\ entries[e].artifact # NoArtifact /\ entries[e].manifest \in Manifest
               /\ entries[e].manifest.gated /\ entries[e].manifest.status = "passed"
               => WithNumbers(entries[e].artifact.report)
<1>0. stage # "idle" => Newest \in DOMAIN entries
  BY DEF RunsInv
<1>1. ASSUME NEW gated \in BOOLEAN, NEW promotes \in BOOLEAN, StartRun(gated, promotes)
      PROVE  GateInv'
  <2> DEFINE entry == NewRun(gated, promotes)
  <2>1. entry \in Entry /\ entry.manifest.status # "passed" /\ entries' = Append(entries, entry)
    BY <1>1, NewRunIsEntry DEF StartRun, NewRun
  <2> HIDE DEF entry
  <2>2. PassedPart'
    BY <2>1, PassedAdded
  <2>3. entries'[Newest'] = entry
    BY <2>1, EntryAdded
  <2>4. ~Published(Newest)' /\ stage' = "validate"
    <3>1. entry.artifact = NoArtifact
      BY DEF entry, NewRun
    <3>2. stage' = "validate"
      BY <1>1 DEF StartRun
    <3> QED
      BY <2>3, <3>1, <3>2 DEF Published
  <2> QED
    BY <2>2, <2>4 DEF GateInv, Published
<1>2. ASSUME NEW artifact \in Artifacts, BareRun(artifact) PROVE GateInv'
  <2> DEFINE entry == [manifest |-> NoManifest, artifact |-> artifact]
  <2>1. /\ entry \in Entry /\ stage' = "idle" /\ entries' = Append(entries, entry)
        /\ entry.manifest.status # "passed"
    BY <1>2 DEF BareRun, Entry, NoManifest
  <2> HIDE DEF entry
  <2>2. PassedPart'
    BY <2>1, PassedAdded
  <2> QED
    BY <2>1, <2>2 DEF GateInv, Published
<1>3. ASSUME NEW artifact \in Artifacts, Validate(artifact) PROVE GateInv'
  <2>1. PassedPart'
    BY <1>0, <1>3, ValidateParts, PassedStays
  <2>2. stage' = "compare" /\ latest' = artifact
    BY <1>3 DEF Validate
  <2>3. entries'[Newest'].artifact = artifact
    BY <1>3, ValidateParts DEF OthersKept
  <2> QED
    BY <2>1, <2>2, <2>3 DEF GateInv, Published
<1>4. CASE ValidateRaises
  <2> DEFINE failures == {<<"validate", "error">>}
  <2>1. stage = "validate" /\ stage' = "compare" /\ latest' = latest /\ Proceed("compare", failures)
    BY <1>4 DEF ValidateRaises, Proceed
  <2> HIDE DEF failures
  <2>2. PassedPart'
    BY <1>0, <2>1, ProceedParts, PassedStays
  <2>3. entries[Newest].artifact = NoArtifact
    BY <2>1 DEF GateInv, Published
  <2>4. entries'[Newest'].artifact = NoArtifact
    BY <2>1, <2>3, ProceedParts DEF OthersKept
  <2> QED
    BY <2>1, <2>2, <2>4 DEF GateInv, Published
<1>5. CASE CompareStage
  <2> DEFINE failures == CompareFailures
  <2>1. /\ stage = "compare" /\ stage' = "save_baseline" /\ latest' = latest
        /\ Proceed("save_baseline", failures)
    BY <1>5 DEF CompareStage, Proceed
  <2>2. failures = {} /\ Active.gated => WithNumbers(latest.report)
    BY GateNeedsNumbers DEF CompareFailures
  <2> HIDE DEF failures
  <2>3. PassedPart'
    BY <1>0, <2>1, ProceedParts, PassedStays
  <2>4. /\ OthersKept /\ entries'[Newest].artifact = entries[Newest].artifact
        /\ entries'[Newest].manifest.gated = Active.gated
        /\ entries'[Newest].manifest.failed = Active.failed \cup failures
    BY <2>1, ProceedParts
  <2>5. Published(Newest)' => latest' = entries'[Newest'].artifact
    BY <2>1, <2>4 DEF GateInv, Published, OthersKept
  <2>6. Published(Newest)' /\ Active'.gated /\ Active'.failed = {} =>
          WithNumbers(entries'[Newest'].artifact.report)
    BY <2>1, <2>2, <2>4, <2>5 DEF Active, OthersKept
  <2> QED
    BY <2>1, <2>3, <2>5, <2>6 DEF GateInv, Published
<1>6. CASE SaveStage
  <2>1. PICK failures : Proceed("finish", failures)
    BY <1>6 DEF SaveStage
  <2>2. stage = "save_baseline" /\ stage' = "finish" /\ latest' = latest
    BY <1>6, <2>1 DEF SaveStage, Proceed
  <2>3. PassedPart'
    BY <1>0, <2>1, <2>2, ProceedParts, PassedStays
  <2>4. /\ OthersKept /\ entries'[Newest].artifact = entries[Newest].artifact
        /\ entries'[Newest].manifest.gated = Active.gated
        /\ entries'[Newest].manifest.failed = Active.failed \cup failures
    BY <2>1, <2>2, ProceedParts
  <2>5. Published(Newest)' => latest' = entries'[Newest'].artifact
    BY <2>2, <2>4 DEF GateInv, Published, OthersKept
  <2>6. Published(Newest)' /\ Active'.gated /\ Active'.failed = {} =>
          WithNumbers(entries'[Newest'].artifact.report)
    BY <2>2, <2>4 DEF GateInv, Published, Active, OthersKept
  <2> QED
    BY <2>2, <2>3, <2>5, <2>6 DEF GateInv, Published
<1>7. ASSUME NEW status, stage # "idle", Close(status),
             status = "passed" => stage = "finish" /\ Active.failed = {}
      PROVE  GateInv'
  <2>1. PassedPart'
    BY <1>0, <1>7, CloseParts, PassedStays
  <2>2. stage' = "idle"
    BY <1>7 DEF Close
  <2> QED
    BY <2>1, <2>2 DEF GateInv, Published
<1>8. CASE Finish
  BY <1>7, <1>8 DEF Finish
<1>9. ASSUME NEW status \in {"cancelled", "interrupted"}, CutShort(status) PROVE GateInv'
  BY <1>7, <1>9 DEF CutShort
<1>10. ASSUME UNCHANGED <<entries, stage, latest>> PROVE GateInv'
  BY <1>10 DEF GateInv, Published, Newest, Active
<1>11. ASSUME NEW e \in 1..MaxEntries, PromoteByHand(e) \/ PromoteFromPage(e) PROVE GateInv'
  BY <1>10, <1>11 DEF PromoteByHand, PromoteFromPage
<1>12. CASE UNCHANGED vars
  BY <1>10, <1>12 DEF vars
<1> QED
  BY <1>1, <1>2, <1>3, <1>4, <1>5, <1>6, <1>8, <1>9, <1>11, <1>12 DEF Next

LEMMA GateInvAlways == Spec => [](RunsInv /\ TypeInv /\ GateInv)
<1>1. Init => RunsInv /\ TypeInv /\ GateInv
  BY EmptySeq DEF Init, RunsInv, TypeInv, Stages, GateInv
<1> QED
  BY <1>1, RunsNext, TypeInvNext, GateInvNext, PTL DEF Spec

LEMMA NoChangeIsHarmless ==
  ASSUME NEW value \in Int, NEW direction
  PROVE  ~Worsened(value, value, direction)
<1>1. Abs(value) \in Nat /\ Allowance \in Nat
  BY EvidenceAssumption DEF Abs
<1>2. /\ \A m, n \in Nat : -m * n <= 0 /\ m * n >= 0
      /\ (value - value) * 100 = 0
  OBVIOUS
<1>3. /\ ~((value - value) * 100 < -Allowance * Abs(value))
      /\ ~((value - value) * 100 > Allowance * Abs(value))
  <2>1. -Allowance * Abs(value) <= 0 /\ Allowance * Abs(value) >= 0
    BY <1>1, <1>2
  <2>2. -Allowance * Abs(value) \in Int /\ Allowance * Abs(value) \in Int
    BY <1>1
  <2> QED
    BY <1>2, <2>1, <2>2
<1> QED
  BY <1>3 DEF Worsened

\* A report with a number, compared with itself, passes the gate.
LEMMA ItselfPasses ==
  ASSUME NEW artifact \in Artifacts, ReportIssues(artifact.report) = {},
         WithNumbers(artifact.report)
  PROVE  GatePasses(artifact.report, artifact.report)
<1> DEFINE report == artifact.report
<1>1. ASSUME NEW p \in SharedNumbers(report, report)
      PROVE  ~DefinitionChanged(report, report, p)
  BY DEF DefinitionChanged
<1>2. SharedNumbers(report, report) # {}
  BY DEF WithNumbers, SharedNumbers, HasNumber, Pairs
<1>3. Deltas(report, report) = SharedNumbers(report, report)
  BY DEF Deltas, Comparable, Tolerated
<1>4. ~ComparisonIssues(report, report)
  BY <1>1, <1>2, <1>3 DEF ComparisonIssues, TargetChanged, LostSuites, NowSkipped, LostNumbers
<1>5. ASSUME NEW p \in Deltas(report, report) PROVE ~Regressed(report, report, p)
  <2> DEFINE value == Of(report, p[1], p[2]).value
  <2>1. p \in SharedNumbers(report, report)
    BY <1>3, <1>5
  <2>2. value \in Int
    <3>1. IsReport(report)
      BY ReviewAssumption DEF IsArtifact
    <3>2. p[1] \in DOMAIN report.suites /\ p[2] \in DOMAIN report.suites[p[1]].metrics
      BY <2>1 DEF SharedNumbers, HasNumber, Pairs, SuitesOf, MetricsOf
    <3>3. Of(report, p[1], p[2]) \in Metric
      BY <3>1, <3>2 DEF IsReport, IsSuite, Of
    <3> QED
      BY <3>3, EvidenceAssumption DEF Metric
  <2> QED
    BY <2>2, NoChangeIsHarmless DEF Regressed
<1> QED
  BY <1>4, <1>5 DEF GatePasses

\* Sound evidence, shown by a run that passed, is shown as it was written.
LEMMA ShownUnchanged ==
  ASSUME RunsInv, NEW e, HasReport(e), Recorded(e), entries[e].manifest.status = "passed",
         ReportIssues(entries[e].artifact.report) = {}
  PROVE  Shown(e) = entries[e].artifact
<1> DEFINE artifact == entries[e].artifact
<1>1. IsArtifact(artifact)
  BY EntryParts, ReviewAssumption
<1>2. artifact.report.complete = TRUE
  <2>1. artifact.report.complete
    BY NoIssues
  <2>2. artifact.report.complete \in BOOLEAN
    BY <1>1 DEF IsArtifact, IsReport
  <2> QED
    BY <2>1, <2>2
<1>3. [artifact EXCEPT !.report.complete = TRUE] = artifact
  <2>1. [artifact.report EXCEPT !.complete = TRUE] = artifact.report
    BY <1>1, <1>2 DEF IsArtifact, IsReport, HasFields
  <2> QED
    BY <1>1, <2>1 DEF IsArtifact, HasFields
<1>4. (entries[e].manifest.status = "passed") = TRUE
  OBVIOUS
<1> QED
  BY <1>3, <1>4 DEF Shown

\* No rule blocks sound evidence of a run that passed, but for an unstable
\* model, when the baseline lets it through.
LEMMA NothingBlocks ==
  ASSUME NEW artifact \in Artifacts, ReportIssues(artifact.report) = {},
         "unstable" \notin artifact.symptoms,
         NEW manifest, manifest.status = "passed", manifest.failed = {},
         NEW base, base = NoArtifact \/ GatePasses(base.report, artifact.report)
  PROVE  \A i \in GenerateInsights(artifact, manifest, base) : i.severity \notin Blocking
<1> DEFINE report == artifact.report
           Harmless(insights) == \A i \in insights : i.severity \notin Blocking
<1>1. FailedSuites(report) = {} /\ SuitesOf(report) # {}
  BY NoIssues DEF FailedSuites
<1>2. SymptomsAgree(artifact)
  BY ReviewAssumption
<1>3. artifact.symptoms \cap {"miss", "roll", "pitch", "faulted", "rom-over", "ram-over"} = {}
  BY <1>1, <1>2 DEF SymptomsAgree
<1>4. ExecutionInsights(manifest) = {}
  BY DEF ExecutionInsights, When
<1>5. ReportEmpty(report) = {} /\ SuiteFailures(report) = {}
  BY <1>1 DEF ReportEmpty, SuiteFailures, When
<1>6. \A found : UnexplainedFailures(report, found) = {}
  BY <1>1 DEF UnexplainedFailures
<1>7. Harmless(Told(DeadlineRules, artifact))
  BY <1>3 DEF Told, DeadlineRules, Insight, Blocking
<1>8. Harmless(Told(AccuracyRules, artifact))
  BY <1>3 DEF Told, AccuracyRules, Insight, Blocking
<1>9. Harmless(BudgetInsights(artifact))
  BY <1>3 DEF BudgetInsights, Insight, Blocking
<1>10. base # NoArtifact => RegressionInsights(base.report, report) = {}
  BY DEF RegressionInsights, GatePasses, Regressions, When
<1>11. Harmless(ImprovementInsights(base.report, report))
  BY DEF ImprovementInsights, When, Insight, Blocking
<1>12. Harmless(CoverageInsights(report, manifest))
  BY DEF CoverageInsights, When, Insight, Blocking
<1>13. Harmless(ProvenanceInsights(report))
  BY DEF ProvenanceInsights, When, Insight, Blocking
<1>14. Harmless(AuthorshipInsights(artifact))
  BY DEF AuthorshipInsights, When, Insight, Blocking
<1>15. ~Invalid(report)
  BY DEF Invalid
<1> HIDE DEF Harmless
<1> QED
  BY <1>4, <1>5, <1>6, <1>7, <1>8, <1>9, <1>10, <1>11, <1>12, <1>13, <1>14, <1>15
  DEF GenerateInsights, Harmless

\* A run that passed on sound evidence is not blocked afterwards, as long as
\* the baseline it named is its own report or still lets it through; but for a
\* model with unstable output (generate_insights, compare_reports).
THEOREM PassedRunsAreNotBlockedAlways == Spec => []PassedRunsAreNotBlocked
<1>1. RunsInv /\ GateInv => PassedRunsAreNotBlocked
  <2> SUFFICES ASSUME RunsInv, GateInv, NEW e \in 1..Newest, HasReport(e), Recorded(e),
                      entries[e].manifest.status = "passed",
                      "unstable" \notin entries[e].artifact.symptoms,
                      ReportIssues(entries[e].artifact.report) = {},
                      entries[e].manifest.gated =>
                        \/ stored = entries[e].artifact
                        \/ GatePasses(stored.report, entries[e].artifact.report)
               PROVE  ResultsVerdict(e) \in Cleared
    BY DEF PassedRunsAreNotBlocked
  <2> DEFINE artifact == entries[e].artifact
             manifest == entries[e].manifest
  <2>1. e \in DOMAIN entries /\ artifact \in Artifacts /\ manifest \in Manifest
    BY EntryParts
  <2>2. manifest.failed = {} /\ (manifest.gated => WithNumbers(artifact.report))
    BY <2>1 DEF RunsInv, GateInv, HasReport, Published
  <2>3. BaselineOf(e) = NoArtifact \/ GatePasses(BaselineOf(e).report, artifact.report)
    BY <2>1, <2>2, ItselfPasses DEF BaselineOf
  <2>4. Shown(e) = artifact
    BY ShownUnchanged
  <2>5. \A i \in ResultsInsights(e) : i.severity \notin Blocking
    BY <2>1, <2>2, <2>3, <2>4, NothingBlocks DEF ResultsInsights
  <2>6. SeveritiesOf(ResultsInsights(e)) \cap Blocking = {}
    BY <2>5 DEF SeveritiesOf
  <2>7. SuitesOf(artifact.report) # {} /\ FailedSuites(artifact.report) = {}
    BY NoIssues DEF FailedSuites
  <2> QED
    BY <2>4, <2>6, <2>7 DEF ResultsVerdict, Verdict, Cleared
<1> QED
  BY <1>1, GateInvAlways, PTL


=============================================================================
