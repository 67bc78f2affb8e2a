-------------------------- MODULE SharedReportsProofs --------------------------
(***************************************************************************)
(* Proofs about SharedReports, for any set of runs, any measured costs and *)
(* any allowance.                                                          *)
(***************************************************************************)
EXTENDS SharedReports, TLAPS

(***************************************************************************)
(* The inductive invariant.  OriginInv: nothing but a run writes           *)
(* latest.json, and a run's report carries its name.  PromoterInv: the run *)
(* that wrote the baseline is past its last stage.  AloneInv: when runs do *)
(* not overlap, latest.json, telemetry.csv and what was judged follow the  *)
(* one active run from stage to stage.                                     *)
(***************************************************************************)
OriginInv ==
  /\ latest.run # "legacy"
  /\ \A r \in Runs : own[r].run \in {r, "none"}

PromoterInv ==
  /\ \A r \in Runs : pc[r] # "done" => outcome[r] = "open"
  /\ promoter \in Runs =>
       /\ pc[promoter] \in {"finalize", "done"}
       /\ failed[promoter] # "stage"
       /\ outcome[promoter] # "cancelled"
       /\ outcome[promoter] = "failed" => failed[promoter] = "record"

Alone == \A q, r \in Runs : Active(q) /\ Active(r) => q = r

\* What the shared files hold while r is active.
Follows(r) ==
  /\ pc[r] = "publish" => latest = Torn
  /\ pc[r] \in {"telemetry", "copy", "compare", "save"} /\ failed[r] = "none" => latest = own[r]
  /\ pc[r] = "copy" => csv = r
  /\ pc[r] = "save" /\ "gate" \in wants[r] /\ failed[r] = "none" => judged[r] = latest

AloneInv ==
  ~overlap =>
    /\ Alone
    /\ \A r \in Runs : Follows(r) /\ capture[r] \in {r, "none"}
    /\ promoter \in Runs =>
         /\ baseline = own[promoter]
         /\ "gate" \in wants[promoter] => judged[promoter] = baseline

IInv == TypeOK /\ OriginInv /\ PromoterInv /\ AloneInv

-----------------------------------------------------------------------------

USE DEF runVars, fileVars

LEMMA ReportTypes ==
  /\ NoReport \in Report /\ Torn \in Report
  /\ NoReport.run = "none" /\ Torn.run = "torn"
BY CostAssumption DEF NoReport, Torn, Report, Origins, SomeCost

LEMMA InitInductive == Init => IInv
<1> SUFFICES ASSUME Init PROVE IInv
  OBVIOUS
<1>1. TypeOK
  BY ReportTypes DEF Init, TypeOK, Report, Origins
<1>2. OriginInv /\ PromoterInv
  BY ReportTypes, RunsAssumption DEF Init, OriginInv, PromoterInv
<1>3. AloneInv
  BY RunsAssumption DEF Init, AloneInv, Alone, Active, Follows
<1> QED BY <1>1, <1>2, <1>3 DEF IInv

LEMMA RunType == \A r \in Runs : TypeOK /\ Run(r) => TypeOK'
<1> SUFFICES ASSUME NEW r \in Runs, TypeOK, Run(r) PROVE TypeOK'
  OBVIOUS
<1> USE DEF TypeOK, At, Goto, Fail, Stage
<1>1. CASE Build(r) \/ ValidateRaises(r) \/ WriteLatestFails(r) \/ SkipTelemetry(r) \/ CaptureFails(r)
  BY <1>1 DEF Build, ValidateRaises, WriteLatestFails, SkipTelemetry, CaptureFails
<1>2. ASSUME NEW ok \in BOOLEAN, NEW cost \in Costs, OpenLatest(r, ok, cost)
      PROVE  TypeOK'
  <2>1. [run |-> r, ok |-> ok, cost |-> cost] \in Report
    BY DEF Report, Origins
  <2> QED BY <1>2, <2>1, ReportTypes DEF OpenLatest
<1>3. CASE WriteLatest(r)
  <2>1. latest' \in Report
    BY <1>3, ReportTypes DEF WriteLatest
  <2>2. failed' \in [Runs -> {"none", "stage", "record"}]
    BY <1>3, Zenon DEF WriteLatest
  <2> QED BY <1>3, <2>1, <2>2 DEF WriteLatest
<1>4. CASE Capture(r) \/ CopyCapture(r)
  BY <1>4 DEF Capture, CopyCapture
<1>5. CASE Compare(r)
  BY <1>5 DEF Compare
<1>6. CASE SaveBaseline(r)
  BY <1>6 DEF SaveBaseline, Promote
<1>7. CASE Cancel(r) \/ Finalize(r) \/ Crash(r)
  BY <1>7 DEF Cancel, Finalize, Crash
<1> QED BY <1>1, <1>2, <1>3, <1>4, <1>5, <1>6, <1>7 DEF Run

LEMMA UserType == TypeOK /\ UserPromotes => TypeOK'
BY DEF TypeOK, UserPromotes, Promote


-----------------------------------------------------------------------------
(* The three parts of the invariant, one after the other.                  *)

LEMMA OriginStep ==
  \A r \in Runs : TypeOK /\ OriginInv /\ Run(r) => OriginInv'
<1> SUFFICES ASSUME NEW r \in Runs, TypeOK, OriginInv, Run(r) PROVE OriginInv'
  OBVIOUS
<1> USE DEF OriginInv
<1>1. ASSUME NEW ok \in BOOLEAN, NEW cost \in Costs, OpenLatest(r, ok, cost)
      PROVE  OriginInv'
  BY <1>1, ReportTypes DEF OpenLatest, TypeOK
<1>2. CASE WriteLatest(r)
  BY <1>2, ReportTypes, RunsAssumption DEF WriteLatest
<1>3. CASE UNCHANGED <<own, latest>>
  BY <1>3
<1> QED
  BY <1>1, <1>2, <1>3
  DEF Run, Build, ValidateRaises, WriteLatestFails, SkipTelemetry, Capture, CaptureFails,
      CopyCapture, Compare, SaveBaseline, Cancel, Finalize, Crash

\* A run that is not at its last stage leaves the promoter alone.
LEMMA PromoterStep ==
  \A r \in Runs : TypeOK /\ PromoterInv /\ Run(r) => PromoterInv'
<1> SUFFICES ASSUME NEW r \in Runs, TypeOK, PromoterInv, Run(r) PROVE PromoterInv'
  OBVIOUS
<1> USE DEF TypeOK, PromoterInv, At, Goto, Fail
<1>1. CASE Build(r) \/ ValidateRaises(r) \/ WriteLatestFails(r) \/ SkipTelemetry(r)
           \/ CaptureFails(r) \/ Capture(r) \/ CopyCapture(r)
  BY <1>1 DEF Build, ValidateRaises, WriteLatestFails, SkipTelemetry, CaptureFails, Capture,
              CopyCapture
<1>2. ASSUME NEW ok \in BOOLEAN, NEW cost \in Costs, OpenLatest(r, ok, cost)
      PROVE  PromoterInv'
  BY <1>2 DEF OpenLatest
<1>3. CASE WriteLatest(r)
  <2>1. promoter \in Runs => promoter # r
    BY <1>3 DEF WriteLatest
  <2>2. \A q \in Runs : q # r => failed'[q] = failed[q]
    BY <1>3 DEF WriteLatest
  <2> QED BY <1>3, <2>1, <2>2 DEF WriteLatest
<1>4. CASE Compare(r)
  BY <1>4 DEF Compare
<1>5. CASE SaveBaseline(r)
  BY <1>5 DEF SaveBaseline, Promote
<1>6. CASE Cancel(r)
  BY <1>6 DEF Cancel, Stage
<1>7. CASE Finalize(r)
  BY <1>7 DEF Finalize
<1>8. CASE Crash(r)
  BY <1>8 DEF Crash, Active
<1> QED BY <1>1, <1>2, <1>3, <1>4, <1>5, <1>6, <1>7, <1>8 DEF Run

\* When r moves on and the runs are alone, the others are not active and the
\* files have nobody else to follow.
LEMMA OthersIdle ==
  ASSUME TypeOK, Alone, NEW r \in Runs, Active(r), NEW stage, pc' = [pc EXCEPT ![r] = stage]
  PROVE  /\ Alone'
         /\ \A q \in Runs : q # r => pc'[q] = pc[q] /\ Follows(q)'
<1>1. \A q \in Runs : q # r => pc'[q] = pc[q] /\ pc[q] \in {"new", "done"}
  BY DEF TypeOK, Alone, Active
<1> QED BY <1>1 DEF Alone, Active, Follows

LEMMA AloneStep ==
  \A r \in Runs : IInv /\ Run(r) => AloneInv'
<1> SUFFICES ASSUME NEW r \in Runs, IInv, Run(r), ~overlap PROVE AloneInv'
  BY DEF AloneInv, Run, Build, ValidateRaises, OpenLatest, WriteLatest, WriteLatestFails,
         SkipTelemetry, Capture, CaptureFails, CopyCapture, Compare, SaveBaseline, Cancel,
         Finalize, Crash
<1> USE DEF IInv, At, Goto, Fail
<1>a. Alone /\ AloneInv /\ \A q \in Runs : Follows(q) /\ capture[q] \in {q, "none"}
  BY DEF AloneInv
<1>p. promoter \in Runs => /\ pc[promoter] \in {"finalize", "done"}
                           /\ baseline = own[promoter]
                           /\ "gate" \in wants[promoter] => judged[promoter] = baseline
  BY DEF AloneInv, PromoterInv
<1>1. CASE Build(r)
  <2>1. Alone' /\ \A q \in Runs : Follows(q)'
    BY <1>a, <1>1 DEF Build, Alone, Active, Follows, TypeOK
  <2> QED BY <1>a, <1>p, <1>1, <2>1 DEF Build, AloneInv
<1>2. CASE ValidateRaises(r) \/ WriteLatestFails(r) \/ SkipTelemetry(r) \/ CaptureFails(r)
  <2>1. Alone' /\ \A q \in Runs : q # r => Follows(q)'
    BY <1>a, <1>2, OthersIdle
    DEF ValidateRaises, WriteLatestFails, SkipTelemetry, CaptureFails, Active
  <2>2. Follows(r)'
    BY <1>a, <1>2 DEF ValidateRaises, WriteLatestFails, SkipTelemetry, CaptureFails,
                      Follows, TypeOK
  <2> QED BY <1>a, <1>p, <1>2, <2>1, <2>2
          DEF ValidateRaises, WriteLatestFails, SkipTelemetry, CaptureFails, AloneInv
<1>3. ASSUME NEW ok \in BOOLEAN, NEW cost \in Costs, OpenLatest(r, ok, cost)
      PROVE  AloneInv'
  <2>1. Alone' /\ \A q \in Runs : q # r => Follows(q)'
    BY <1>a, <1>3, OthersIdle DEF OpenLatest, Active
  <2>2. Follows(r)'
    BY <1>3 DEF OpenLatest, Follows, TypeOK
  <2>3. promoter \in Runs => promoter # r /\ own'[promoter] = own[promoter]
    <3>1. promoter \in Runs => promoter # r
      BY <1>p, <1>3 DEF OpenLatest
    <3>2. \A q \in Runs : q # r => own'[q] = own[q]
      BY <1>3 DEF OpenLatest, TypeOK
    <3> QED BY <3>1, <3>2
  <2> QED BY <1>a, <1>p, <1>3, <2>1, <2>2, <2>3 DEF OpenLatest, AloneInv
<1>4. CASE WriteLatest(r)
  <2>1. Alone' /\ \A q \in Runs : q # r => Follows(q)'
    BY <1>a, <1>4, OthersIdle DEF WriteLatest, Active
  <2>2. latest' = own[r]
    BY <1>a, <1>4 DEF WriteLatest, Follows
  <2>3. Follows(r)'
    BY <1>4, <2>2 DEF WriteLatest, Follows, TypeOK
  <2> QED BY <1>a, <1>p, <1>4, <2>1, <2>3 DEF WriteLatest, AloneInv
<1>5. CASE Capture(r) \/ CopyCapture(r)
  <2>1. Alone' /\ \A q \in Runs : q # r => Follows(q)'
    BY <1>a, <1>5, OthersIdle DEF Capture, CopyCapture, Active
  <2>2. Follows(r)'
    BY <1>a, <1>5 DEF Capture, CopyCapture, Follows, TypeOK
  <2>3. \A q \in Runs : capture'[q] \in {q, "none"}
    BY <1>a, <1>5 DEF Capture, CopyCapture, Follows, TypeOK
  <2> QED BY <1>a, <1>p, <1>5, <2>1, <2>2, <2>3 DEF Capture, CopyCapture, AloneInv
<1>6. CASE Compare(r)
  <2>1. Alone' /\ \A q \in Runs : q # r => Follows(q)'
    BY <1>a, <1>6, OthersIdle DEF Compare, Active
  <2>2. Follows(r)'
    BY <1>a, <1>6 DEF Compare, Follows, TypeOK
  <2>3. promoter \in Runs => judged'[promoter] = judged[promoter]
    <3>1. promoter \in Runs => promoter # r
      BY <1>p, <1>6 DEF Compare
    <3>2. \A q \in Runs : q # r => judged'[q] = judged[q]
      BY <1>6 DEF Compare, TypeOK
    <3> QED BY <3>1, <3>2
  <2> QED BY <1>a, <1>p, <1>6, <2>1, <2>2, <2>3 DEF Compare, AloneInv
<1>7. CASE SaveBaseline(r)
  <2>1. Alone' /\ \A q \in Runs : q # r => Follows(q)'
    BY <1>a, <1>7, OthersIdle DEF SaveBaseline, Active
  <2>2. Follows(r)'
    BY <1>7 DEF SaveBaseline, Follows, TypeOK
  <2>3. CASE promoter' = r /\ baseline' = latest /\ failed[r] = "none"
    <3>1. latest = own[r] /\ ("gate" \in wants[r] => judged[r] = latest)
      BY <1>a, <1>7, <2>3 DEF SaveBaseline, Follows
    <3> QED BY <1>a, <1>7, <2>1, <2>2, <2>3, <3>1 DEF SaveBaseline, AloneInv
  <2>4. CASE UNCHANGED <<promoter, baseline>>
    BY <1>a, <1>p, <1>7, <2>1, <2>2, <2>4 DEF SaveBaseline, AloneInv
  <2> QED BY <1>7, <2>3, <2>4 DEF SaveBaseline, Promote
<1>8. CASE Cancel(r) \/ Finalize(r) \/ Crash(r)
  <2>1. Active(r) /\ pc' = [pc EXCEPT ![r] = "done"]
    BY <1>8 DEF Cancel, Finalize, Crash, Stage, Active
  <2>2. Alone' /\ \A q \in Runs : q # r => Follows(q)'
    BY <1>a, <2>1, OthersIdle
  <2>3. Follows(r)'
    BY <2>1 DEF Follows, TypeOK
  <2> QED BY <1>a, <1>p, <1>8, <2>2, <2>3 DEF Cancel, Finalize, Crash, AloneInv
<1> QED BY <1>1, <1>2, <1>3, <1>4, <1>5, <1>6, <1>7, <1>8 DEF Run

LEMMA NextInductive == IInv /\ [Next]_vars => IInv'
<1> SUFFICES ASSUME IInv, [Next]_vars PROVE IInv'
  OBVIOUS
<1> USE DEF IInv
<1>1. CASE UserPromotes
  <2>1. TypeOK'
    BY <1>1, UserType
  <2>2. OriginInv' /\ PromoterInv'
    BY <1>1, RunsAssumption DEF UserPromotes, Promote, OriginInv, PromoterInv
  <2>3. AloneInv'
    BY <1>1, RunsAssumption DEF UserPromotes, Promote, AloneInv, Alone, Active, Follows
  <2> QED BY <2>1, <2>2, <2>3
<1>2. ASSUME NEW r \in Runs, Run(r)
      PROVE  IInv'
  BY <1>2, RunType, OriginStep, PromoterStep, AloneStep
<1>3. CASE UNCHANGED vars
  BY <1>3 DEF vars, TypeOK, OriginInv, PromoterInv, AloneInv, Alone, Active, Follows
<1> QED BY <1>1, <1>2, <1>3 DEF Next

THEOREM Invariance == Spec => []IInv
BY InitInductive, NextInductive, PTL DEF Spec

-----------------------------------------------------------------------------
(* The properties.                                                         *)

\* Every variable keeps its type.
THEOREM TypeCorrect == Spec => []TypeOK
<1>1. IInv => TypeOK
  BY DEF IInv
<1> QED BY <1>1, Invariance, PTL

\* The run that wrote the baseline is not recorded as cancelled, nor as failed
\* unless what failed was registering the baseline it had written.
THEOREM PromoterPassedAlways == Spec => []PromoterPassed
<1>1. IInv => PromoterPassed
  BY DEF IInv, PromoterInv, PromoterPassed
<1> QED BY <1>1, Invariance, PTL

\* When runs do not overlap, what a run leaves as its evidence is its own.
THEOREM AloneRunsOwnTheirEvidenceAlways == Spec => []AloneRunsOwnTheirEvidence
<1>1. IInv => AloneRunsOwnTheirEvidence
  BY DEF IInv, AloneInv, AloneRunsOwnTheirEvidence
<1> QED BY <1>1, Invariance, PTL

\* When runs do not overlap, what a gated run promotes is what its gate judged.
THEOREM AlonePromotedWasJudgedAlways == Spec => []AlonePromotedWasJudged
<1>1. IInv => AlonePromotedWasJudged
  BY DEF IInv, AloneInv, AlonePromotedWasJudged
<1> QED BY <1>1, Invariance, PTL

=============================================================================
