--------------------------- MODULE RunLifecycleProofs ---------------------------
(***************************************************************************)
(* Proofs about RunLifecycle, for any number of stages and readers and any *)
(* thresholds in the order the code has them.                              *)
(***************************************************************************)
EXTENDS RunLifecycle, WellFoundedInduction, TLAPS

Closed == {"ok", "skipped", "failed"}

(***************************************************************************)
(* The inductive invariant.  WorkerInv ties the worker's manifest to its   *)
(* control point; ManifestInv says that every copy of a manifest, in       *)
(* memory, on disk or held by a reader, is one the worker could have       *)
(* written or a well closed successor of one; CancelInv carries an early   *)
(* cancellation to the first check; PidInv carries the reason for which a  *)
(* reader condemned a run whose process lives.                             *)
(***************************************************************************)
WorkerInv ==
  /\ mem.status = "pending" <=> wpc = "queued"
  /\ mem.status \in Decided <=> wpc = "done"
  /\ wpc \in {"queued", "boundary"} =>
       \A s \in Stages : /\ s < current => mem.stages[s] \in Closed
                         /\ s >= current => mem.stages[s] = "none"
  /\ wpc = "body" =>
       \A s \in Stages : /\ s < current => mem.stages[s] \in Closed
                         /\ s = current => mem.stages[s] = "running"
                         /\ s > current => mem.stages[s] = "none"
  /\ wpc \in {"finishing", "crashed", "unwound"} =>
       \A s \in Stages : mem.stages[s] # "running"
  /\ wpc = "queued" => current = 1
  /\ wpc = "finishing" => cancelled \/ \A s \in Stages : mem.stages[s] \in Closed
  /\ wpc \in {"queued", "boundary", "body"} => ~cancelled
  /\ cut # 0 => wpc \in {"crashed", "unwound"} \/ mem.status = "error"

Plausible(m) ==
  /\ m.status # "interrupted"
  /\ m.status \in Active => m.failure = "none" /\ m.failedStage = 0
  /\ m.status \in Terminal => WellClosed(m)
  /\ m.status = "passed" =>
       m.failure = "none" /\ \A s \in Stages : m.stages[s] \in {"ok", "skipped"}

ManifestInv ==
  /\ Plausible(mem)
  /\ disk.status = "interrupted" \/ Plausible(disk)
  /\ disk.status = "interrupted" => WellClosed(disk)
  /\ disk.status = "passed" => mem.status = "passed"
  /\ disk.status = "running" => mem.status # "pending"
  /\ \A r \in Readers :
       /\ Plausible(copy[r]) /\ copy[r].status \in Active
       /\ copy[r].status = "running" => mem.status # "pending"

NothingStarted(m) == \A s \in Stages : m.stages[s] = "none"

CancelInv ==
  /\ ripe => cancelFile /\ (token \/ ~polled)
  /\ wpc = "queued" => ~polled /\ ~token
  /\ wpc = "queued" => NothingStarted(disk) /\ \A r \in Readers : NothingStarted(copy[r])
  /\ early =>
       /\ cancelFile
       /\ NothingStarted(mem) /\ NothingStarted(disk)
       /\ \A r \in Readers : NothingStarted(copy[r])
       /\ mem.status # "passed"
       /\ wpc # "body"
       /\ wpc = "boundary" => ~polled
       /\ wpc = "finishing" => cancelled

PidInv ==
  proc = "alive" =>
    /\ disk.status = "interrupted" => diskAge > Ceiling /\ mem.status # "pending"
    /\ \A r \in Readers :
         rpc[r] = "condemned" => copyAge[r] > Ceiling /\ copy[r].status = "running"

IInv == TypeOK /\ WorkerInv /\ ManifestInv /\ CancelInv /\ PidInv

-----------------------------------------------------------------------------
(* Lemmas about the operators.                                             *)

\* FirstStage finds a stage in the given status when there is one, and says 0
\* when there is none (it is the source's next(..., None) over the records).
LEMMA FirstStageFinds ==
  ASSUME NEW m \in Manifest, NEW status
  PROVE  /\ FirstStage(m, status) \in 0..NStages
         /\ FirstStage(m, status) # 0 => m.stages[FirstStage(m, status)] = status
         /\ FirstStage(m, status) = 0 => \A s \in Stages : m.stages[s] # status
<1> DEFINE T == {s \in Stages : m.stages[s] = status}
           R == OpToRel(<, Nat)
<1>1. CASE T = {}
  BY <1>1, StagesAssumption DEF FirstStage, Stages
<1>2. CASE T # {}
  <2>1. \E x \in T : \A y \in T : ~ (<<y, x>> \in R)
    <3>1. T \subseteq Nat
      BY StagesAssumption DEF Stages
    <3>2. IsWellFoundedOn(R, Nat)
      BY NatLessThanWellFounded
    <3> HIDE DEF T, R
    <3> QED BY <1>2, <3>1, <3>2, WFMin
  <2>2. \A x, y \in Nat : y < x => <<y, x>> \in R
    BY DEF OpToRel
  <2>3. T \subseteq Nat
    BY StagesAssumption DEF Stages
  <2>4. \E x \in T : \A y \in T : ~ (y < x)
    <3> HIDE DEF T, R
    <3> QED BY <2>1, <2>2, <2>3
  <2>5. \E x \in Stages : /\ m.stages[x] = status
                          /\ \A t \in Stages : t < x => m.stages[t] # status
    BY <2>4
  <2> QED BY <2>5, StagesAssumption DEF FirstStage, Stages
<1> QED BY <1>1, <1>2


\* What a reader writes for an abandoned manifest is a manifest again.
LEMMA InterruptedIsManifest ==
  ASSUME NEW m \in Manifest
  PROVE  Interrupted(m) \in Manifest
<1>1. FirstStage(m, "running") \in 0..NStages
  BY FirstStageFinds
<1> QED BY <1>1 DEF Interrupted, Manifest, StageStatus, FailureType, Terminal

\* Ages stay within their bounds.
LEMMA AgesSaturate ==
  /\ \A a \in Ages : Older(a) \in Ages
  /\ \A a \in 0..HeartbeatInterval : QuietLonger(a) \in 0..HeartbeatInterval
  /\ 0 \in Ages /\ 0 \in 0..HeartbeatInterval
BY ClockAssumption DEF Ages, Older, QuietLonger

\* A flush leaves a manifest on disk.
LEMMA FlushType ==
  ASSUME NEW m \in Manifest, disk \in Manifest, diskAge \in Ages, Flush(m)
  PROVE  memAge' \in 0..HeartbeatInterval /\ disk' \in Manifest /\ diskAge' \in Ages
BY AgesSaturate DEF Flush, diskVars

-----------------------------------------------------------------------------
(* Type correctness.                                                       *)

USE DEF procVars, workVars, cancelVars, diskVars, readVars

LEMMA InitType == Init => TypeOK
<1> SUFFICES ASSUME Init PROVE TypeOK
  OBVIOUS
<1>1. NewManifest \in Manifest
  BY StagesAssumption DEF NewManifest, Manifest, Active, StageStatus, FailureType
<1>2. 1 \in Stages /\ 0 \in 0..NStages
  BY StagesAssumption DEF Stages
<1>3. token \in BOOLEAN /\ polled \in BOOLEAN /\ cancelled \in BOOLEAN
      /\ cancelFile \in BOOLEAN /\ early \in BOOLEAN /\ ripe \in BOOLEAN
  BY DEF Init
<1>4. /\ rpc \in [Readers -> {"idle", "loaded", "condemned"}]
      /\ copy \in [Readers -> Manifest]
      /\ copyAge \in [Readers -> Ages]
  BY <1>1, AgesSaturate DEF Init
<1> QED BY <1>1, <1>2, <1>3, <1>4, AgesSaturate DEF Init, TypeOK

\* Every action of the worker keeps the types.
LEMMA WorkerType == TypeOK /\ Worker => TypeOK'
<1> SUFFICES ASSUME TypeOK, Worker PROVE TypeOK'
  OBVIOUS
<1> USE DEF TypeOK
<1>s. ASSUME NEW st \in StageStatus
      PROVE  [mem EXCEPT !.stages[current] = st] \in Manifest
  BY <1>s DEF Manifest
<1>m. {"running", "ok", "skipped", "failed", "cancelled"} \subseteq StageStatus
  BY DEF StageStatus
<1>1. CASE Start
  <2>1. mem' \in Manifest
    BY <1>1 DEF Start, Manifest, Active
  <2> QED BY <1>1, <2>1, FlushType DEF Start
<1>2. CASE BeginStage
  <2>1. mem' \in Manifest
    BY <1>2, <1>s, <1>m DEF BeginStage
  <2> QED BY <1>2, <2>1, FlushType DEF BeginStage, PolledInVain
<1>3. CASE CancelAtBoundary
  BY <1>3 DEF CancelAtBoundary, RaisedCancelled
<1>4. CASE Progress
  BY <1>4, FlushType DEF Progress
<1>5. CASE CheckInBody
  BY <1>5 DEF CheckInBody, PolledInVain
<1>6. CASE CancelInBody
  <2>1. mem' \in Manifest
    BY <1>6, <1>s, <1>m DEF CancelInBody
  <2> QED BY <1>6, <2>1, FlushType DEF CancelInBody, RaisedCancelled
<1>7. ASSUME NEW st \in {"ok", "skipped", "failed"}, EndStage(st)
      PROVE  TypeOK'
  <2>1. mem' \in Manifest
    BY <1>7, <1>s, <1>m DEF EndStage
  <2>2. current' \in Stages
    BY <1>7, StagesAssumption DEF EndStage, Stages
  <2> QED BY <1>7, <2>1, <2>2, FlushType DEF EndStage
<1>8. CASE EscapeFromStage
  <2>1. mem' \in Manifest
    BY <1>8, <1>s, <1>m DEF EscapeFromStage
  <2>2. cut' \in 0..NStages
    BY <1>8, StagesAssumption DEF EscapeFromStage, Stages
  <2> QED BY <1>8, <2>1, <2>2, FlushType DEF EscapeFromStage, EscapeTo
<1>9. CASE EscapeBetweenStages
  BY <1>9 DEF EscapeBetweenStages, EscapeTo
<1>10. CASE Finish
  <2>1. mem' \in Manifest
    BY <1>10, FirstStageFinds
    DEF Finish, Manifest, PipelineStatus, Terminal, Decided, FailureType
  <2> QED BY <1>10, <2>1, FlushType DEF Finish
<1>11. CASE FinishCrashed
  <2>1. mem' \in Manifest
    BY <1>11 DEF FinishCrashed, Manifest, Terminal, Decided, FailureType
  <2> QED BY <1>11, <2>1, FlushType DEF FinishCrashed
<1> QED
  BY <1>1, <1>2, <1>3, <1>4, <1>5, <1>6, <1>7, <1>8, <1>9, <1>10, <1>11 DEF Worker

\* So do the process, the user and the clock.
LEMMA EnvironmentType == TypeOK /\ Environment => TypeOK'
<1> SUFFICES ASSUME TypeOK, Environment PROVE TypeOK'
  OBVIOUS
<1> USE DEF TypeOK
<1>1. CASE Exit \/ Crash \/ PidRecycled \/ PidFreed
  BY <1>1 DEF Exit, Crash, PidRecycled, PidFreed
<1>2. CASE RequestCancel
  BY <1>2 DEF RequestCancel
<1>3. CASE Tick
  BY <1>3, AgesSaturate DEF Tick
<1> QED BY <1>1, <1>2, <1>3 DEF Environment

\* And so does every step of a reader.
LEMMA ReaderType == \A r \in Readers : TypeOK /\ Reader(r) => TypeOK'
<1> SUFFICES ASSUME NEW r \in Readers, TypeOK, Reader(r) PROVE TypeOK'
  OBVIOUS
<1> USE DEF TypeOK
<1>n. NewManifest \in Manifest
  BY StagesAssumption DEF NewManifest, Manifest, Active, StageStatus, FailureType
<1>f. Forget(r) => /\ rpc' \in [Readers -> {"idle", "loaded", "condemned"}]
                   /\ copy' \in [Readers -> Manifest]
                   /\ copyAge' \in [Readers -> Ages]
  BY <1>n, AgesSaturate DEF Forget
<1>1. CASE Load(r)
  BY <1>1 DEF Load
<1>2. CASE Judge(r)
  BY <1>2, <1>f DEF Judge
<1>3. CASE Condemn(r)
  BY <1>3, <1>f, InterruptedIsManifest DEF Condemn
<1>4. CASE CondemnFails(r)
  BY <1>4, <1>f DEF CondemnFails
<1> QED BY <1>1, <1>2, <1>3, <1>4 DEF Reader

LEMMA NextType == TypeOK /\ [Next]_vars => TypeOK'
<1> SUFFICES ASSUME TypeOK, [Next]_vars PROVE TypeOK'
  OBVIOUS
<1>1. CASE UNCHANGED vars
  BY <1>1 DEF TypeOK, vars
<1> QED BY <1>1, WorkerType, EnvironmentType, ReaderType DEF Next

\* Every variable keeps its type in every behaviour.
THEOREM TypeCorrect == Spec => []TypeOK
BY InitType, NextType, PTL DEF Spec


-----------------------------------------------------------------------------
(* The inductive invariant.                                                *)

LEMMA InitInductive == Init => IInv
<1> SUFFICES ASSUME Init PROVE IInv
  OBVIOUS
<1>1. TypeOK
  BY InitType
<1>2. WorkerInv
  BY StagesAssumption DEF Init, WorkerInv, NewManifest, Decided, Stages
<1>3. ManifestInv
  BY DEF Init, ManifestInv, Plausible, NewManifest, Active, Terminal, Decided
<1>4. CancelInv
  BY DEF Init, CancelInv, NothingStarted, NewManifest
<1>5. PidInv
  BY DEF Init, PidInv, NewManifest
<1> QED BY <1>1, <1>2, <1>3, <1>4, <1>5 DEF IInv

\* What is common to every step of the worker: it leaves the readers alone,
\* and what it may write is plausible.
LEMMA WorkerWrites ==
  ASSUME TypeOK, ManifestInv, PidInv,
         Plausible(mem'), mem'.status # "pending", mem.status # "passed",
         Flush(mem') \/ UNCHANGED diskVars,
         UNCHANGED <<procVars, readVars>>
  PROVE  ManifestInv' /\ PidInv'
<1>1. disk' = mem' \/ UNCHANGED diskVars
  BY DEF Flush
<1>2. ManifestInv'
  <2>1. \A r \in Readers : /\ Plausible(copy'[r]) /\ copy'[r].status \in Active
                           /\ copy'[r].status = "running" => mem'.status # "pending"
    BY DEF ManifestInv
  <2>2. CASE disk' = mem'
    BY <2>1, <2>2 DEF ManifestInv, Plausible
  <2>3. CASE UNCHANGED diskVars
    BY <2>1, <2>3 DEF ManifestInv
  <2> QED BY <1>1, <2>2, <2>3
<1>3. PidInv'
  BY <1>1 DEF PidInv, Plausible
<1> QED BY <1>2, <1>3

\* One step per action of the worker; ManifestInv and PidInv come from
\* WorkerWrites once what the action may write is known to be plausible.
LEMMA WorkerInductive == IInv /\ Worker => IInv'
<1> SUFFICES ASSUME IInv, Worker PROVE IInv'
  OBVIOUS
<1> USE DEF IInv
<1>t. TypeOK'
  BY WorkerType
<1>1. CASE Start
  <2>1. WorkerInv'
    BY <1>1, <1>t DEF Start, WorkerInv, TypeOK, Manifest, Decided
  <2>2. Plausible(mem')
    BY <1>1 DEF Start, Plausible, ManifestInv, WorkerInv, TypeOK, Manifest, Active,
                Terminal, Decided
  <2>3. ManifestInv' /\ PidInv'
    BY <1>1, <2>2, WorkerWrites DEF Start, WorkerInv, TypeOK, Manifest
  <2>4. CancelInv'
    BY <1>1 DEF Start, CancelInv, NothingStarted, Flush, TypeOK, Manifest
  <2> QED BY <1>t, <2>1, <2>3, <2>4
<1>2. CASE BeginStage
  <2>1. WorkerInv'
    <3>1. /\ mem'.status = mem.status
          /\ mem'.stages = [mem.stages EXCEPT ![current] = "running"]
          /\ mem.stages \in [Stages -> StageStatus]
      BY <1>2 DEF BeginStage, TypeOK, Manifest
    <3>2. \A s \in Stages : /\ s < current' => mem'.stages[s] \in Closed
                            /\ s = current' => mem'.stages[s] = "running"
                            /\ s > current' => mem'.stages[s] = "none"
      BY <1>2, <3>1, StagesAssumption DEF BeginStage, WorkerInv, TypeOK, Stages
    <3> QED BY <1>2, <3>1, <3>2 DEF BeginStage, WorkerInv
  <2>2. Plausible(mem')
    BY <1>2 DEF BeginStage, Plausible, ManifestInv, WorkerInv, TypeOK, Manifest,
                Active, Terminal
  <2>3. ManifestInv' /\ PidInv'
    BY <1>2, <2>2, WorkerWrites DEF BeginStage, WorkerInv, TypeOK, Manifest, Decided
  <2>4. CancelInv'
    BY <1>2 DEF BeginStage, PolledInVain, CancelSeen, CancelInv
  <2> QED BY <1>t, <2>1, <2>3, <2>4
<1>3. CASE CancelAtBoundary
  <2>1. WorkerInv'
    BY <1>3 DEF CancelAtBoundary, WorkerInv, TypeOK, Stages, Closed
  <2>2. ManifestInv' /\ PidInv'
    BY <1>3, WorkerWrites DEF CancelAtBoundary, WorkerInv, ManifestInv, Decided
  <2>3. CancelInv'
    BY <1>3 DEF CancelAtBoundary, RaisedCancelled, CancelInv, NothingStarted
  <2> QED BY <1>t, <2>1, <2>2, <2>3
<1>4. CASE Progress
  <2>1. WorkerInv'
    BY <1>4 DEF Progress, WorkerInv
  <2>2. ManifestInv' /\ PidInv'
    BY <1>4, WorkerWrites DEF Progress, WorkerInv, ManifestInv, Decided
  <2>3. CancelInv'
    BY <1>4 DEF Progress, CancelInv
  <2> QED BY <1>t, <2>1, <2>2, <2>3
<1>5. CASE CheckInBody
  <2>1. WorkerInv'
    BY <1>5 DEF CheckInBody, WorkerInv
  <2>2. ManifestInv' /\ PidInv'
    BY <1>5, WorkerWrites DEF CheckInBody, WorkerInv, ManifestInv, Decided
  <2>3. CancelInv'
    BY <1>5 DEF CheckInBody, PolledInVain, CancelSeen, CancelInv
  <2> QED BY <1>t, <2>1, <2>2, <2>3
<1>6. CASE CancelInBody
  <2>1. WorkerInv'
    <3>1. /\ mem'.status = mem.status
          /\ mem'.stages = [mem.stages EXCEPT ![current] = "cancelled"]
          /\ mem.stages \in [Stages -> StageStatus]
      BY <1>6 DEF CancelInBody, TypeOK, Manifest
    <3>2. \A s \in Stages : mem'.stages[s] # "running"
      BY <1>6, <3>1, StagesAssumption DEF CancelInBody, WorkerInv, TypeOK, Stages, Closed
    <3> QED BY <1>6, <3>1, <3>2 DEF CancelInBody, WorkerInv
  <2>2. Plausible(mem')
    BY <1>6 DEF CancelInBody, Plausible, ManifestInv, WorkerInv, TypeOK, Manifest,
                Active, Terminal
  <2>3. ManifestInv' /\ PidInv'
    BY <1>6, <2>2, WorkerWrites DEF CancelInBody, WorkerInv, TypeOK, Manifest, Decided
  <2>4. CancelInv'
    BY <1>6 DEF CancelInBody, RaisedCancelled, CancelInv
  <2> QED BY <1>t, <2>1, <2>3, <2>4
<1>7. ASSUME NEW st \in {"ok", "skipped", "failed"}, EndStage(st)
      PROVE  IInv'
  <2>1. WorkerInv'
    <3>1. /\ mem'.status = mem.status
          /\ mem'.stages = [mem.stages EXCEPT ![current] = st]
          /\ mem.stages \in [Stages -> StageStatus]
      BY <1>7 DEF EndStage, TypeOK, Manifest
    <3> QED BY <1>7, <3>1, StagesAssumption DEF EndStage, WorkerInv, TypeOK, Stages, Closed
  <2>2. Plausible(mem')
    BY <1>7 DEF EndStage, Plausible, ManifestInv, WorkerInv, TypeOK, Manifest,
                Active, Terminal
  <2>3. ManifestInv' /\ PidInv'
    BY <1>7, <2>2, WorkerWrites DEF EndStage, WorkerInv, TypeOK, Manifest, Decided
  <2>4. CancelInv'
    BY <1>7 DEF EndStage, CancelInv
  <2> QED BY <1>t, <2>1, <2>3, <2>4
<1>8. CASE EscapeFromStage
  <2>1. WorkerInv'
    <3>1. /\ mem'.status = mem.status
          /\ mem'.stages = [mem.stages EXCEPT ![current] = "ok"]
          /\ mem.stages \in [Stages -> StageStatus]
      BY <1>8 DEF EscapeFromStage, TypeOK, Manifest
    <3>2. \A s \in Stages : mem'.stages[s] # "running"
      BY <1>8, <3>1, StagesAssumption DEF EscapeFromStage, WorkerInv, TypeOK, Stages, Closed
    <3> QED BY <1>8, <3>1, <3>2 DEF EscapeFromStage, EscapeTo, WorkerInv
  <2>2. Plausible(mem')
    BY <1>8 DEF EscapeFromStage, Plausible, ManifestInv, WorkerInv, TypeOK, Manifest,
                Active, Terminal
  <2>3. ManifestInv' /\ PidInv'
    BY <1>8, <2>2, WorkerWrites DEF EscapeFromStage, WorkerInv, TypeOK, Manifest, Decided
  <2>4. CancelInv'
    BY <1>8 DEF EscapeFromStage, EscapeTo, CancelInv
  <2> QED BY <1>t, <2>1, <2>3, <2>4
<1>9. CASE EscapeBetweenStages
  <2>1. WorkerInv'
    BY <1>9 DEF EscapeBetweenStages, EscapeTo, WorkerInv, TypeOK, Stages, Closed
  <2>2. ManifestInv' /\ PidInv'
    BY <1>9, WorkerWrites DEF EscapeBetweenStages, WorkerInv, ManifestInv, Decided
  <2>3. CancelInv'
    BY <1>9 DEF EscapeBetweenStages, EscapeTo, CancelInv, NothingStarted
  <2> QED BY <1>t, <2>1, <2>2, <2>3
<1>10. CASE Finish
  <2> DEFINE first == FirstStage(mem, "failed")
  <2>1. /\ first # 0 => mem.stages[first] = "failed"
        /\ first = 0 <=> \A s \in Stages : mem.stages[s] # "failed"
    BY FirstStageFinds, StagesAssumption DEF TypeOK, Stages
  <2>2. /\ mem'.status = PipelineStatus
        /\ mem'.stages = mem.stages
        /\ mem'.failedStage = first
        /\ mem'.failure = IF first = 0 THEN "none" ELSE "stage"
    BY <1>10 DEF Finish, TypeOK, Manifest
  <2> HIDE DEF first
  <2>3. WorkerInv'
    BY <1>10, <2>2 DEF Finish, WorkerInv, PipelineStatus, Decided
  <2>4. Plausible(mem')
    BY <1>10, <2>1, <2>2 DEF Finish, Plausible, WellClosed, WorkerInv, PipelineStatus,
                             Closed, Active, Terminal, Decided
  <2>5. ManifestInv' /\ PidInv'
    BY <1>10, <2>2, <2>4, WorkerWrites DEF Finish, WorkerInv, PipelineStatus, Decided
  <2>6. CancelInv'
    <3>1. NothingStarted(mem) => NothingStarted(mem')
      BY <2>2 DEF NothingStarted
    <3>2. disk' = mem' \/ disk' = disk
      BY <1>10 DEF Finish, Flush
    <3> QED BY <1>10, <2>2, <3>1, <3>2 DEF Finish, CancelInv, PipelineStatus
  <2> QED BY <1>t, <2>3, <2>5, <2>6
<1>11. CASE FinishCrashed
  <2>1. /\ mem'.status = "error" /\ mem'.failure = "crash"
        /\ mem'.stages = mem.stages /\ mem'.failedStage = mem.failedStage
    BY <1>11 DEF FinishCrashed, TypeOK, Manifest
  <2>2. mem.status \in Active
    BY <1>11 DEF FinishCrashed, WorkerInv, TypeOK, Manifest, Active, Terminal, Decided,
                 ManifestInv, Plausible
  <2>3. WorkerInv'
    BY <1>11, <2>1 DEF FinishCrashed, WorkerInv, Decided
  <2>4. Plausible(mem')
    BY <1>11, <2>1, <2>2 DEF FinishCrashed, Plausible, WellClosed, WorkerInv, ManifestInv,
                             Active, Terminal, Decided
  <2>5. ManifestInv' /\ PidInv'
    BY <1>11, <2>1, <2>4, WorkerWrites DEF FinishCrashed, WorkerInv, Decided
  <2>6. CancelInv'
    <3>1. NothingStarted(mem) => NothingStarted(mem')
      BY <2>1 DEF NothingStarted
    <3>2. disk' = mem' \/ disk' = disk
      BY <1>11 DEF FinishCrashed, Flush
    <3> QED BY <1>11, <2>1, <3>1, <3>2 DEF FinishCrashed, CancelInv
  <2> QED BY <1>t, <2>3, <2>5, <2>6
<1> QED
  BY <1>1, <1>2, <1>3, <1>4, <1>5, <1>6, <1>7, <1>8, <1>9, <1>10, <1>11 DEF Worker


LEMMA EnvironmentInductive == IInv /\ Environment => IInv'
<1> SUFFICES ASSUME IInv, Environment PROVE IInv'
  OBVIOUS
<1> USE DEF IInv
<1>t. TypeOK'
  BY EnvironmentType
<1>1. CASE Exit \/ Crash \/ PidRecycled \/ PidFreed
  <2>1. UNCHANGED <<workVars, cancelVars, diskVars, readVars>> /\ proc' # "alive"
    BY <1>1 DEF Exit, Crash, PidRecycled, PidFreed
  <2>2. WorkerInv' /\ CancelInv'
    BY <2>1 DEF WorkerInv, CancelInv
  <2>3. ManifestInv' /\ PidInv'
    BY <2>1 DEF ManifestInv, PidInv
  <2> QED BY <1>t, <2>2, <2>3
<1>2. CASE RequestCancel
  <2>1. WorkerInv' /\ ManifestInv' /\ PidInv'
    BY <1>2 DEF RequestCancel, WorkerInv, ManifestInv, PidInv
  <2>2. wpc = "queued" => NothingStarted(mem) /\ mem.status # "passed"
    BY StagesAssumption DEF WorkerInv, NothingStarted, Stages
  <2>3. CancelInv'
    BY <1>2, <2>2 DEF RequestCancel, CancelInv
  <2> QED BY <1>t, <2>1, <2>3
<1>3. CASE Tick
  <2>1. WorkerInv' /\ ManifestInv' /\ CancelInv'
    BY <1>3 DEF Tick, WorkerInv, ManifestInv, CancelInv
  <2>2. \A a \in Ages : a > Ceiling => Older(a) = a
    BY ClockAssumption DEF Older, Ages
  <2>3. PidInv'
    BY <1>3, <2>2 DEF Tick, PidInv, TypeOK
  <2> QED BY <1>t, <2>1, <2>3
<1> QED BY <1>1, <1>2, <1>3 DEF Environment

\* What a reader writes for an abandoned run is closed, blames the stage it
\* found in flight and adds no stage.
LEMMA InterruptedIsClosed ==
  ASSUME NEW m \in Manifest, m.status \in Active, Plausible(m)
  PROVE  /\ Interrupted(m).status = "interrupted"
         /\ WellClosed(Interrupted(m))
         /\ NothingStarted(m) => NothingStarted(Interrupted(m))
<1> DEFINE first == FirstStage(m, "running")
<1>1. first \in 0..NStages /\ (first # 0 => m.stages[first] = "running")
  BY FirstStageFinds
<1>2. /\ Interrupted(m).status = "interrupted"
      /\ Interrupted(m).failure = "interrupted"
      /\ Interrupted(m).failedStage = first
      /\ Interrupted(m).stages = [s \in Stages |-> IF m.stages[s] = "running" THEN "failed"
                                                   ELSE m.stages[s]]
  BY DEF Interrupted, Manifest, Plausible
<1> HIDE DEF first
<1> QED BY <1>1, <1>2, StagesAssumption DEF WellClosed, NothingStarted, Stages

LEMMA ReaderInductive == \A r \in Readers : IInv /\ Reader(r) => IInv'
<1> SUFFICES ASSUME NEW r \in Readers, IInv, Reader(r) PROVE IInv'
  OBVIOUS
<1> USE DEF IInv
<1>t. TypeOK'
  BY ReaderType
<1>w. WorkerInv' /\ UNCHANGED <<workVars, cancelVars, procVars>>
  BY DEF WorkerInv, Reader, Load, Judge, Condemn, CondemnFails
<1>n. /\ Plausible(NewManifest) /\ NewManifest.status = "pending"
      /\ NothingStarted(NewManifest)
  BY DEF Plausible, NewManifest, NothingStarted, Active, Terminal, Decided
<1>f. ASSUME Forget(r)
      PROVE  \A q \in Readers :
               IF q = r THEN rpc'[q] = "idle" /\ copy'[q] = NewManifest
               ELSE rpc'[q] = rpc[q] /\ copy'[q] = copy[q] /\ copyAge'[q] = copyAge[q]
  BY <1>f DEF Forget, TypeOK
<1>1. CASE Load(r)
  <2>1. Plausible(disk) /\ (disk.status = "running" => mem.status # "pending")
    BY <1>1 DEF Load, ManifestInv, Active
  <2>2. ManifestInv'
    BY <1>1, <2>1 DEF Load, ManifestInv, TypeOK
  <2>3. CancelInv'
    BY <1>1 DEF Load, CancelInv, TypeOK
  <2>4. PidInv'
    BY <1>1 DEF Load, PidInv, TypeOK
  <2> QED BY <1>t, <1>w, <2>2, <2>3, <2>4
<1>2. CASE Judge(r)
  <2>1. CASE Forget(r) /\ UNCHANGED diskVars
    BY <1>t, <1>w, <1>n, <1>f, <2>1 DEF ManifestInv, CancelInv, PidInv, Active
  <2>2. CASE IsAbandoned(copy[r], copyAge[r])
    <3>1. /\ rpc' = [rpc EXCEPT ![r] = "condemned"]
          /\ UNCHANGED <<copy, copyAge, diskVars>>
      BY <1>2, <2>2 DEF Judge
    <3>2. proc = "alive" => copyAge[r] > Ceiling /\ copy[r].status = "running"
      BY <2>2 DEF IsAbandoned, ProcessAlive, ManifestInv, Active
    <3>3. ManifestInv' /\ CancelInv'
      BY <1>w, <3>1 DEF ManifestInv, CancelInv
    <3>4. PidInv'
      BY <1>w, <3>1, <3>2 DEF PidInv, TypeOK
    <3> QED BY <1>t, <1>w, <3>3, <3>4
  <2> QED BY <1>2, <2>1, <2>2 DEF Judge
<1>3. CASE Condemn(r)
  <2>1. /\ disk'.status = "interrupted" /\ WellClosed(disk')
        /\ NothingStarted(copy[r]) => NothingStarted(disk')
        /\ diskAge' = copyAge[r] /\ rpc[r] = "condemned"
    BY <1>3, InterruptedIsClosed DEF Condemn, ManifestInv, TypeOK
  <2>2. ManifestInv'
    BY <1>3, <1>w, <1>n, <1>f, <2>1 DEF Condemn, ManifestInv, Active
  <2>3. CancelInv'
    BY <1>3, <1>w, <1>n, <1>f, <2>1 DEF Condemn, CancelInv
  <2>4. PidInv'
    BY <1>3, <1>w, <1>f, <2>1 DEF Condemn, PidInv, ManifestInv
  <2> QED BY <1>t, <1>w, <2>2, <2>3, <2>4
<1>4. CASE CondemnFails(r)
  BY <1>4, <1>t, <1>w, <1>n, <1>f DEF CondemnFails, ManifestInv, CancelInv, PidInv, Active
<1> QED BY <1>1, <1>2, <1>3, <1>4 DEF Reader

LEMMA NextInductive == IInv /\ [Next]_vars => IInv'
<1> SUFFICES ASSUME IInv, [Next]_vars PROVE IInv'
  OBVIOUS
<1>1. CASE UNCHANGED vars
  BY <1>1 DEF vars, IInv, TypeOK, WorkerInv, ManifestInv, CancelInv, PidInv
<1> QED BY <1>1, WorkerInductive, EnvironmentInductive, ReaderInductive DEF Next

\* The strengthened invariant holds in every behaviour.
THEOREM Invariance == Spec => []IInv
BY InitInductive, NextInductive, PTL DEF Spec

-----------------------------------------------------------------------------
(* The safety properties.                                                  *)

\* A manifest that says the run is over has no stage in flight and says why
\* the run went wrong, whoever wrote it last.
THEOREM TerminalIsClosedAlways == Spec => []TerminalIsClosed
<1>1. IInv => TerminalIsClosed
  BY DEF IInv, ManifestInv, Plausible, TerminalIsClosed
<1> QED BY <1>1, Invariance, PTL

\* A manifest that says "passed" was earned by the run itself, stage by stage.
THEOREM PassedIsEarnedAlways == Spec => []PassedIsEarned
<1>1. IInv => PassedIsEarned
  BY DEF IInv, ManifestInv, WorkerInv, Plausible, PassedIsEarned, Decided
<1> QED BY <1>1, Invariance, PTL

\* A cancellation requested while the run was queued is not lost unless a look
\* at the sentinel raises.
THEOREM QueuedCancelStopsAlways == Spec => []QueuedCancelStops
<1>1. IInv => QueuedCancelStops
  BY DEF IInv, CancelInv, ManifestInv, NothingStarted, QueuedCancelStops
<1> QED BY <1>1, Invariance, PTL

\* A run whose process lives is reported interrupted only past the ceiling,
\* and never while it is queued.
THEOREM LivePidBuysTimeAlways == Spec => []LivePidBuysTime
<1>1. IInv => LivePidBuysTime
  BY DEF IInv, PidInv, LivePidBuysTime
<1> QED BY <1>1, Invariance, PTL

\* A cancellation requested a poll interval ago stops the run before its next
\* stage, unless a look at the sentinel raised since.
THEOREM NoStageAfterCancelAlways == Spec => NoStageAfterCancel
<1> DEFINE A == \A s \in Stages : ripe /\ ripe' /\ mem.stages[s] = "none" => mem'.stages[s] = "none"
<1>1. IInv /\ [Next]_vars => [A]_vars
  <2> SUFFICES ASSUME IInv, Next, NEW s \in Stages, ripe, ripe', mem.stages[s] = "none"
               PROVE  mem'.stages[s] = "none"
    OBVIOUS
  <2>1. wpc = "body" => mem.stages[current] = "running"
    BY DEF IInv, TypeOK, WorkerInv
  <2>2. CASE Worker
    <3>1. CASE BeginStage
      BY <3>1 DEF BeginStage, PolledInVain, CancelSeen, IInv, CancelInv
    <3>2. CASE Start \/ Finish \/ FinishCrashed
      BY <3>2 DEF Start, Finish, FinishCrashed, IInv, TypeOK, Manifest
    <3>3. CASE CancelInBody \/ EscapeFromStage
      BY <2>1, <3>3 DEF CancelInBody, EscapeFromStage, IInv, TypeOK, Manifest
    <3>4. ASSUME NEW st \in {"ok", "skipped", "failed"}, EndStage(st)
          PROVE  mem'.stages[s] = "none"
      BY <2>1, <3>4 DEF EndStage, IInv, TypeOK, Manifest
    <3>5. CASE CancelAtBoundary \/ Progress \/ CheckInBody \/ EscapeBetweenStages
      BY <3>5 DEF CancelAtBoundary, Progress, CheckInBody, EscapeBetweenStages
    <3> QED BY <2>2, <3>1, <3>2, <3>3, <3>4, <3>5 DEF Worker
  <2>3. CASE Environment \/ \E r \in Readers : Reader(r)
    BY <2>3 DEF Environment, Exit, Crash, PidRecycled, PidFreed, RequestCancel, Tick,
                Reader, Load, Judge, Condemn, CondemnFails
  <2> QED BY <2>2, <2>3 DEF Next
<1>2. Spec => [][A]_vars
  BY <1>1, Invariance, PTL DEF Spec
<1> QED BY <1>2 DEF NoStageAfterCancel

\* Once the process is dead and the manifest says the run is over, nobody
\* makes it look active again.
THEOREM SettledAfterDeathAlways == Spec => SettledAfterDeath
<1> DEFINE A == proc # "alive" /\ disk.status \in Terminal => disk'.status \in Terminal
<1>1. TypeOK /\ [Next]_vars => [A]_vars
  <2> SUFFICES ASSUME TypeOK, Next, proc # "alive", disk.status \in Terminal
               PROVE  disk'.status \in Terminal
    OBVIOUS
  <2>1. ~Worker
    BY DEF Worker, Working, Start, BeginStage, CancelAtBoundary, Progress, CheckInBody,
           CancelInBody, EndStage, EscapeFromStage, EscapeBetweenStages, Finish,
           FinishCrashed
  <2>2. CASE Environment
    BY <2>2 DEF Environment, Exit, Crash, PidRecycled, PidFreed, RequestCancel, Tick
  <2>3. ASSUME NEW r \in Readers, Reader(r)
        PROVE  disk'.status \in Terminal
    <3>1. CASE Condemn(r)
      BY <3>1 DEF Condemn, Interrupted, TypeOK, Manifest, Terminal
    <3>2. CASE Load(r) \/ Judge(r) \/ CondemnFails(r)
      BY <3>2 DEF Load, Judge, CondemnFails
    <3> QED BY <2>3, <3>1, <3>2 DEF Reader
  <2> QED BY <2>1, <2>2, <2>3 DEF Next
<1>2. Spec => [][A]_vars
  BY <1>1, TypeCorrect, PTL DEF Spec
<1> QED BY <1>2 DEF SettledAfterDeath


-----------------------------------------------------------------------------
(* The worker implements RunOutcome.                                       *)

LEMMA VerdictOfStatus ==
  /\ VerdictOf("none") = "open" /\ VerdictOf("running") = "open"
  /\ VerdictOf("cancelled") = "open" /\ VerdictOf("failed") = "bad"
  /\ VerdictOf("ok") = "good" /\ VerdictOf("skipped") = "good"
BY DEF VerdictOf

\* The verdicts RunOutcome sees in the worker's manifest.
Judged == [s \in Stages |-> VerdictOf(mem.stages[s])]

\* A step that leaves the worker's manifest alone is a stutter, and so is one
\* that moves a stage between two open statuses.
LEMMA OpenToOpenStutters ==
  ASSUME TypeOK, NEW st \in {"running", "cancelled"}, VerdictOf(mem.stages[current]) = "open",
         mem' = [mem EXCEPT !.stages[current] = st]
  PROVE  UNCHANGED <<mem.status, Judged>>
<1>1. mem'.status = mem.status /\ mem'.stages = [mem.stages EXCEPT ![current] = st]
  BY DEF TypeOK, Manifest
<1>2. \A s \in Stages : VerdictOf(mem'.stages[s]) = VerdictOf(mem.stages[s])
  BY <1>1, VerdictOfStatus DEF TypeOK, Manifest
<1> QED BY <1>1, <1>2 DEF Judged

\* A stage that ends is recorded by RunOutcome, in order and once.
LEMMA EndIsRecorded ==
  ASSUME IInv, wpc = "body", NEW st \in {"ok", "skipped", "failed"},
         mem' = [mem EXCEPT !.stages[current] = st]
  PROVE  Outcome!Record(current, VerdictOf(st))
<1> USE DEF IInv
<1>1. mem'.status = mem.status /\ mem'.stages = [mem.stages EXCEPT ![current] = st]
  BY DEF TypeOK, Manifest
<1>2. mem.status = "running"
  BY DEF WorkerInv, ManifestInv, Plausible, TypeOK, Manifest, Active, Terminal, Decided
<1>3. /\ VerdictOf(mem.stages[current]) = "open"
      /\ \A t \in Stages : t < current => VerdictOf(mem.stages[t]) # "open"
  BY VerdictOfStatus DEF WorkerInv, TypeOK, Closed
<1>4. Judged' = [Judged EXCEPT ![current] = VerdictOf(st)]
  BY <1>1 DEF Judged, TypeOK, Manifest
<1> QED BY <1>1, <1>2, <1>3, <1>4 DEF Outcome!Record, Outcome!Stages, Judged, Stages, TypeOK

\* Every behaviour of the run, its readers, its user and its process is a
\* behaviour of RunOutcome under the mapping.
THEOREM OutcomeDecidedOnceAlways == Spec => OutcomeDecidedOnce
<1>1. Init => Outcome!Init
  BY VerdictOfStatus DEF Init, NewManifest, Outcome!Init, Outcome!Stages, Stages
<1>2. IInv /\ [Next]_vars => [Outcome!Next]_(Outcome!ovars)
  <2> SUFFICES ASSUME IInv, [Next]_vars
               PROVE  Outcome!Next \/ UNCHANGED <<mem.status, Judged>>
    BY DEF Outcome!ovars, Judged
  <2> USE DEF IInv
  <2>r. wpc \in {"finishing", "crashed"} => mem.status = "running"
    BY DEF WorkerInv, ManifestInv, Plausible, TypeOK, Manifest, Active, Terminal, Decided
  <2>o. /\ wpc = "boundary" => VerdictOf(mem.stages[current]) = "open"
        /\ wpc = "body" => VerdictOf(mem.stages[current]) = "open"
    BY VerdictOfStatus, StagesAssumption DEF WorkerInv, TypeOK, Stages
  <2>u. mem' = mem => UNCHANGED <<mem.status, Judged>>
    BY DEF Judged
  <2>1. CASE Start
    <3>1. mem'.status = "running" /\ mem'.stages = mem.stages /\ mem.status = "pending"
      BY <2>1 DEF Start, WorkerInv, TypeOK, Manifest
    <3> QED BY <3>1 DEF Outcome!Next, Outcome!Begin
  <2>2. CASE BeginStage
    BY <2>2, <2>o, OpenToOpenStutters DEF BeginStage
  <2>3. CASE CancelInBody
    BY <2>3, <2>o, OpenToOpenStutters DEF CancelInBody
  <2>4. ASSUME NEW st \in {"ok", "skipped", "failed"}, EndStage(st)
        PROVE  Outcome!Next
    BY <2>4, EndIsRecorded, VerdictOfStatus
    DEF EndStage, Outcome!Next, Outcome!Stages, Stages, TypeOK
  <2>5. CASE EscapeFromStage
    <3>1. Outcome!Record(current, VerdictOf("ok"))
      BY <2>5, EndIsRecorded DEF EscapeFromStage
    <3> QED BY <3>1, VerdictOfStatus DEF Outcome!Next, Outcome!Stages, Stages, TypeOK
  <2>6. CASE Finish
    <3>1. mem'.status = PipelineStatus /\ mem'.stages = mem.stages
      BY <2>6 DEF Finish, TypeOK, Manifest
    <3>2. /\ PipelineStatus = "passed" => \A s \in Stages : VerdictOf(mem.stages[s]) = "good"
          /\ PipelineStatus = "failed" => \E s \in Stages : VerdictOf(mem.stages[s]) = "bad"
          /\ PipelineStatus \in {"passed", "failed", "cancelled", "error"}
      BY <2>6, VerdictOfStatus DEF Finish, PipelineStatus, WorkerInv, Closed
    <3>3. Outcome!Decide(PipelineStatus)
      BY <2>6, <2>r, <3>1, <3>2 DEF Finish, Outcome!Decide, Outcome!Stages, Stages
    <3> QED BY <3>2, <3>3 DEF Outcome!Next
  <2>7. CASE FinishCrashed
    <3>1. mem'.status = "error" /\ mem'.stages = mem.stages
      BY <2>7 DEF FinishCrashed, TypeOK, Manifest
    <3>2. Outcome!Decide("error")
      BY <2>7, <2>r, <3>1 DEF FinishCrashed, Outcome!Decide
    <3> QED BY <3>2 DEF Outcome!Next
  <2>8. CASE CancelAtBoundary \/ Progress \/ CheckInBody \/ EscapeBetweenStages
    BY <2>8, <2>u DEF CancelAtBoundary, Progress, CheckInBody, EscapeBetweenStages
  <2>9. CASE Environment \/ (\E r \in Readers : Reader(r)) \/ UNCHANGED vars
    <3>1. mem' = mem
      BY <2>9 DEF Environment, Exit, Crash, PidRecycled, PidFreed, RequestCancel, Tick,
                  Reader, Load, Judge, Condemn, CondemnFails, vars
    <3> QED BY <3>1, <2>u
  <2> QED
    BY <2>1, <2>2, <2>3, <2>4, <2>5, <2>6, <2>7, <2>8, <2>9 DEF Next, Worker
<1> QED BY <1>1, <1>2, Invariance, PTL DEF Spec, OutcomeDecidedOnce, Outcome!Spec

=============================================================================
