------------------------------- MODULE RunOutcome -------------------------------
(***************************************************************************)
(* What one recorded validation run promises to whoever watches it: it is  *)
(* queued, it runs its stages, each stage gets one verdict that is never   *)
(* revised, and the run ends with one outcome that is never revised and    *)
(* that the verdicts justify.  RunLifecycle is shown to implement this.    *)
(***************************************************************************)
EXTENDS Naturals

CONSTANT NStages

VARIABLES
  outcome,   \* the run's status, as its own process knows it
  verdicts   \* one verdict per pipeline stage

ovars == <<outcome, verdicts>>

Stages == 1..NStages
Outcomes == {"pending", "running", "passed", "failed", "cancelled", "error"}
Verdicts == {"open", "good", "bad"}

Init ==
  /\ outcome = "pending"
  /\ verdicts = [s \in Stages |-> "open"]

Begin ==
  /\ outcome = "pending"
  /\ outcome' = "running"
  /\ UNCHANGED verdicts

\* Stage s is judged once, and only after every stage before it.
Record(s, v) ==
  /\ outcome = "running"
  /\ verdicts[s] = "open"
  /\ \A t \in Stages : t < s => verdicts[t] # "open"
  /\ verdicts' = [verdicts EXCEPT ![s] = v]
  /\ UNCHANGED outcome

\* The run ends: a pass needs every stage good, a failure needs a bad stage.
\* A cancellation or a crash of the harness may end it at any point.
Decide(o) ==
  /\ outcome = "running"
  /\ o = "passed" => \A s \in Stages : verdicts[s] = "good"
  /\ o = "failed" => \E s \in Stages : verdicts[s] = "bad"
  /\ outcome' = o
  /\ UNCHANGED verdicts

Next ==
  \/ Begin
  \/ \E s \in Stages, v \in {"good", "bad"} : Record(s, v)
  \/ \E o \in {"passed", "failed", "cancelled", "error"} : Decide(o)

Spec == Init /\ [][Next]_ovars

=============================================================================
