------------------------------ MODULE FaultStream ------------------------------
(***************************************************************************)
(* The hardware-in-the-loop experiment: a recorded stream of samples is    *)
(* sent through a chain of faults and scored before and after              *)
(* (HILExperiment.run, Simulator.run, the faults).                         *)
(***************************************************************************)
EXTENDS Integers, Sequences

CONSTANTS
  Times,   \* the time stamps of the recording, in order
  Chains,  \* the fault chains that may be configured
  Jitter,  \* the largest perturbation of a time stamp
  Outage   \* the time stamps for which the sensor is silent

\* That the time stamps ascend is assumed of the recording: `datasets validate`
\* reports one in which they do not (validate_recording), the experiment asks
\* nobody.
ASSUME StreamAssumption ==
  /\ Chains \subseteq Seq({"noise", "packet_loss", "jitter", "outage", "unknown"})
  /\ Times \in Seq(Nat) /\ \A i, j \in DOMAIN Times : i < j => Times[i] < Times[j]
  /\ Jitter \in Nat /\ Outage \subseteq Int

VARIABLES
  hil,      \* where the experiment is
  chain,    \* the configured faults, in order
  taken,    \* samples taken from the recording
  lastT,    \* the last time stamp that each jitter fault passed on
  emitted,  \* the time stamps that came out
  dropped,  \* samples that did not
  faulty    \* the experiment's verdict

hilVars == <<hil, chain, taken, lastT, emitted, dropped, faulty>>

-----------------------------------------------------------------------------

Faults == {"noise", "packet_loss", "jitter", "outage", "unknown"}
Before == -100
Gone == [t |-> Before, here |-> FALSE]
Sample(t) == [t |-> t, here |-> TRUE]

\* Faulty variant: the time stamp is perturbed and passed on.
JitteredFreely(t, last, by) == t + by

\* Time stamps stay strictly increasing.
Jittered(t, last, by) ==
  IF t + by > last THEN t + by ELSE last + 1

\* One fault on one sample; noise changes values, which are not modelled.
Apply(i, sample, loses, by) ==
  CASE chain[i] = "packet_loss" -> IF i \in loses THEN Gone ELSE sample
    [] chain[i] = "outage" -> IF sample.t \in Outage THEN Gone ELSE sample
    [] chain[i] = "jitter" -> Sample(Jittered(sample.t, lastT[i], by[i]))
    [] OTHER -> sample

\* The sample after the first i faults; a dropped one is not passed on.
Through(t, loses, by) ==
  LET after[i \in 0..Len(chain)] ==
        IF i = 0 THEN Sample(t)
        ELSE IF after[i - 1].here THEN Apply(i, after[i - 1], loses, by)
        ELSE Gone
  IN after

\* A fault the registry does not have raises, outside of any handler.
BuildFaults ==
  /\ hil = "build"
  /\ chain' \in Chains
  /\ lastT' = [i \in DOMAIN chain' |-> Before]
  /\ hil' = IF "unknown" \in {chain'[i] : i \in DOMAIN chain'} THEN "raised" ELSE "stream"
  /\ UNCHANGED <<taken, emitted, dropped, faulty>>

\* No recording: the experiment fails without one.
NoRecording ==
  /\ hil = "build"
  /\ hil' = "over"
  /\ UNCHANGED <<chain, taken, lastT, emitted, dropped, faulty>>

NextSample ==
  /\ hil = "stream" /\ taken < Len(Times)
  /\ taken' = taken + 1
  /\ \E loses \in SUBSET (DOMAIN chain), by \in [DOMAIN chain -> (-Jitter)..Jitter] :
       LET after == Through(Times[taken + 1], loses, by)
           out == after[Len(chain)] IN
       /\ IF out.here THEN emitted' = Append(emitted, out.t) /\ UNCHANGED dropped
          ELSE dropped' = dropped + 1 /\ UNCHANGED emitted
       /\ lastT' = [i \in DOMAIN chain |->
                      IF chain[i] = "jitter" /\ after[i].here THEN after[i].t ELSE lastT[i]]
  /\ UNCHANGED <<hil, chain, faulty>>

\* The error against the reference, where the recording has one, is within
\* the limit or not.
JudgeHil ==
  /\ hil = "stream" /\ taken = Len(Times)
  /\ hil' = "over"
  /\ \E accurate \in BOOLEAN : faulty' = (emitted # <<>> /\ accurate)
  /\ UNCHANGED <<chain, taken, lastT, emitted, dropped>>

\* The filter cannot be built, or a sample lacks a field that it reads.
ScoreRaises ==
  /\ hil = "stream" /\ taken = Len(Times)
  /\ hil' = "raised"
  /\ UNCHANGED <<chain, taken, lastT, emitted, dropped, faulty>>

HilSteps == BuildFaults \/ NoRecording \/ NextSample \/ JudgeHil \/ ScoreRaises

HilInit ==
  /\ hil = "build"
  /\ chain = <<>> /\ taken = 0 /\ lastT = <<>> /\ emitted = <<>> /\ dropped = 0
  /\ faulty = FALSE

-----------------------------------------------------------------------------

HilTypeOK ==
  /\ hil \in {"build", "stream", "over", "raised"}
  /\ chain \in Seq(Faults)
  /\ taken \in 0..Len(Times) /\ lastT \in [DOMAIN chain -> Int]
  /\ emitted \in Seq(Int) /\ dropped \in 0..Len(Times)
  /\ faulty \in BOOLEAN

\* Whatever the faults and their order: the time stamps that come out are
\* strictly increasing, which the filter's time steps depend on, every sample
\* is accounted for, and an experiment that lost all of them did not pass
\* (TimingJitter.apply, Simulator.stream, HILExperiment.run).
StreamIsSound ==
  /\ \A i, j \in DOMAIN emitted : i < j => emitted[i] < emitted[j]
  /\ Len(emitted) + dropped = taken
  /\ faulty => emitted # <<>>

=============================================================================
