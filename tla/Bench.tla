-------------------------------- MODULE Bench --------------------------------
(***************************************************************************)
(* The measuring suites of one pipeline run, one after the other, and the  *)
(* telemetry stage behind them (Orchestrator.run, ValidationPipeline).     *)
(* The sampling thread of a power monitor may outlive its suite; the       *)
(* board's output is shared by the suites and the stage.                   *)
(***************************************************************************)
EXTENDS PowerCapture, FaultStream, DeviceLine

VARIABLE
  stage  \* the suite that runs, or the telemetry stage

vars == <<tinyVars, hilVars, lineVars, stage>>

-----------------------------------------------------------------------------

\* The suite's runner is gone with what it counted; a thread that still
\* samples keeps its monitor.
ForgetTiny ==
  /\ bench' = [model |-> "mock", origin |-> "simulator",
               monitor |-> IF sampler = "start" THEN bench.monitor ELSE "none"]
  /\ tiny' = "over" /\ invoked' = 0 /\ samples' = 0 /\ trace' = "none" /\ power' = NoResult
  /\ sampler' = IF sampler \in Ended THEN "none" ELSE sampler
  /\ UNCHANGED asked

ForgetHil ==
  /\ hil' = "over" /\ chain' = <<>> /\ taken' = 0 /\ lastT' = <<>>
  /\ emitted' = <<>> /\ dropped' = 0 /\ faulty' = FALSE

\* An exception that a suite lets through ends the suites: nothing is
\* published, and the pipeline goes on to the telemetry stage.
Abort ==
  /\ stage' = "telemetry"
  /\ wire' = "suites over"
  /\ UNCHANGED <<boardVars, rx, text, resultVars>>

Tiny ==
  /\ stage = "tinyml"
  /\ TinySteps
  /\ UNCHANGED <<hilVars, lineVars, stage>>

\* The benchmark is over, or was not selected.
AfterTiny ==
  /\ stage = "tinyml" /\ tiny \in {"load", "over", "raised"}
  /\ ForgetTiny
  /\ IF tiny = "raised" THEN Abort ELSE stage' = "hil" /\ UNCHANGED lineVars
  /\ UNCHANGED hilVars

Hil ==
  /\ stage = "hil"
  /\ HilSteps
  /\ UNCHANGED <<tinyVars, lineVars, stage>>

AfterHil ==
  /\ stage = "hil" /\ hil \in {"build", "over", "raised"}
  /\ ForgetHil
  /\ IF hil = "raised" THEN Abort
     ELSE /\ stage' = "rt" /\ wire' = "start"
          /\ UNCHANGED <<boardVars, rx, text, resultVars>>
  /\ UNCHANGED tinyVars

Profile ==
  /\ stage = "rt"
  /\ ProfileSteps
  /\ UNCHANGED <<tinyVars, hilVars, stage>>

\* The profiler is over, or was not selected.  The target is closed and the
\* report is published.
AfterProfile ==
  /\ stage = "rt" /\ wire \in {"start", "suites over"}
  /\ wire' = "suites over"
  /\ stage' = "telemetry"
  /\ timing' = NoTiming /\ since' = 0
  /\ UNCHANGED <<tinyVars, hilVars, boardVars, rx, text, rest, records>>

Telemetry ==
  /\ stage = "telemetry"
  /\ CaptureSteps
  /\ UNCHANGED <<tinyVars, hilVars, stage>>

\* What goes on beside the worker.
SamplerRuns == Sampler /\ UNCHANGED <<hilVars, lineVars, stage>>

BoardRuns == (Board \/ Reads) /\ UNCHANGED <<tinyVars, hilVars, stage>>

-----------------------------------------------------------------------------

Init ==
  /\ TinyInit /\ HilInit /\ LineInit
  /\ stage = "tinyml"

Next ==
  \/ Tiny \/ AfterTiny \/ Hil \/ AfterHil \/ Profile \/ AfterProfile \/ Telemetry
  \/ SamplerRuns \/ BoardRuns

\* Nothing is asked of the board or of the suites; the operating system runs
\* the thread, and its readings return.
Spec == Init /\ [][Next]_vars /\ WF_vars(SamplerRuns)

-----------------------------------------------------------------------------

TypeOK ==
  /\ TinyTypeOK /\ HilTypeOK /\ LineTypeOK
  /\ stage \in {"tinyml", "hil", "rt", "telemetry"}

\* What a suite passes as the device's own is of this run: the power was read
\* while the workload ran, over all its invocations, and the timing was printed
\* after this profile was started, whatever an earlier suite or run had left in
\* the buffer or on the board (TinyMLBenchmark.run, _metric_meta,
\* PowerMonitor.stop, RTProfiler._collect, SerialTarget.run_command).
DeviceResultsAreEarned == PowerIsEarned /\ TimingIsOfThisProfile

=============================================================================
