----------------------------- MODULE PowerCapture -----------------------------
(***************************************************************************)
(* The TinyML benchmark and the power monitor it brackets its workload     *)
(* with (TinyMLBenchmark.run).                                             *)
(*                                                                         *)
(* The INA226 and the PPK2 are sampled by a thread of the monitor; stop    *)
(* asks the thread to end, waits two seconds at most, and takes the        *)
(* samples there are.  The simulated monitor makes its samples up in stop. *)
(***************************************************************************)
EXTENDS Integers

CONSTANTS
  Warmup,     \* invocations before the timed ones
  Iterations  \* timed invocations asked for

ASSUME WorkloadAssumption == Warmup \in Nat /\ Iterations \in Nat \ {0}

VARIABLES
  bench,    \* what was configured: the model runtime and the power monitor
  tiny,     \* where the benchmark is
  invoked,  \* invocations so far
  sampler,  \* the monitor's thread
  asked,    \* the thread was asked to end (_stop_event)
  samples,  \* how many readings the monitor has, told apart up to two
  trace,    \* what stop returned
  power     \* the benchmark's result

tinyVars == <<bench, tiny, invoked, sampler, asked, samples, trace, power>>

-----------------------------------------------------------------------------

Monitors == {"none", "sim", "ina226", "ppk2"}
Threaded == {"ina226", "ppk2"}

\* measurement_origin: a mock bus or transport is a simulator.
Bench == [model : {"mock", "real"}, monitor : Monitors, origin : {"device", "simulator"}]

NoResult == [passed |-> FALSE, origin |-> "none", energy |-> "none"]

Ended == {"none", "ended", "died"}

TinyOver == tiny \in {"over", "raised"}

\* The benchmark ends with a verdict of its own.
Returns(result) == tiny' = "over" /\ power' = result

-----------------------------------------------------------------------------

\* The model cannot be loaded or does not survive the first inference.
ModelFails ==
  /\ tiny = "load"
  /\ Returns(NoResult)
  /\ UNCHANGED <<bench, invoked, sampler, asked, samples, trace>>

LoadModel ==
  /\ tiny = "load"
  /\ tiny' = "monitor"
  /\ UNCHANGED <<bench, invoked, sampler, asked, samples, trace, power>>

\* build_power_monitor or start raises: there is nothing to stop.
MonitorFails ==
  /\ tiny = "monitor" /\ bench.monitor # "none"
  /\ Returns(NoResult)
  /\ UNCHANGED <<bench, invoked, sampler, asked, samples, trace>>

StartMonitor ==
  /\ tiny = "monitor"
  /\ sampler' = IF bench.monitor \in Threaded THEN "start" ELSE "none"
  /\ tiny' = "work"
  /\ UNCHANGED <<bench, invoked, asked, samples, trace, power>>

\* Faulty variant: one invocation too many.
InvokeOnceMore ==
  /\ tiny = "work" /\ invoked <= Warmup + Iterations
  /\ invoked' = invoked + 1
  /\ UNCHANGED <<bench, tiny, sampler, asked, samples, trace, power>>

Invoke ==
  /\ tiny = "work" /\ invoked < Warmup + Iterations
  /\ invoked' = invoked + 1
  /\ UNCHANGED <<bench, tiny, sampler, asked, samples, trace, power>>

\* Faulty variant: the monitor is stopped when the workload went well only.
EndWorkUnguarded ==
  /\ tiny = "work"
  /\ \/ tiny' = "failed" /\ UNCHANGED asked
     \/ invoked = Warmup + Iterations /\ tiny' = "stop" /\ asked' = TRUE
  /\ UNCHANGED <<bench, invoked, sampler, samples, trace, power>>

\* The workload is over, or an invocation raised.  Either way a monitor that
\* was started is told to stop.
EndWork ==
  /\ tiny = "work"
  /\ tiny' \in {"stop after failure"} \cup (IF invoked = Warmup + Iterations THEN {"stop"} ELSE {})
  /\ asked' = (bench.monitor # "none")
  /\ UNCHANGED <<bench, invoked, sampler, samples, trace, power>>

Stopping == tiny \in {"stop", "stop after failure"}

\* join returned: the thread ended, or two seconds are over.  Without any
\* sample the INA226 is read once more, which may raise.
TakeTrace(t) ==
  CASE bench.monitor = "none" -> t = "none"
    [] bench.monitor = "sim" -> t = "made"
    [] samples > 0 -> t = "window"
    [] bench.monitor = "ina226" -> t \in {"point", "raised"}
    [] OTHER -> t = "empty"

Stop ==
  /\ Stopping
  /\ trace' \in {t \in {"none", "made", "window", "point", "empty", "raised"} : TakeTrace(t)}
  /\ tiny' = IF tiny = "stop" /\ trace' # "raised" THEN "judge" ELSE "failed"
  /\ UNCHANGED <<bench, invoked, sampler, asked, samples, power>>

Failed ==
  /\ tiny = "failed"
  /\ Returns(NoResult)
  /\ UNCHANGED <<bench, invoked, sampler, asked, samples, trace>>

\* The statistics taken after the window invoke the model again, outside of
\* any handler.
ExtrasRaise ==
  /\ tiny = "judge"
  /\ tiny' = "raised"
  /\ UNCHANGED <<bench, invoked, sampler, asked, samples, trace, power>>

\* No samples are no evidence.  Energy per inference is the monitor's only
\* when a real model was run.
PowerVerdict(origin, energy) ==
  IF trace = "empty" THEN NoResult
  ELSE [passed |-> invoked - Warmup = Iterations, origin |-> origin, energy |-> energy]

JudgeTiny ==
  /\ tiny = "judge"
  /\ LET origin == IF trace = "none" THEN "none" ELSE bench.origin IN
     Returns(PowerVerdict(origin, IF origin # "none" /\ bench.model = "mock" THEN "mock" ELSE origin))
  /\ UNCHANGED <<bench, invoked, sampler, asked, samples, trace>>

-----------------------------------------------------------------------------
(* The monitor's thread.                                                   *)

\* START_MEAS is written outside of any handler.
SamplerStarts ==
  /\ sampler = "start"
  /\ sampler' \in IF bench.monitor = "ppk2" THEN {"poll", "died"} ELSE {"poll"}
  /\ UNCHANGED <<bench, tiny, invoked, asked, samples, trace, power>>

SamplerPolls ==
  /\ sampler = "poll"
  /\ sampler' = IF asked THEN "ended" ELSE "read"
  /\ UNCHANGED <<bench, tiny, invoked, asked, samples, trace, power>>

\* A reading is appended, or it failed or brought nothing.
SamplerReads ==
  /\ sampler = "read"
  /\ samples' \in {samples, IF samples < 2 THEN samples + 1 ELSE samples}
  /\ sampler' = "poll"
  /\ UNCHANGED <<bench, tiny, invoked, asked, trace, power>>

Sampler == SamplerStarts \/ SamplerPolls \/ SamplerReads

TinySteps ==
  \/ ModelFails \/ LoadModel \/ MonitorFails \/ StartMonitor
  \/ Invoke \/ EndWork \/ Stop \/ Failed \/ ExtrasRaise \/ JudgeTiny

TinyInit ==
  /\ bench \in {b \in Bench : b.monitor \in {"none", "sim"} => b.origin = "simulator"}
  /\ tiny = "load" /\ invoked = 0
  /\ sampler = "none" /\ asked = FALSE /\ samples = 0
  /\ trace = "none" /\ power = NoResult

-----------------------------------------------------------------------------

TinyTypeOK ==
  /\ bench \in Bench
  /\ tiny \in {"load", "monitor", "work", "stop", "stop after failure", "failed", "judge",
               "over", "raised"}
  /\ invoked \in 0..(Warmup + Iterations)
  /\ sampler \in {"none", "start", "poll", "read", "ended", "died"}
  /\ asked \in BOOLEAN /\ samples \in 0..2
  /\ trace \in {"none", "made", "window", "point", "empty", "raised"}
  /\ power \in [passed : BOOLEAN, origin : {"none", "device", "simulator"},
                energy : {"none", "mock", "device", "simulator"}]

\* A benchmark that passed made all its timed invocations, and the power it
\* calls the device's was read by the thread between start and stop, or by the
\* INA226's one reading in stop; energy is the device's with a real model only.
PowerIsEarned ==
  power.passed =>
    /\ invoked = Warmup + Iterations
    /\ power.origin = "device" =>
         \/ trace = "window" /\ samples > 0
         \/ trace = "point" /\ bench.monitor = "ina226"
    /\ power.energy = "device" => bench.model = "real"

\* A sampling thread that was started comes to its end once the benchmark is
\* over, however that ended (PowerMonitor.stop in a finally clause).
SamplerIsReleased == TinyOver ~> sampler \in Ended

=============================================================================
