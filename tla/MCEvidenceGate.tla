----------------------------- MODULE MCEvidenceGate -----------------------------
(* Two suites, of which one has metrics to vary, and one or two metrics.     *)
EXTENDS EvidenceGate

MCValues == {-4, 0, 10, 11, 12}
MCHint == [m \in {"p99_ms", "flags"} |-> IF m = "p99_ms" THEN "lower" ELSE "info"]

Measurement(kind, value, direction, provenance, source) ==
  [kind |-> kind, value |-> value, direction |-> direction,
   provenance |-> provenance, source |-> source]

Undeclared(value) == Measurement("number", value, "undeclared", "undeclared", "undeclared")
Measured(value, direction) == Measurement("number", value, direction, "measured", "device")
NotANumber(kind) == Measurement(kind, 0, "undeclared", "undeclared", "undeclared")

\* What the metric of the first suite may look like.
Varied ==
  {Undeclared(v) : v \in {0, 10, 12}}
  \cup {Measured(v, "lower") : v \in MCValues} \cup {Measured(10, "higher"), Measured(12, "info")}
  \cup {Measurement("number", v, "lower", "measured", "host") : v \in {10, 12}}
  \cup {Measurement("number", v, "lower", "mock", "host") : v \in {10, 12}}
  \cup {Measurement("number", 10, "higher", "undeclared", "unknown"),
        Measurement("number", 10, "lower", "simulated", "device")}
  \cup {NotANumber("nan"), NotANumber("text")}

SuiteOf(metrics) == [passed |-> TRUE, skipped |-> FALSE, metrics |-> metrics]

\* Suites with that metric, alone or beside another, and suites without it.
Perf ==
  {SuiteOf([m \in {"p99_ms"} |-> entry]) : entry \in Varied}
  \cup {SuiteOf([m \in {"p99_ms", "flags"} |->
           IF m = "p99_ms" THEN Measured(10, "lower") ELSE entry]) :
         entry \in {Undeclared(10), Measured(12, "higher"), NotANumber("text")}}
  \cup {[passed |-> TRUE, skipped |-> TRUE, metrics |-> << >>],
        SuiteOf(<< >>),
        [passed |-> FALSE, skipped |-> FALSE,
         metrics |-> [m \in {"p99_ms"} |-> Measured(10, "lower")]]}

Other ==
  {SuiteOf([m \in {"p99_ms"} |-> Measured(0, "lower")]),
   [passed |-> TRUE, skipped |-> TRUE, metrics |-> << >>]}

ReportOf(suites) ==
  [suites |-> suites, malformed |-> FALSE, complete |-> TRUE,
   declaresFailure |-> FALSE, target |-> "boardA"]

Plain == ReportOf([s \in {"perf"} |-> SuiteOf([m \in {"p99_ms"} |-> Measured(10, "lower")])])

MCOffered ==
  {ReportOf([s \in {"perf"} |-> suite]) : suite \in Perf}
  \cup {ReportOf([s \in {"perf", "power"} |->
           IF s = "power" THEN other ELSE SuiteOf([m \in {"p99_ms"} |-> entry])]) :
         other \in Other, entry \in {Measured(10, "lower"), Measured(11, "lower")}}
  \cup {ReportOf(<< >>)}
  \cup {[Plain EXCEPT !.malformed = TRUE], [Plain EXCEPT !.complete = FALSE],
        [Plain EXCEPT !.declaresFailure = TRUE], [Plain EXCEPT !.target = "boardB"],
        [Plain EXCEPT !.target = "undeclared"]}

MCFindings == {{}, {"medium"}, {"high", "informational"}}

=============================================================================
