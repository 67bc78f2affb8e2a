---------------------------- MODULE MCReleaseReview ----------------------------
(* Reports that differ in a few respects each from a plain one.              *)
EXTENDS ReleaseReview

MCSuites == {"firmware", "fusion", "rt_perf", "memory", "tinyml"}
MCMetrics == {"value"}
MCHint == [m \in MCMetrics |-> "lower"]

Number(value, provenance, source) ==
  [kind |-> "number", value |-> value, direction |-> "lower",
   provenance |-> provenance, source |-> source]

ArtifactOf(failed, skipped, symptoms, number) ==
  [report |->
     [suites |-> [s \in MCSuites |->
        [passed |-> s \notin failed, skipped |-> s \in skipped,
         metrics |-> IF s = "tinyml" THEN [m \in MCMetrics |-> number] ELSE << >>]],
      malformed |-> FALSE, complete |-> TRUE, declaresFailure |-> failed # {},
      target |-> "boardA"],
   setup |-> [i \in Inputs |-> "v1"], origin |-> "human", symptoms |-> symptoms]

Device(value) == Number(value, "measured", "device")
Plain == ArtifactOf({}, {}, {}, Device(10))

MCArtifacts ==
  {Plain,
   ArtifactOf({}, {}, {}, Device(12)),
   ArtifactOf({}, {}, {}, Device(9)),
   ArtifactOf({}, {}, {}, Number(10, "simulated", "unknown")),
   ArtifactOf({"rt_perf"}, {}, {"overrun"}, Device(10)),
   ArtifactOf({"rt_perf", "tinyml"}, {}, {"miss", "overrun", "rom-thin", "ram-thin"}, Device(10)),
   ArtifactOf({"fusion", "memory", "firmware"}, {}, {"roll", "rom-over", "ram-thin"}, Device(10)),
   ArtifactOf({}, {"memory"}, {"rom-thin", "unstable"}, Number(10, "measured", "host")),
   [Plain EXCEPT !.report.suites = [s \in {"tinyml"} |-> @[s]], !.report.target = "undeclared",
                 !.setup = [i \in Inputs |-> "v2"], !.origin = "ai_generated"],
   [Plain EXCEPT !.report.suites["tinyml"].metrics["value"].kind = "nan"]}

=============================================================================
