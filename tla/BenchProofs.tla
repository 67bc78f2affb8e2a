------------------------------ MODULE BenchProofs ------------------------------
(***************************************************************************)
(* What Bench promises for every workload, recording, fault chain and      *)
(* number of printed lines, with proofs.                                   *)
(*                                                                         *)
(* Each of the three suites has an inductive invariant of its own, which   *)
(* its own steps keep and the steps of the others leave alone; TypeOK and  *)
(* the three properties are their consequences.  The chain of faults and   *)
(* the parser are recursive functions.  What they do is shown by induction *)
(* on the place in the chain or the text, stated for a set (UpTo), after   *)
(* showing that there is such a function (RecursionExists).                *)
(***************************************************************************)
EXTENDS Bench, SequenceTheorems, WellFoundedInduction, TLAPS

-----------------------------------------------------------------------------
(* Induction and recursion up to a number.                                 *)

LEMMA UpTo ==
  ASSUME NEW n \in Nat, NEW P, 0 \in P, \A i \in 1..n : i - 1 \in P => i \in P
  PROVE  0..n \subseteq P
<1> DEFINE T == (0..n) \ P
           R == OpToRel(<, Nat)
<1> SUFFICES ASSUME T # {} PROVE FALSE
  OBVIOUS
<1>1. \A x, y \in Nat : y < x => <<y, x>> \in R
  BY DEF OpToRel
<1>2. \E x \in T : \A y \in T : ~(<<y, x>> \in R)
  <2>1. IsWellFoundedOn(R, Nat)
    BY NatLessThanWellFounded
  <2>2. T \subseteq Nat
    OBVIOUS
  <2> HIDE DEF T, R
  <2> QED
    BY <2>1, <2>2, WFMin
<1>3. PICK x \in T : \A y \in T : ~(y < x)
  <2> T \subseteq Nat
    OBVIOUS
  <2> HIDE DEF T, R
  <2> QED
    BY <1>1, <1>2
<1>4. x \in 1..n /\ x - 1 \in 0..n /\ x - 1 < x
  OBVIOUS
<1>5. x - 1 \in P
  BY <1>3, <1>4
<1> QED
  BY <1>4, <1>5

\* A set of places that is not empty has a last one.
LEMMA LastOne ==
  ASSUME NEW n \in Nat, NEW S, S \subseteq 1..n, S # {}
  PROVE  \E m \in S : \A j \in S : j <= m
<1> DEFINE Last(k) == \E m \in S : m <= k /\ \A j \in S : j <= k => j <= m
           P == {k \in 0..n : (\E j \in S : j <= k) => Last(k)}
<1>1. 0 \in P
  OBVIOUS
<1>2. ASSUME NEW k \in 1..n, k - 1 \in P PROVE k \in P
  <2>1. CASE k \in S
    BY <2>1
  <2>2. CASE k \notin S
    <3>1. \A j \in S : j <= k <=> j <= k - 1
      BY <2>2
    <3> QED
      BY <1>2, <3>1
  <2> QED
    BY <2>1, <2>2
<1>3. n \in P
  <2>1. 0..n \subseteq P
    <3> HIDE DEF P
    <3> QED
      BY <1>1, <1>2, UpTo
  <2> QED
    BY <2>1
<1>4. \A j \in S : j <= n
  OBVIOUS
<1>5. PICK j \in S : j <= n
  BY <1>4
<1>6. Last(n)
  BY <1>3, <1>5
<1> QED
  BY <1>4, <1>6

\* A function with this value at 0 and these steps.
Recurs(f, n, start, step) ==
  f = [i \in 0..n |-> IF i = 0 THEN start ELSE step[<<i, f[i - 1]>>]]

LEMMA RecursionExists ==
  ASSUME NEW n \in Nat, NEW start, NEW step
  PROVE  \E f : Recurs(f, n, start, step)
<1> DEFINE P == {k \in 0..n : \E f : Recurs(f, k, start, step)}
<1>1. 0 \in P
  <2> DEFINE f == [i \in 0..0 |-> start]
  <2>1. Recurs(f, 0, start, step)
    BY DEF Recurs
  <2> QED
    BY <2>1
<1>2. ASSUME NEW k \in 1..n, k - 1 \in P PROVE k \in P
  <2>1. PICK f : Recurs(f, k - 1, start, step)
    BY <1>2
  <2> DEFINE g == [i \in 0..k |-> IF i < k THEN f[i] ELSE step[<<k, f[k - 1]>>]]
  <2>2. \A i \in 0..(k - 1) : f[i] = IF i = 0 THEN start ELSE step[<<i, f[i - 1]>>]
    BY <2>1 DEF Recurs
  <2>3. ASSUME NEW i \in 0..k
        PROVE  g[i] = IF i = 0 THEN start ELSE step[<<i, g[i - 1]>>]
    <3>1. CASE i < k
      <4>1. i \in 0..(k - 1) /\ g[i] = f[i] /\ (i # 0 => g[i - 1] = f[i - 1])
        BY <3>1
      <4> HIDE DEF g
      <4> QED
        BY <2>2, <4>1
    <3>2. CASE i = k
      <4>1. k # 0 /\ g[i] = step[<<k, f[k - 1]>>] /\ g[i - 1] = f[k - 1]
        BY <3>2
      <4> HIDE DEF g
      <4> QED
        BY <3>2, <4>1
    <3> QED
      BY <3>1, <3>2
  <2>4. g = [i \in 0..k |-> g[i]]
    OBVIOUS
  <2>5. Recurs(g, k, start, step)
    <3> HIDE DEF g
    <3> QED
      BY <2>3, <2>4 DEF Recurs
  <2> QED
    BY <2>5
<1>3. 0..n \subseteq P
  <2> HIDE DEF P
  <2> QED
    BY <1>1, <1>2, UpTo
<1> QED
  BY <1>3

\* Its values, when the steps stay within a set.
LEMMA RecursionTyped ==
  ASSUME NEW n \in Nat, NEW S, NEW start \in S, NEW step,
         \A i \in 1..n, s \in S : step[<<i, s>>] \in S,
         NEW f, Recurs(f, n, start, step)
  PROVE  /\ DOMAIN f = 0..n /\ f[0] = start
         /\ \A i \in 1..n : f[i] = step[<<i, f[i - 1]>>]
         /\ \A i \in 0..n : f[i] \in S
<1> DEFINE P == {i \in 0..n : f[i] \in S}
<1>1. /\ DOMAIN f = 0..n
      /\ \A i \in 0..n : f[i] = IF i = 0 THEN start ELSE step[<<i, f[i - 1]>>]
  BY DEF Recurs
<1>2. f[0] = start
  <2>1. 0 \in 0..n
    OBVIOUS
  <2> QED
    BY <1>1, <2>1
<1>3. ASSUME NEW i \in 1..n PROVE f[i] = step[<<i, f[i - 1]>>] /\ i \in 0..n
  BY <1>1
<1>4. 0 \in P
  BY <1>2
<1>5. ASSUME NEW i \in 1..n, i - 1 \in P PROVE i \in P
  BY <1>3, <1>5
<1>6. 0..n \subseteq P
  <2> HIDE DEF P
  <2> QED
    BY <1>4, <1>5, UpTo
<1> QED
  BY <1>1, <1>2, <1>3, <1>6

-----------------------------------------------------------------------------
(* The benchmark and its power monitor.                                    *)

Simulated == bench.monitor \in {"none", "sim"} => bench.origin = "simulator"

\* Where the trace came from.
TraceFits ==
  /\ trace = "window" => samples > 0
  /\ trace = "point" => bench.monitor = "ina226"
  /\ trace = "made" => bench.monitor = "sim"

TinyInv ==
  /\ TinyTypeOK
  /\ Simulated /\ TraceFits
  /\ tiny = "judge" => trace # "raised"
  /\ power.passed => tiny = "over"
  /\ PowerIsEarned

LEMMA TinyInitial == TinyInit => TinyInv
<1> SUFFICES ASSUME TinyInit PROVE TinyInv
  OBVIOUS
<1>1. 0 \in 0..(Warmup + Iterations)
  BY WorkloadAssumption
<1>2. /\ bench \in Bench /\ Simulated
      /\ tiny = "load" /\ invoked = 0 /\ sampler = "none" /\ asked = FALSE /\ samples = 0
      /\ trace = "none" /\ power = NoResult
  BY DEF TinyInit, Simulated
<1>3. NoResult \in [passed : BOOLEAN, origin : {"none", "device", "simulator"},
                     energy : {"none", "mock", "device", "simulator"}]
  BY DEF NoResult
<1>4. TinyTypeOK
  <2>1. /\ tiny \in {"load", "monitor", "work", "stop", "stop after failure", "failed", "judge",
                     "over", "raised"}
        /\ invoked \in 0..(Warmup + Iterations) /\ samples \in 0..2
        /\ sampler \in {"none", "start", "poll", "read", "ended", "died"}
        /\ trace \in {"none", "made", "window", "point", "empty", "raised"}
    BY <1>1, <1>2
  <2>2. asked \in BOOLEAN
    BY <1>2
  <2> QED
    BY <1>2, <1>3, <2>1, <2>2 DEF TinyTypeOK
<1> QED
  BY <1>2, <1>4 DEF TinyInv, NoResult, TraceFits, PowerIsEarned

LEMMA TinyVerdict ==
  ASSUME TinyInv, JudgeTiny PROVE TinyInv'
<1> DEFINE origin == IF trace = "none" THEN "none" ELSE bench.origin
           energy == IF origin # "none" /\ bench.model = "mock" THEN "mock" ELSE origin
<1>1. /\ tiny = "judge" /\ tiny' = "over" /\ power' = PowerVerdict(origin, energy)
      /\ UNCHANGED <<bench, invoked, sampler, asked, samples, trace>>
  BY DEF JudgeTiny, Returns
<1>2. /\ bench.model \in {"mock", "real"} /\ bench.origin \in {"device", "simulator"}
      /\ bench.monitor \in Monitors
  BY DEF TinyInv, TinyTypeOK, Bench
<1>3. origin \in {"none", "device", "simulator"} /\ energy \in {"none", "mock", "device", "simulator"}
  BY <1>2
<1>4. origin = "device" => trace \in {"window", "point", "empty"}
  BY <1>1, <1>2 DEF TinyInv, TinyTypeOK, Simulated, TraceFits
<1>5. energy = "device" => bench.model = "real"
  BY <1>2
<1>6. invoked \in Nat /\ Warmup \in Nat /\ Iterations \in Nat
  <2>1. invoked \in 0..(Warmup + Iterations)
    BY DEF TinyInv, TinyTypeOK
  <2> QED
    BY <2>1, WorkloadAssumption
<1> HIDE DEF origin, energy
<1>7. CASE trace = "empty"
  <2>1. power' = NoResult
    BY <1>1, <1>7 DEF PowerVerdict
  <2> QED
    BY <1>1, <2>1 DEF TinyInv, TinyTypeOK, NoResult, Simulated, TraceFits, PowerIsEarned
<1>8. CASE trace # "empty"
  <2> DEFINE passed == invoked - Warmup = Iterations
  <2>1. power' = [passed |-> passed, origin |-> origin, energy |-> energy]
    BY <1>1, <1>8 DEF PowerVerdict
  <2>2. /\ power'.passed = passed /\ power'.origin = origin /\ power'.energy = energy
        /\ power' \in [passed : BOOLEAN, origin : {"none", "device", "simulator"},
                       energy : {"none", "mock", "device", "simulator"}]
    BY <1>3, <2>1
  <2>3. passed => invoked = Warmup + Iterations
    BY <1>6
  <2> HIDE DEF passed
  <2>4. PowerIsEarned'
    BY <1>1, <1>4, <1>5, <1>8, <2>2, <2>3 DEF PowerIsEarned, TinyInv, TraceFits
  <2> QED
    BY <1>1, <2>2, <2>4 DEF TinyInv, TinyTypeOK, Simulated, TraceFits
<1> QED
  BY <1>7, <1>8

\* Steps that leave the verdict open.
LEMMA TinyGoesOn ==
  ASSUME TinyInv, UNCHANGED <<bench, power>>, ~power.passed,
         tiny' \in {"monitor", "work", "stop", "stop after failure", "failed", "judge", "over",
                    "raised"},
         invoked' \in 0..(Warmup + Iterations),
         sampler' \in {"none", "start", "poll", "read", "ended", "died"},
         asked' \in BOOLEAN, samples' \in 0..2,
         trace' \in {"none", "made", "window", "point", "empty", "raised"},
         TraceFits', tiny' = "judge" => trace' # "raised"
  PROVE  TinyInv'
  BY DEF TinyInv, TinyTypeOK, Simulated, PowerIsEarned

LEMMA TinyNext ==
  ASSUME TinyInv, TinySteps \/ Sampler \/ ForgetTiny \/ UNCHANGED tinyVars
  PROVE  TinyInv'
<1> USE DEF TraceFits
<1>1. ~power.passed \/ tiny = "over"
  BY DEF TinyInv
<1>2. /\ invoked \in 0..(Warmup + Iterations) /\ asked \in BOOLEAN /\ samples \in 0..2
      /\ sampler \in {"none", "start", "poll", "read", "ended", "died"}
      /\ trace \in {"none", "made", "window", "point", "empty", "raised"}
      /\ bench.monitor \in Monitors /\ TraceFits
  BY DEF TinyInv, TinyTypeOK, Bench
<1>3. ASSUME UNCHANGED <<bench, invoked, sampler, asked, samples, trace>>,
             tiny \in {"load", "monitor", "failed"}, Returns(NoResult)
      PROVE  TinyInv'
  BY <1>3 DEF Returns, NoResult, TinyInv, TinyTypeOK, Simulated, PowerIsEarned
<1>4. CASE ModelFails \/ MonitorFails \/ Failed
  BY <1>3, <1>4 DEF ModelFails, MonitorFails, Failed
<1>5. CASE LoadModel
  BY <1>1, <1>2, <1>5, TinyGoesOn DEF LoadModel
<1>6. CASE StartMonitor
  BY <1>1, <1>2, <1>6, TinyGoesOn DEF StartMonitor
<1>7. CASE Invoke
  <2>1. invoked' \in 0..(Warmup + Iterations)
    BY <1>2, <1>7, WorkloadAssumption DEF Invoke
  <2> QED
    BY <1>1, <1>2, <1>7, <2>1, TinyGoesOn DEF Invoke
<1>8. CASE EndWork
  <2>1. asked' \in BOOLEAN /\ tiny' \in {"stop", "stop after failure"}
    BY <1>8 DEF EndWork
  <2> QED
    BY <1>1, <1>2, <1>8, <2>1, TinyGoesOn DEF EndWork
<1>9. CASE Stop
  <2>1. trace' \in {"none", "made", "window", "point", "empty", "raised"} /\ TakeTrace(trace')
        /\ UNCHANGED <<bench, invoked, sampler, asked, samples, power>>
    BY <1>9 DEF Stop
  <2>2. TraceFits'
    BY <1>2, <2>1 DEF TakeTrace, Monitors
  <2>3. tiny' \in {"judge", "failed"} /\ (tiny' = "judge" => trace' # "raised") /\ tiny # "over"
    BY <1>9 DEF Stop, Stopping
  <2> QED
    BY <1>1, <1>2, <2>1, <2>2, <2>3, TinyGoesOn
<1>10. CASE ExtrasRaise
  BY <1>1, <1>2, <1>10, TinyGoesOn DEF ExtrasRaise
<1>11. CASE JudgeTiny
  BY <1>11, TinyVerdict
<1>12. CASE Sampler
  <2>1. UNCHANGED <<bench, tiny, invoked, asked, trace, power>>
    BY <1>12 DEF Sampler, SamplerStarts, SamplerPolls, SamplerReads
  <2>2. /\ samples' \in 0..2 /\ samples' >= samples
        /\ sampler' \in {"none", "start", "poll", "read", "ended", "died"}
    BY <1>2, <1>12 DEF Sampler, SamplerStarts, SamplerPolls, SamplerReads
  <2>3. samples > 0 => samples' > 0
    BY <1>2, <2>2
  <2>4. PowerIsEarned' /\ TraceFits'
    BY <1>2, <2>1, <2>3 DEF TinyInv, PowerIsEarned
  <2>5. TinyTypeOK'
    BY <2>1, <2>2 DEF TinyInv, TinyTypeOK
  <2> QED
    BY <2>1, <2>4, <2>5 DEF TinyInv, Simulated
<1>13. CASE ForgetTiny
  <2>1. bench' \in Bench /\ bench'.origin = "simulator"
    BY <1>2, <1>13 DEF ForgetTiny, Bench, Monitors
  <2>2. power' = NoResult /\ tiny' = "over" /\ trace' = "none" /\ samples' = 0 /\ invoked' = 0
        /\ UNCHANGED asked
    BY <1>13 DEF ForgetTiny
  <2>3. sampler' \in {"none", "start", "poll", "read", "ended", "died"}
    BY <1>2, <1>13 DEF ForgetTiny
  <2>4. 0 \in 0..(Warmup + Iterations)
    BY WorkloadAssumption
  <2>5. TinyTypeOK'
    BY <1>2, <2>1, <2>2, <2>3, <2>4 DEF TinyTypeOK, NoResult
  <2> QED
    BY <2>1, <2>2, <2>5 DEF TinyInv, NoResult, Simulated, PowerIsEarned
<1>14. CASE UNCHANGED tinyVars
  <2>1. UNCHANGED <<bench, tiny, invoked, sampler, asked, samples, trace, power>>
    BY <1>14 DEF tinyVars
  <2>2. TinyTypeOK'
    <3>1. asked' \in BOOLEAN
      BY <1>2, <2>1
    <3>2. power' \in [passed : BOOLEAN, origin : {"none", "device", "simulator"},
                      energy : {"none", "mock", "device", "simulator"}]
      BY <2>1 DEF TinyInv, TinyTypeOK
    <3> QED
      BY <2>1, <3>1, <3>2 DEF TinyInv, TinyTypeOK
  <2>4. Simulated' /\ TraceFits'
    BY <1>2, <2>1 DEF TinyInv, Simulated
  <2>3. PowerIsEarned'
    BY <2>1 DEF TinyInv, PowerIsEarned
  <2> QED
    BY <2>1, <2>2, <2>3, <2>4 DEF TinyInv
<1> QED
  BY <1>4, <1>5, <1>6, <1>7, <1>8, <1>9, <1>10, <1>11, <1>12, <1>13, <1>14 DEF TinySteps

-----------------------------------------------------------------------------
(* The chain of faults.                                                    *)

SampleType == [t : Int, here : BOOLEAN]

\* One fault, as Through applies it.
After(i, sample, loses, by) ==
  IF sample.here THEN Apply(i, sample, loses, by) ELSE Gone

LEMMA AfterType ==
  ASSUME NEW i, lastT[i] \in Int, NEW loses, NEW by, by[i] \in Int, NEW sample \in SampleType
  PROVE  After(i, sample, loses, by) \in SampleType
  BY DEF After, Apply, Gone, Sample, SampleType, Jittered, Before

\* What Through computes, place by place.
LEMMA ThroughSteps ==
  ASSUME NEW t \in Int, chain \in Seq(Faults), lastT \in [DOMAIN chain -> Int],
         NEW loses, NEW by \in [DOMAIN chain -> Int]
  PROVE  LET after == Through(t, loses, by) IN
         /\ after[0] = Sample(t)
         /\ \A i \in DOMAIN chain : after[i] = After(i, after[i - 1], loses, by)
         /\ \A i \in 0..Len(chain) : after[i] \in SampleType
<1> DEFINE n == Len(chain)
           step == [p \in (1..n) \X SampleType |-> After(p[1], p[2], loses, by)]
           start == Sample(t)
           after == Through(t, loses, by)
<1>1. n \in Nat /\ DOMAIN chain = 1..n
  OBVIOUS
<1>2. start \in SampleType
  BY DEF Sample, SampleType
<1>3. \A i \in 1..n, s \in SampleType :
        step[<<i, s>>] = After(i, s, loses, by) /\ step[<<i, s>>] \in SampleType
  <2>1. ASSUME NEW i \in 1..n, NEW s \in SampleType PROVE After(i, s, loses, by) \in SampleType
    BY <1>1, AfterType
  <2>2. \A i \in 1..n, s \in SampleType : step[<<i, s>>] = After(i, s, loses, by)
    OBVIOUS
  <2> HIDE DEF step, n
  <2> QED
    BY <2>1, <2>2
<1> HIDE DEF step, start
<1>4. \E f : f = [i \in 0..n |-> IF i = 0 THEN Sample(t)
                                 ELSE IF f[i - 1].here THEN Apply(i, f[i - 1], loses, by)
                                 ELSE Gone]
  <2>1. PICK f : Recurs(f, n, start, step)
    BY <1>1, RecursionExists
  <2>2. /\ DOMAIN f = 0..n /\ f[0] = start
        /\ \A i \in 1..n : f[i] = step[<<i, f[i - 1]>>]
        /\ \A i \in 0..n : f[i] \in SampleType
    BY <1>1, <1>2, <1>3, <2>1, RecursionTyped
  <2>3. f = [i \in 0..n |-> f[i]]
    BY <2>1 DEF Recurs
  <2>4. ASSUME NEW i \in 0..n
        PROVE  f[i] = IF i = 0 THEN Sample(t)
                      ELSE IF f[i - 1].here THEN Apply(i, f[i - 1], loses, by) ELSE Gone
    <3>1. CASE i = 0
      BY <2>2, <3>1 DEF start
    <3>2. CASE i # 0
      <4>1. i \in 1..n /\ i - 1 \in 0..n
        BY <1>1, <3>2
      <4>2. f[i] = After(i, f[i - 1], loses, by)
        BY <1>3, <2>2, <4>1
      <4> QED
        BY <3>2, <4>2 DEF After
    <3> QED
      BY <3>1, <3>2
  <2> HIDE DEF n
  <2> QED
    BY <2>3, <2>4
<1>5. after = [i \in 0..n |-> IF i = 0 THEN Sample(t)
                              ELSE IF after[i - 1].here THEN Apply(i, after[i - 1], loses, by)
                              ELSE Gone]
  BY <1>4 DEF Through
<1> HIDE DEF after, n
<1>6. after[0] = Sample(t)
  BY <1>1, <1>5
<1>7. ASSUME NEW i \in 1..n PROVE after[i] = After(i, after[i - 1], loses, by)
  <2>1. i \in 0..n /\ i # 0
    BY <1>1
  <2>2. after[i] = IF after[i - 1].here THEN Apply(i, after[i - 1], loses, by) ELSE Gone
    BY <1>5, <2>1
  <2> QED
    BY <2>2 DEF After
<1>8. \A i \in 0..n : after[i] \in SampleType
  <2> DEFINE P == {i \in 0..n : after[i] \in SampleType}
  <2>1. 0 \in P
    BY <1>1, <1>2, <1>6 DEF start
  <2>2. ASSUME NEW i \in 1..n, i - 1 \in P PROVE i \in P
    <3>1. i \in 0..n /\ after[i - 1] \in SampleType
      BY <1>1, <2>2
    <3>2. After(i, after[i - 1], loses, by) \in SampleType
      BY <1>3, <3>1
    <3> QED
      BY <1>7, <3>1, <3>2
  <2>3. 0..n \subseteq P
    <3> HIDE DEF P
    <3> QED
      BY <1>1, <2>1, <2>2, UpTo
  <2> QED
    BY <2>3
<1> QED
  BY <1>1, <1>6, <1>7, <1>8 DEF after, n

JitterAt(i) == i \in DOMAIN chain /\ chain[i] = "jitter"

\* Behind the last jitter, a sample that is still there has its time stamp.
LEMMA UnchangedBehind ==
  ASSUME NEW t \in Int, chain \in Seq(Faults), lastT \in [DOMAIN chain -> Int],
         NEW loses, NEW by \in [DOMAIN chain -> Int],
         NEW j \in 0..Len(chain), \A i \in (j + 1)..Len(chain) : ~JitterAt(i),
         Through(t, loses, by)[Len(chain)].here
  PROVE  /\ Through(t, loses, by)[j].here
         /\ Through(t, loses, by)[Len(chain)].t = Through(t, loses, by)[j].t
<1> DEFINE n == Len(chain)
           after == Through(t, loses, by)
           P == {i \in 0..n : i >= j /\ after[i].here =>
                                /\ after[j].here
                                /\ after[i].t = after[j].t}
<1>1. /\ n \in Nat /\ DOMAIN chain = 1..n
      /\ \A i \in 1..n : after[i] = After(i, after[i - 1], loses, by)
      /\ \A i \in 0..n : after[i] \in SampleType
  <2>1. n \in Nat /\ DOMAIN chain = 1..n
    OBVIOUS
  <2>2. /\ \A i \in DOMAIN chain : after[i] = After(i, after[i - 1], loses, by)
        /\ \A i \in 0..Len(chain) : after[i] \in SampleType
    BY ThroughSteps
  <2> HIDE DEF after
  <2> QED
    BY <2>1, <2>2
<1>2. Gone.here = FALSE
  BY DEF Gone
<1> HIDE DEF after
<1>3. 0 \in P
  BY <1>1
<1>4. ASSUME NEW i \in 1..n, i - 1 \in P PROVE i \in P
  <2>1. CASE i <= j
    BY <1>1, <2>1
  <2>2. CASE i > j
    <3>1. ~JitterAt(i) /\ i \in DOMAIN chain /\ i - 1 >= j /\ i - 1 \in 0..n
      BY <1>1, <2>2
    <3>2. after[i] = After(i, after[i - 1], loses, by)
      BY <1>1
    <3>3. after[i].here => after[i - 1].here /\ after[i] = after[i - 1]
      BY <1>2, <3>1, <3>2 DEF After, Apply, JitterAt
    <3> QED
      BY <1>4, <3>1, <3>3
  <2> QED
    BY <1>1, <2>1, <2>2
<1>5. n \in P
  <2>1. 0..n \subseteq P
    <3> HIDE DEF P
    <3> QED
      BY <1>1, <1>3, <1>4, UpTo
  <2> QED
    BY <1>1, <2>1
<1> QED
  BY <1>1, <1>5 DEF after

\* A jitter passes on later time stamps only.
LEMMA JitterAdvances ==
  ASSUME NEW t \in Int, chain \in Seq(Faults), lastT \in [DOMAIN chain -> Int],
         NEW loses, NEW by \in [DOMAIN chain -> Int], NEW j, JitterAt(j),
         Through(t, loses, by)[j].here
  PROVE  Through(t, loses, by)[j].t > lastT[j]
<1> DEFINE after == Through(t, loses, by)
<1>1. /\ j \in DOMAIN chain /\ j - 1 \in 0..Len(chain)
      /\ after[j] = After(j, after[j - 1], loses, by)
      /\ after[j - 1] \in SampleType
  BY ThroughSteps DEF JitterAt
<1>2. lastT[j] \in Int /\ by[j] \in Int
  BY <1>1
<1> HIDE DEF after
<1>3. after[j - 1].here
  BY <1>1 DEF After, Gone, after
<1>4. after[j] = Sample(Jittered(after[j - 1].t, lastT[j], by[j]))
  BY <1>1, <1>3 DEF After, Apply, JitterAt
<1> QED
  BY <1>1, <1>2, <1>4 DEF Sample, Jittered, SampleType, after

\* Without a jitter, what comes out has the recorded time stamps.  With one,
\* the last of them remembers what it passed on, and what came out is not later.
InOrder ==
  /\ \A i, j \in DOMAIN emitted : i < j => emitted[i] < emitted[j]
  /\ emitted # <<>> =>
       \/ \E j \in DOMAIN chain :
            /\ JitterAt(j) /\ \A i \in (j + 1)..Len(chain) : ~JitterAt(i)
            /\ emitted[Len(emitted)] <= lastT[j]
       \/ /\ \A i \in DOMAIN chain : ~JitterAt(i)
          /\ emitted[Len(emitted)] <= Times[taken]

Accounted == Len(emitted) + dropped = taken /\ (faulty => emitted # <<>>)

HilInv ==
  /\ HilTypeOK
  /\ hil = "build" => taken = 0 /\ emitted = <<>>
  /\ InOrder /\ Accounted

LEMMA LastJitter ==
  ASSUME chain \in Seq(Faults), \E i \in DOMAIN chain : JitterAt(i)
  PROVE  \E j \in DOMAIN chain :
           JitterAt(j) /\ \A i \in (j + 1)..Len(chain) : ~JitterAt(i)
<1> DEFINE S == {i \in DOMAIN chain : JitterAt(i)}
           n == Len(chain)
<1>1. n \in Nat /\ S \subseteq 1..n /\ S # {} /\ DOMAIN chain = 1..n
  OBVIOUS
<1>2. PICK j \in S : \A i \in S : i <= j
  <2> HIDE DEF S, n
  <2> QED
    BY <1>1, LastOne
<1>3. ASSUME NEW i \in (j + 1)..n PROVE ~JitterAt(i)
  <2>1. i \in DOMAIN chain /\ i > j
    BY <1>1
  <2> QED
    BY <1>2, <2>1
<1> QED
  BY <1>2, <1>3

\* Time stamps that increase still do with a later one behind them.
LEMMA LaterOne ==
  ASSUME NEW s \in Seq(Int), NEW t \in Int,
         \A i, j \in DOMAIN s : i < j => s[i] < s[j], s # <<>> => s[Len(s)] < t
  PROVE  /\ \A i, j \in DOMAIN Append(s, t) : i < j => Append(s, t)[i] < Append(s, t)[j]
         /\ Append(s, t) \in Seq(Int) /\ Append(s, t) # <<>>
         /\ Len(Append(s, t)) = Len(s) + 1 /\ Append(s, t)[Len(s) + 1] = t
<1> DEFINE u == Append(s, t)
           n == Len(s)
<1>1. /\ n \in Nat /\ DOMAIN s = 1..n /\ \A i \in 1..n : s[i] \in Int
      /\ s # <<>> => n > 0
  OBVIOUS
<1>2. /\ u \in Seq(Int) /\ Len(u) = n + 1 /\ DOMAIN u = 1..(n + 1)
      /\ u[n + 1] = t /\ \A i \in 1..n : u[i] = s[i]
  OBVIOUS
<1>3. n > 0 => s # <<>>
  OBVIOUS
<1> HIDE DEF u, n
<1>4. ASSUME NEW i \in DOMAIN u, NEW j \in DOMAIN u, i < j PROVE u[i] < u[j]
  <2>1. i \in 1..n
    BY <1>1, <1>2, <1>4
  <2>2. CASE j \in 1..n
    BY <1>1, <1>2, <1>4, <2>1, <2>2
  <2>3. CASE j = n + 1
    <3>1. s[n] < t /\ n \in 1..n /\ (i < n => s[i] < s[n]) /\ (i = n \/ i < n)
      BY <1>1, <1>3, <2>1 DEF n
    <3>2. s[i] < t
      BY <1>1, <2>1, <3>1
    <3> QED
      BY <1>2, <2>1, <2>3, <3>2
  <2> QED
    BY <1>1, <1>2, <2>2, <2>3
<1>5. u # <<>>
  BY <1>1, <1>2
<1> QED
  BY <1>2, <1>4, <1>5 DEF u, n

\* One more sample: it comes out later than those before it, or not at all.
LEMMA NextSampleKeeps ==
  ASSUME HilInv, NextSample PROVE HilInv'
<1> DEFINE n == Len(chain)
           t == Times[taken + 1]
<1>1. /\ chain \in Seq(Faults) /\ lastT \in [DOMAIN chain -> Int]
      /\ emitted \in Seq(Int) /\ taken \in 0..Len(Times) /\ dropped \in 0..Len(Times)
      /\ faulty \in BOOLEAN /\ hil = "stream" /\ taken < Len(Times)
      /\ Len(emitted) + dropped = taken
      /\ InOrder
  BY DEF HilInv, HilTypeOK, Accounted, NextSample
<1>2. n \in Nat /\ DOMAIN chain = 1..n /\ Len(emitted) \in Nat
  BY <1>1
<1>3. Len(Times) \in Nat /\ taken + 1 \in DOMAIN Times /\ t \in Nat
      /\ (taken > 0 => Times[taken] \in Nat /\ Times[taken] < t)
  <2>1. Times \in Seq(Nat) /\ \A i, j \in DOMAIN Times : i < j => Times[i] < Times[j]
    BY StreamAssumption
  <2>2. Len(Times) \in Nat /\ DOMAIN Times = 1..Len(Times)
    BY <2>1
  <2>3. taken + 1 \in DOMAIN Times /\ (taken > 0 => taken \in DOMAIN Times)
    BY <1>1, <2>2
  <2>4. taken < taken + 1
    BY <1>1, <2>2
  <2> QED
    BY <2>1, <2>2, <2>3, <2>4
<1>4. PICK loses \in SUBSET (DOMAIN chain), by \in [DOMAIN chain -> (-Jitter)..Jitter] :
        LET after == Through(t, loses, by)
            out == after[n] IN
        /\ IF out.here THEN emitted' = Append(emitted, out.t) /\ UNCHANGED dropped
           ELSE dropped' = dropped + 1 /\ UNCHANGED emitted
        /\ lastT' = [i \in DOMAIN chain |->
                       IF chain[i] = "jitter" /\ after[i].here THEN after[i].t ELSE lastT[i]]
  BY DEF NextSample
<1>5. taken' = taken + 1 /\ UNCHANGED <<hil, chain, faulty>>
  BY DEF NextSample
<1>6. by \in [DOMAIN chain -> Int]
  BY StreamAssumption
<1> DEFINE after == Through(t, loses, by)
           out == after[n]
<1> HIDE DEF t
<1>7. after[0] = Sample(t) /\ \A i \in 0..n : after[i] \in SampleType
  <2>1. t \in Int
    BY <1>3
  <2> QED
    BY <1>1, <1>6, <2>1, ThroughSteps
<1>8. ASSUME NEW j, JitterAt(j), after[j].here PROVE after[j].t > lastT[j]
  <2>1. t \in Int
    BY <1>3
  <2> QED
    BY <1>1, <1>6, <1>8, <2>1, JitterAdvances
<1>9. ASSUME NEW j \in 0..n, \A i \in (j + 1)..n : ~JitterAt(i), out.here
      PROVE  after[j].here /\ out.t = after[j].t
  <2>1. t \in Int
    BY <1>3
  <2> QED
    BY <1>1, <1>6, <1>9, <2>1, UnchangedBehind
<1> HIDE DEF after, n
<1>10. /\ out.here => emitted' = Append(emitted, out.t) /\ UNCHANGED dropped
       /\ ~out.here => dropped' = dropped + 1 /\ UNCHANGED emitted
       /\ out.t \in Int
  <2>1. out \in SampleType
    BY <1>2, <1>7
  <2> QED
    BY <1>4, <2>1 DEF SampleType, after
<1>11. /\ lastT' \in [DOMAIN chain -> Int]
       /\ \A i \in DOMAIN chain : JitterAt(i) =>
            lastT'[i] = IF after[i].here THEN after[i].t ELSE lastT[i]
  <2>1. \A i \in DOMAIN chain : after[i].t \in Int
    BY <1>2, <1>7 DEF SampleType
  <2>2. lastT' = [i \in DOMAIN chain |->
                    IF chain[i] = "jitter" /\ after[i].here THEN after[i].t ELSE lastT[i]]
    BY <1>4 DEF after
  <2> QED
    BY <1>1, <2>1, <2>2 DEF JitterAt
<1>12. UNCHANGED chain => \A i : JitterAt(i)' <=> JitterAt(i)
  BY DEF JitterAt
<1>13. ASSUME \E i \in DOMAIN chain : JitterAt(i)
       PROVE  InOrder' /\ emitted' \in Seq(Int)
  <2>1. PICK j \in DOMAIN chain : JitterAt(j) /\ \A i \in (j + 1)..n : ~JitterAt(i)
    BY <1>1, <1>13, LastJitter DEF n
  <2>2. emitted # <<>> => emitted[Len(emitted)] <= lastT[j]
    <3>1. ASSUME NEW k \in DOMAIN chain, JitterAt(k), \A i \in (k + 1)..n : ~JitterAt(i)
          PROVE  k = j
      <4>1. k \in 1..n /\ j \in 1..n
        BY <1>2
      <4>2. ~(k < j) /\ ~(j < k)
        BY <1>2, <2>1, <3>1, <4>1
      <4> QED
        BY <4>1, <4>2
    <3> QED
      BY <1>1, <2>1, <3>1 DEF InOrder, n
  <2>3. lastT[j] \in Int /\ lastT'[j] \in Int /\ j \in 0..n
    BY <1>1, <1>2, <1>11
  <2>4. emitted # <<>> => emitted[Len(emitted)] \in Int
    BY <1>1
  <2>5. lastT'[j] >= lastT[j]
    BY <1>8, <1>11, <2>1, <2>3
  <2>6. out.here => out.t = lastT'[j] /\ out.t > lastT[j]
    BY <1>8, <1>9, <1>11, <2>1, <2>3
  <2>7. out.here /\ emitted # <<>> => emitted[Len(emitted)] < out.t
    BY <1>10, <2>2, <2>3, <2>4, <2>6
  <2>8. emitted' # <<>> => emitted'[Len(emitted')] <= lastT'[j]
    <3>1. CASE out.here
      <4>1. Len(emitted') = Len(emitted) + 1 /\ emitted'[Len(emitted) + 1] = out.t
        BY <1>1, <1>10, <3>1, <2>7, LaterOne DEF InOrder
      <4> QED
        BY <1>10, <2>6, <3>1, <4>1
    <3>2. CASE ~out.here
      BY <1>10, <2>2, <2>3, <2>4, <2>5, <3>2
    <3> QED
      BY <3>1, <3>2
  <2>9. emitted' \in Seq(Int) /\ \A i, k \in DOMAIN emitted' : i < k => emitted'[i] < emitted'[k]
    <3>1. CASE out.here
      BY <1>1, <1>10, <3>1, <2>7, LaterOne DEF InOrder
    <3>2. CASE ~out.here
      BY <1>1, <1>10, <3>2 DEF InOrder
    <3> QED
      BY <3>1, <3>2
  <2>10. InOrder'
    BY <1>5, <1>12, <2>1, <2>8, <2>9 DEF InOrder, n
  <2> QED
    BY <2>9, <2>10
<1>14. ASSUME \A i \in DOMAIN chain : ~JitterAt(i)
       PROVE  InOrder' /\ emitted' \in Seq(Int)
  <2>1. \A i \in 1..n : ~JitterAt(i)
    BY <1>2, <1>14
  <2>2. out.here => out.t = t
    BY <1>2, <1>7, <1>9, <2>1 DEF Sample
  <2>3. emitted # <<>> => emitted[Len(emitted)] \in Int /\ emitted[Len(emitted)] < t
    <3>1. emitted # <<>> => emitted[Len(emitted)] \in Int /\ Len(emitted) > 0
      BY <1>1
    <3>2. emitted # <<>> => emitted[Len(emitted)] <= Times[taken]
      BY <1>1, <1>14 DEF InOrder
    <3>3. emitted # <<>> => taken > 0
      BY <1>1, <1>3, <3>1
    <3> QED
      BY <1>3, <3>1, <3>2, <3>3
  <2>4. emitted' # <<>> => emitted'[Len(emitted')] <= t
    <3>1. CASE out.here
      <4>1. Len(emitted') = Len(emitted) + 1 /\ emitted'[Len(emitted) + 1] = t
        BY <1>1, <1>10, <3>1, <2>2
      <4> QED
        BY <1>3, <4>1
    <3>2. CASE ~out.here
      BY <1>3, <1>10, <2>3, <3>2
    <3> QED
      BY <3>1, <3>2
  <2>5. emitted' \in Seq(Int) /\ \A i, k \in DOMAIN emitted' : i < k => emitted'[i] < emitted'[k]
    <3>1. CASE out.here
      <4>1. emitted # <<>> => emitted[Len(emitted)] < out.t
        BY <2>2, <2>3, <3>1
      <4> QED
        BY <1>1, <1>10, <3>1, <4>1, LaterOne DEF InOrder
    <3>2. CASE ~out.here
      BY <1>1, <1>10, <3>2 DEF InOrder
    <3> QED
      BY <3>1, <3>2
  <2>6. InOrder'
    BY <1>5, <1>12, <1>14, <2>4, <2>5 DEF InOrder, t
  <2> QED
    BY <2>5, <2>6
<1>15. InOrder' /\ emitted' \in Seq(Int)
  BY <1>13, <1>14
<1>16. Len(emitted') + dropped' = taken' /\ dropped' \in 0..Len(Times) /\ taken' \in 0..Len(Times)
  <2>1. CASE out.here
    <3>1. Len(emitted') = Len(emitted) + 1
      BY <1>1, <1>10, <2>1
    <3> QED
      BY <1>1, <1>2, <1>3, <1>5, <1>10, <2>1, <3>1
  <2>2. CASE ~out.here
    <3>1. emitted' = emitted /\ dropped' = dropped + 1 /\ taken' = taken + 1 /\ dropped \in Nat
      BY <1>1, <1>5, <1>10, <2>2
    <3>2. Len(emitted) + (dropped + 1) = taken + 1 /\ dropped + 1 \in 0..Len(Times)
          /\ taken + 1 \in 0..Len(Times)
      BY <1>1, <1>2, <1>3, <3>1
    <3> QED
      BY <3>1, <3>2
  <2> QED
    BY <2>1, <2>2
<1>17. faulty' => emitted' # <<>>
  <2>1. CASE out.here
    BY <1>1, <1>10, <2>1
  <2>2. CASE ~out.here
    BY <1>5, <1>10, <2>2 DEF HilInv, Accounted
  <2> QED
    BY <2>1, <2>2
<1>18. HilTypeOK'
  BY <1>1, <1>5, <1>11, <1>15, <1>16 DEF HilTypeOK
<1> QED
  BY <1>1, <1>5, <1>15, <1>16, <1>17, <1>18 DEF HilInv, Accounted

NothingStreamed ==
  /\ taken = 0 /\ emitted = <<>> /\ dropped = 0 /\ chain = <<>> /\ lastT = <<>>
  /\ faulty = FALSE /\ hil \in {"build", "over"}

LEMMA HilEmpty == NothingStreamed => HilInv
<1> SUFFICES ASSUME NothingStreamed PROVE HilInv
  OBVIOUS
<1>1. Len(Times) \in Nat
  BY StreamAssumption
<1>2. 0 \in 0..Len(Times)
  BY <1>1
<1>3. emitted \in Seq(Int) /\ Len(emitted) = 0 /\ DOMAIN emitted = {}
  BY DEF NothingStreamed
<1>4. chain \in Seq(Faults) /\ DOMAIN chain = {} /\ lastT \in [{} -> Int]
  BY DEF NothingStreamed
<1>5. HilTypeOK
  BY <1>2, <1>3, <1>4 DEF NothingStreamed, HilTypeOK
<1> QED
  BY <1>3, <1>5 DEF NothingStreamed, HilInv, InOrder, Accounted

LEMMA HilNext ==
  ASSUME HilInv, HilSteps \/ ForgetHil \/ UNCHANGED hilVars
  PROVE  HilInv'
<1>1. CASE BuildFaults
  <2>1. /\ chain' \in Seq(Faults) /\ lastT' \in [DOMAIN chain' -> Int]
        /\ hil' \in {"stream", "raised"} /\ UNCHANGED <<taken, emitted, dropped, faulty>>
    BY <1>1, StreamAssumption DEF BuildFaults, Faults, Before
  <2>2. taken' = 0 /\ emitted' = <<>>
    BY <1>1, <2>1 DEF BuildFaults, HilInv
  <2>3. HilTypeOK'
    BY <2>1 DEF HilInv, HilTypeOK
  <2>4. Accounted'
    BY <2>1 DEF HilInv, Accounted
  <2>5. InOrder'
    BY <2>2 DEF InOrder
  <2> QED
    BY <2>1, <2>3, <2>4, <2>5 DEF HilInv
<1>2. CASE NextSample
  BY <1>2, NextSampleKeeps
<1>3. ASSUME hil' \in {"over", "raised"}, UNCHANGED <<chain, taken, lastT, emitted, dropped>>,
             faulty' \in BOOLEAN, faulty' => faulty \/ emitted # <<>>
      PROVE  HilInv'
  BY <1>3 DEF HilInv, HilTypeOK, InOrder, Accounted, JitterAt
<1>4. CASE NoRecording
  BY <1>3, <1>4 DEF NoRecording, HilInv, HilTypeOK
<1>5. CASE JudgeHil
  BY <1>3, <1>5 DEF JudgeHil
<1>6. CASE ScoreRaises
  BY <1>3, <1>6 DEF ScoreRaises, HilInv, HilTypeOK
<1>7. CASE ForgetHil
  <2>1. NothingStreamed'
    BY <1>7 DEF ForgetHil, NothingStreamed
  <2> QED
    BY <2>1, HilEmpty, PTL
<1>8. CASE UNCHANGED hilVars
  BY <1>8 DEF hilVars, HilInv, HilTypeOK, InOrder, Accounted, JitterAt
<1> QED
  BY <1>1, <1>2, <1>4, <1>5, <1>6, <1>7, <1>8 DEF HilSteps

LEMMA HilInitial == HilInit => HilInv
  BY HilEmpty DEF HilInit, NothingStreamed

-----------------------------------------------------------------------------
(* The board's line: its invariant.                                        *)

BoardPiece == [line : 1..MaxLines, half : {1, 2}, is : LineKinds]
TimingType ==
  [passed : BOOLEAN, origin : {"none", "device", "simulator"}, lines : SUBSET (1..MaxLines)]
RecordType == [line : 1..MaxLines, boot : BOOLEAN, whole : BOOLEAN]

Places ==
  Collecting \cup Dropping
    \cup {"idle", "start", "suites over", "flash", "ready", "over", "raised"}

LineTyped ==
  /\ kind \in {"serial", "mute"}
  /\ wire \in Places
  /\ mode \in {"run", "profile", "boot"} /\ mid \in LineKinds \cup {"none"}
  /\ printed \in 0..MaxLines /\ since \in 0..printed
  /\ mid # "none" => printed > 0
  /\ inbox \in Seq({"start", "stop", "status"})
  /\ rx \in Seq(BoardPiece) /\ text \in Seq(BoardPiece) /\ rest \in Seq(BoardPiece)
  /\ timing \in TimingType
  /\ records \in Seq(RecordType)

\* What has not begun has nothing in its buffers.
NothingYet ==
  /\ kind = "mute" => rx = <<>> /\ text = <<>> /\ mid = "none"
  /\ wire \in {"idle", "start", "start reply", "suites over", "flash", "ready"} => text = <<>>
  /\ wire \notin {"status reply", "over", "raised"} => rest = <<>> /\ records = <<>>
  /\ mode = "boot" => /\ wire \in {"ready", "capture", "status reply", "over", "raised"}
                      /\ inbox \in Seq({"status"})

\* A board that was told to profile: what is read from then on was printed
\* from then on, but for the end of a line it was in the middle of.
FreshAnswer ==
  wire \in {"start reply", "trace", "stop reply"} =>
    /\ \A i \in DOMAIN (text \o rx) :
         (text \o rx)[i].line > since \/ (i = 1 /\ (text \o rx)[i].half = 2)
    /\ mid # "none" /\ printed = since => text \o rx = <<>>

TimingFits ==
  /\ wire \in {"idle", "start"} => timing = NoTiming
  /\ TimingIsOfThisProfile

\* q is what the board prints behind p; a reset cuts a line.
Continues(p, q) ==
  IF q.half = 2 THEN p.half = 1 /\ q.line = p.line /\ q.is = p.is
  ELSE q.line = p.line + 1 /\ (p.half = 2 \/ q.is = "boot")

\* p begins the line behind a line that was parsed.
Follows(line, p) == p.line = line + 1 \/ (p.is = "boot" /\ p.line > line)

Continuous(pieces) == \A i \in 1..(Len(pieces) - 1) : Continues(pieces[i], pieces[i + 1])

\* What is parsed and the pieces behind it: no line between them is missing.
Joined(parsed, pieces) ==
  parsed # <<>> /\ pieces # <<>> =>
    pieces[1].half = 1 /\ Follows(parsed[Len(parsed)].line, pieces[1])

\* As TelemetryIsWhole, and the last record is of a line that has ended.
WithoutGap(parsed) ==
  \A i \in 1..(Len(parsed) - 1) :
    \/ parsed[i + 1].line = parsed[i].line + 1
    \/ parsed[i + 1].boot /\ parsed[i + 1].line > parsed[i].line

Sound(parsed) ==
  /\ \A i \in DOMAIN parsed : parsed[i].whole \/ i = 1 \/ parsed[i].boot
  /\ WithoutGap(parsed)

\* What the capture has not parsed yet, and what the board printed last.
Stream == rest \o text \o rx

LastPrinted ==
  Stream # <<>> =>
    LET last == Stream[Len(Stream)] IN
    /\ last.line = printed
    /\ mid # "none" => last.half = 1 /\ last.is = mid
    /\ mid = "none" => last.half = 2 \/ mode = "boot"

\* All that was printed is parsed.
AllParsed ==
  records # <<>> /\ Stream = <<>> => mid = "none" /\ records[Len(records)].line = printed

CaptureFits ==
  wire \in {"flash", "ready", "capture", "status reply"} =>
    Continuous(Stream) /\ LastPrinted /\ AllParsed /\ Joined(records, Stream) /\ Sound(records)

LineInv ==
  LineTyped /\ NothingYet /\ FreshAnswer /\ TimingFits /\ CaptureFits /\ TelemetryIsWhole

-----------------------------------------------------------------------------
(* The parser.                                                             *)

\* A line of the text ends at this piece.
IsParsed(pieces, i) == i \in Ends(pieces) /\ ~EndsNothing(pieces, i)

\* What Parsing computes, piece by piece.
LEMMA ParsingSteps ==
  ASSUME NEW pieces, Len(pieces) \in Nat, NEW before \in Seq(RecordType),
         \A i \in 1..Len(pieces) : IsParsed(pieces, i) => RecordAt(pieces, i) \in RecordType
  PROVE  LET upTo == Parsing(pieces, before) IN
         /\ upTo[0] = before
         /\ \A i \in 1..Len(pieces) :
              upTo[i] = IF IsParsed(pieces, i) THEN Append(upTo[i - 1], RecordAt(pieces, i))
                        ELSE upTo[i - 1]
         /\ \A i \in 0..Len(pieces) : upTo[i] \in Seq(RecordType)
<1> DEFINE n == Len(pieces)
           Step(i, s) == IF IsParsed(pieces, i) THEN Append(s, RecordAt(pieces, i)) ELSE s
           step == [p \in (1..n) \X Seq(RecordType) |-> Step(p[1], p[2])]
           upTo == Parsing(pieces, before)
<1>1. n \in Nat
  OBVIOUS
<1>2. \A i \in 1..n, s \in Seq(RecordType) :
        step[<<i, s>>] = Step(i, s) /\ step[<<i, s>>] \in Seq(RecordType)
  <2>1. ASSUME NEW i \in 1..n, NEW s \in Seq(RecordType) PROVE Step(i, s) \in Seq(RecordType)
    OBVIOUS
  <2>2. \A i \in 1..n, s \in Seq(RecordType) : step[<<i, s>>] = Step(i, s)
    OBVIOUS
  <2> HIDE DEF step, Step, n
  <2> QED
    BY <2>1, <2>2
<1> HIDE DEF step
<1>3. \E f : f = [i \in 0..n |-> IF i = 0 THEN before
                                 ELSE IF i \in Ends(pieces) /\ ~EndsNothing(pieces, i)
                                   THEN Append(f[i - 1], RecordAt(pieces, i))
                                 ELSE f[i - 1]]
  <2>1. PICK f : Recurs(f, n, before, step)
    <3> HIDE DEF n, Step
    <3> QED
      BY <1>1, RecursionExists
  <2>2. /\ DOMAIN f = 0..n /\ f[0] = before
        /\ \A i \in 1..n : f[i] = step[<<i, f[i - 1]>>]
        /\ \A i \in 0..n : f[i] \in Seq(RecordType)
    <3> HIDE DEF n, Step
    <3> QED
      BY <1>1, <1>2, <2>1, RecursionTyped
  <2>3. f = [i \in 0..n |-> f[i]]
    BY <2>1 DEF Recurs
  <2>4. ASSUME NEW i \in 0..n
        PROVE  f[i] = IF i = 0 THEN before
                      ELSE IF i \in Ends(pieces) /\ ~EndsNothing(pieces, i)
                        THEN Append(f[i - 1], RecordAt(pieces, i))
                      ELSE f[i - 1]
    <3>1. CASE i = 0
      BY <2>2, <3>1
    <3>2. CASE i # 0
      <4>1. i \in 1..n /\ i - 1 \in 0..n
        BY <1>1, <3>2
      <4>2. f[i] = Step(i, f[i - 1])
        <5> HIDE DEF n, Step
        <5> QED
          BY <1>2, <2>2, <4>1
      <4> QED
        BY <3>2, <4>2 DEF IsParsed
    <3> QED
      BY <3>1, <3>2
  <2> HIDE DEF n
  <2> QED
    BY <2>3, <2>4
<1>4. upTo = [i \in 0..n |-> IF i = 0 THEN before
                             ELSE IF i \in Ends(pieces) /\ ~EndsNothing(pieces, i)
                               THEN Append(upTo[i - 1], RecordAt(pieces, i))
                             ELSE upTo[i - 1]]
  BY <1>3 DEF Parsing
<1> HIDE DEF upTo, n
<1>5. upTo[0] = before
  BY <1>1, <1>4
<1>6. ASSUME NEW i \in 1..n PROVE upTo[i] = Step(i, upTo[i - 1])
  <2>1. i \in 0..n /\ i # 0
    BY <1>1
  <2> QED
    BY <1>4, <2>1 DEF IsParsed
<1>7. \A i \in 0..n : upTo[i] \in Seq(RecordType)
  <2> DEFINE P == {i \in 0..n : upTo[i] \in Seq(RecordType)}
  <2>1. 0 \in P
    BY <1>1, <1>5
  <2>2. ASSUME NEW i \in 1..n, i - 1 \in P PROVE i \in P
    <3>1. i \in 0..n /\ upTo[i - 1] \in Seq(RecordType)
      BY <1>1, <2>2
    <3>2. Step(i, upTo[i - 1]) \in Seq(RecordType)
      <4> HIDE DEF Step
      <4> QED
        BY <1>2, <3>1
    <3> HIDE DEF Step
    <3> QED
      BY <1>6, <3>1, <3>2
  <2>3. 0..n \subseteq P
    <3> HIDE DEF P
    <3> QED
      BY <1>1, <2>1, <2>2, UpTo
  <2> QED
    BY <2>3
<1> QED
  BY <1>1, <1>5, <1>6, <1>7 DEF upTo, n

\* r is the record behind those that were parsed.
NextRecord(parsed, r) ==
  parsed # <<>> =>
    \/ r.line = parsed[Len(parsed)].line + 1
    \/ r.boot /\ r.line > parsed[Len(parsed)].line

LEMMA AppendWithoutGap ==
  ASSUME NEW s \in Seq(RecordType), WithoutGap(s), NEW r \in RecordType, NextRecord(s, r)
  PROVE  WithoutGap(Append(s, r))
<1> DEFINE u == Append(s, r)
           n == Len(s)
<1>1. /\ n \in Nat /\ Len(u) = n + 1 /\ u[n + 1] = r /\ \A i \in 1..n : u[i] = s[i]
      /\ n > 0 => s # <<>>
  OBVIOUS
<1> HIDE DEF u
<1>2. ASSUME NEW i \in 1..(Len(u) - 1)
      PROVE  \/ u[i + 1].line = u[i].line + 1
             \/ u[i + 1].boot /\ u[i + 1].line > u[i].line
  <2>1. CASE i = n
    <3>1. n > 0 /\ u[i] = s[n] /\ u[i + 1] = r
      BY <1>1, <2>1
    <3> QED
      BY <1>1, <3>1 DEF NextRecord
  <2>2. CASE i # n
    <3>1. i \in 1..(n - 1) /\ u[i] = s[i] /\ u[i + 1] = s[i + 1]
      BY <1>1, <2>2
    <3> QED
      BY <3>1 DEF WithoutGap
  <2> QED
    BY <2>1, <2>2
<1> QED
  BY <1>2 DEF WithoutGap, u

LEMMA AppendSound ==
  ASSUME NEW s \in Seq(RecordType), Sound(s), NEW r \in RecordType, NextRecord(s, r),
         r.whole \/ r.boot \/ s = <<>>
  PROVE  Sound(Append(s, r))
<1> DEFINE u == Append(s, r)
           n == Len(s)
<1>1. WithoutGap(u)
  BY AppendWithoutGap DEF Sound
<1>2. /\ n \in Nat /\ DOMAIN u = 1..(n + 1) /\ u[n + 1] = r /\ \A i \in 1..n : u[i] = s[i]
      /\ DOMAIN s = 1..n
      /\ s = <<>> => n = 0
  OBVIOUS
<1> HIDE DEF u, n
<1>3. ASSUME NEW i \in DOMAIN u PROVE u[i].whole \/ i = 1 \/ u[i].boot
  <2>1. CASE i = n + 1
    BY <1>2, <2>1
  <2>2. CASE i # n + 1
    BY <1>2, <2>2 DEF Sound
  <2> QED
    BY <2>1, <2>2
<1> QED
  BY <1>1, <1>3 DEF Sound, u

\* The records after n pieces of what the board printed without a gap.
ParsedWell(parsed, before, pieces, n) ==
  /\ Sound(parsed)
  /\ n > 0 /\ parsed # <<>> /\ pieces[n].half = 1 => Follows(parsed[Len(parsed)].line, pieces[n])
  /\ \A e \in 1..n : pieces[e].half = 2 /\ (\A j \in (e + 1)..n : pieces[j].half = 1) =>
       parsed # <<>> /\ parsed[Len(parsed)].line = pieces[e].line
  /\ (\A j \in 1..n : pieces[j].half = 1) => parsed = before

LEMMA ParsedInOrder ==
  ASSUME NEW pieces, Len(pieces) \in Nat, DOMAIN pieces = 1..Len(pieces),
         NEW before \in Seq(RecordType), Sound(before),
         NEW n \in 0..Len(pieces), \A i \in 1..n : pieces[i] \in BoardPiece,
         \A i \in 1..(n - 1) : Continues(pieces[i], pieces[i + 1]),
         n > 0 => Joined(before, pieces),
         \A i \in 1..Len(pieces) : IsParsed(pieces, i) => RecordAt(pieces, i) \in RecordType
  PROVE  ParsedWell(Parsing(pieces, before)[n], before, pieces, n)
<1> DEFINE upTo == Parsing(pieces, before)
           P == {i \in 0..n : ParsedWell(upTo[i], before, pieces, i)}
<1>1. /\ upTo[0] = before
      /\ \A i \in 1..Len(pieces) :
           upTo[i] = IF IsParsed(pieces, i) THEN Append(upTo[i - 1], RecordAt(pieces, i))
                     ELSE upTo[i - 1]
      /\ \A i \in 0..Len(pieces) : upTo[i] \in Seq(RecordType)
  BY ParsingSteps
<1> HIDE DEF upTo
<1>2. 0 \in P
  BY <1>1 DEF ParsedWell
<1>3. ASSUME NEW i \in 1..n, i - 1 \in P PROVE i \in P
  <2> DEFINE L == upTo[i - 1]
             p == pieces[i]
             q == pieces[i - 1]
  <2>1. /\ i \in 1..Len(pieces) /\ p \in BoardPiece /\ L \in Seq(RecordType)
        /\ ParsedWell(L, before, pieces, i - 1)
        /\ i > 1 => q \in BoardPiece /\ Continues(q, p)
        /\ i > 2 => pieces[i - 2] \in BoardPiece /\ Continues(pieces[i - 2], q)
    <3>1. i \in 1..Len(pieces) /\ p \in BoardPiece /\ L \in Seq(RecordType)
      BY <1>1
    <3>2. ASSUME i > 1 PROVE q \in BoardPiece /\ Continues(q, p)
      <4>1. i - 1 \in 1..n /\ i - 1 \in 1..(n - 1) /\ (i - 1) + 1 = i
        BY <3>2
      <4> QED
        BY <4>1
    <3>3. ASSUME i > 2 PROVE pieces[i - 2] \in BoardPiece /\ Continues(pieces[i - 2], q)
      <4>1. i - 2 \in 1..n /\ i - 2 \in 1..(n - 1) /\ (i - 2) + 1 = i - 1
        BY <3>3
      <4> QED
        BY <4>1
    <3> QED
      BY <1>3, <3>1, <3>2, <3>3
  <2>2. i = 1 => L = before /\ (before # <<>> => p.half = 1 /\ Follows(L[Len(L)].line, p))
    <3>1. pieces # <<>>
      BY <2>1
    <3> QED
      BY <1>1, <3>1 DEF Joined
  <2>3. /\ p.half \in {1, 2} /\ p.line \in Nat /\ p # Newline
        /\ i > 1 => q.half \in {1, 2} /\ q.line \in Nat
    BY <2>1, LineAssumption DEF BoardPiece, Newline, LineKinds
  <2>4. L # <<>> => L[Len(L)].line \in Nat
    <3>1. L # <<>> => L[Len(L)] \in RecordType
      BY <2>1
    <3> QED
      BY <3>1, LineAssumption DEF RecordType
  <2> HIDE DEF L, p, q
  <2>5. CASE p.half = 2
    <3> DEFINE r == RecordAt(pieces, i)
    <3>1. IsParsed(pieces, i)
      BY <2>1, <2>3, <2>5 DEF IsParsed, Ends, EndsNothing, p
    <3>2. r \in RecordType /\ upTo[i] = Append(L, r)
      BY <1>1, <2>1, <3>1 DEF L
    <3>3. r.line = p.line /\ r.boot = (p.is = "boot") /\ r.whole = Whole(pieces, i)
      BY <2>3 DEF RecordAt, p
    <3> HIDE DEF r
    <3>4. NextRecord(L, r) /\ (r.whole \/ r.boot \/ L = <<>>)
      <4>1. CASE i = 1
        BY <2>2, <2>5, <4>1 DEF NextRecord
      <4>2. CASE i > 1
        <5>1. q.half = 1 /\ q.line = p.line /\ q.is = p.is
          BY <2>1, <2>5, <4>2 DEF Continues
        <5>2. L # <<>> => Follows(L[Len(L)].line, q)
          BY <2>1, <4>2, <5>1 DEF ParsedWell, q
        <5>3. NextRecord(L, r)
          BY <3>3, <5>1, <5>2 DEF NextRecord, Follows
        <5>4. i = 2 => r.whole
          BY <3>3, <4>2, <5>1 DEF Whole, p, q
        <5>5. i > 2 => r.whole \/ r.boot
          <6>1. i > 2 => pieces[i - 2].half = 2 \/ q.is = "boot"
            BY <2>1, <5>1 DEF Continues
          <6> QED
            BY <3>3, <4>2, <5>1, <6>1 DEF Whole, p, q
        <5> QED
          BY <4>2, <5>3, <5>4, <5>5
      <4> QED
        BY <4>1, <4>2
    <3>5. Sound(upTo[i])
      BY <2>1, <3>2, <3>4, AppendSound DEF ParsedWell
    <3>6. upTo[i] # <<>> /\ upTo[i][Len(upTo[i])].line = p.line
      <4>1. Append(L, r) # <<>> /\ Append(L, r)[Len(Append(L, r))] = r
        BY <2>1, <3>2
      <4> QED
        BY <3>2, <3>3, <4>1
    <3>7. ASSUME NEW e \in 1..i, \A j \in (e + 1)..i : pieces[j].half = 1 PROVE e = i
      <4>1. CASE e < i
        BY <2>5, <3>7, <4>1 DEF p
      <4> QED
        BY <4>1
    <3>8. ~ \A j \in 1..i : pieces[j].half = 1
      BY <2>5 DEF p
    <3>9. ParsedWell(upTo[i], before, pieces, i)
      BY <2>5, <3>5, <3>6, <3>7, <3>8 DEF ParsedWell, p
    <3> QED
      BY <3>9
  <2>6. CASE p.half = 1
    <3>1. upTo[i] = L
      BY <1>1, <2>1, <2>6 DEF IsParsed, Ends, L, p
    <3>2. L # <<>> => Follows(L[Len(L)].line, p)
      <4>1. CASE i = 1
        BY <2>2, <4>1
      <4>2. CASE i > 1
        <5>1. p.line = q.line + 1 /\ (q.half = 2 \/ p.is = "boot")
          BY <2>1, <2>6, <4>2 DEF Continues
        <5>2. CASE q.half = 2
          <6>1. i - 1 \in 1..(i - 1) /\ \A j \in ((i - 1) + 1)..(i - 1) : pieces[j].half = 1
            BY <4>2
          <6>2. L # <<>> /\ L[Len(L)].line = q.line
            BY <2>1, <5>2, <6>1 DEF ParsedWell, q
          <6> QED
            BY <5>1, <6>2 DEF Follows
        <5>3. CASE q.half = 1
          <6>1. L # <<>> => Follows(L[Len(L)].line, q)
            BY <2>1, <4>2, <5>3 DEF ParsedWell, q
          <6> QED
            BY <2>3, <2>4, <4>2, <5>1, <5>3, <6>1 DEF Follows
        <5> QED
          BY <2>3, <4>2, <5>2, <5>3
      <4> QED
        BY <4>1, <4>2
    <3>3. ASSUME NEW e \in 1..i, pieces[e].half = 2,
                 \A j \in (e + 1)..i : pieces[j].half = 1
          PROVE  L # <<>> /\ L[Len(L)].line = pieces[e].line
      <4>1. e # i
        BY <2>6, <3>3 DEF p
      <4>2. e \in 1..(i - 1) /\ \A j \in (e + 1)..(i - 1) : pieces[j].half = 1
        BY <3>3, <4>1
      <4> QED
        BY <2>1, <3>3, <4>2 DEF ParsedWell
    <3>4. (\A j \in 1..i : pieces[j].half = 1) => L = before
      BY <2>1 DEF ParsedWell
    <3>5. ParsedWell(upTo[i], before, pieces, i)
      BY <2>1, <3>1, <3>2, <3>3, <3>4 DEF ParsedWell, p
    <3> QED
      BY <3>5
  <2> QED
    BY <2>3, <2>5, <2>6
<1>4. 0..n \subseteq P
  <2>1. n \in Nat
    OBVIOUS
  <2> HIDE DEF P
  <2> QED
    BY <1>2, <1>3, <2>1, UpTo
<1> QED
  BY <1>4 DEF upTo

LEMMA RecordTyped ==
  ASSUME NEW pieces, NEW i,
         IF pieces[i] = Newline THEN pieces[i - 1] \in BoardPiece ELSE pieces[i] \in BoardPiece
  PROVE  RecordAt(pieces, i) \in RecordType
  BY DEF RecordAt, RecordType, BoardPiece, Whole

\* Where the last line that is complete ends.
LastEnd(pieces) ==
  IF Ends(pieces) = {} THEN 0 ELSE CHOOSE i \in Ends(pieces) : \A j \in Ends(pieces) : j <= i

LEMMA LastEndIsLast ==
  ASSUME NEW pieces, Len(pieces) \in Nat, DOMAIN pieces = 1..Len(pieces)
  PROVE  /\ LastEnd(pieces) \in 0..Len(pieces)
         /\ LastEnd(pieces) > 0 => pieces[LastEnd(pieces)].half = 2
         /\ \A j \in (LastEnd(pieces) + 1)..Len(pieces) : pieces[j].half # 2
<1> DEFINE n == Len(pieces)
           S == Ends(pieces)
<1>1. S \subseteq 1..n /\ n \in Nat /\ \A i \in 1..n : i \in S <=> pieces[i].half = 2
  BY DEF Ends
<1> HIDE DEF n, S
<1>2. CASE S = {}
  <2>1. LastEnd(pieces) = 0
    BY <1>2 DEF LastEnd, S
  <2> QED
    BY <1>1, <1>2, <2>1 DEF n
<1>3. CASE S # {}
  <2> DEFINE e == LastEnd(pieces)
  <2>1. \E i \in S : \A j \in S : j <= i
    BY <1>1, <1>3, LastOne
  <2>2. e \in S /\ \A j \in S : j <= e
    BY <1>3, <2>1 DEF LastEnd, S
  <2> HIDE DEF e
  <2>3. e \in 1..n /\ pieces[e].half = 2
    BY <1>1, <2>2
  <2>4. ASSUME NEW j \in (e + 1)..n PROVE pieces[j].half # 2
    <3>1. j \in 1..n /\ ~(j <= e)
      BY <1>1, <2>3
    <3> QED
      BY <1>1, <2>2, <3>1
  <2>5. e \in 0..n /\ (e > 0 => pieces[e].half = 2) /\ \A j \in (e + 1)..n : pieces[j].half # 2
    BY <2>3, <2>4
  <2> QED
    BY <2>5 DEF n, e
<1> QED
  BY <1>2, <1>3

LEMMA Joining ==
  ASSUME NEW A \in Seq(BoardPiece), NEW B \in Seq(BoardPiece)
  PROVE  /\ A \o B \in Seq(BoardPiece) /\ Len(A \o B) = Len(A) + Len(B)
         /\ Len(A) \in Nat /\ Len(B) \in Nat
         /\ \A i \in 1..Len(A) : (A \o B)[i] = A[i]
         /\ \A i \in 1..Len(B) : (A \o B)[Len(A) + i] = B[i]
<1>1. /\ A \o B \in Seq(BoardPiece) /\ Len(A \o B) = Len(A) + Len(B)
      /\ \A i \in 1..(Len(A) + Len(B)) :
           (A \o B)[i] = IF i <= Len(A) THEN A[i] ELSE B[i - Len(A)]
  BY ConcatProperties
<1>2. Len(A) \in Nat /\ Len(B) \in Nat
  OBVIOUS
<1>3. ASSUME NEW i \in 1..Len(A) PROVE (A \o B)[i] = A[i]
  <2>1. i \in 1..(Len(A) + Len(B)) /\ i <= Len(A)
    BY <1>2
  <2> QED
    BY <1>1, <2>1
<1>4. ASSUME NEW i \in 1..Len(B) PROVE (A \o B)[Len(A) + i] = B[i]
  <2>1. /\ Len(A) + i \in 1..(Len(A) + Len(B)) /\ ~(Len(A) + i <= Len(A))
        /\ (Len(A) + i) - Len(A) = i
    BY <1>2
  <2> QED
    BY <1>1, <2>1
<1> QED
  BY <1>1, <1>2, <1>3, <1>4

\* The capture asks for the status: of what was read, the lines that are
\* complete are parsed and the rest is kept.
LEMMA AskStatusCuts ==
  ASSUME LineInv, AskStatus
  PROVE  /\ records' \in Seq(RecordType) /\ rest' \in Seq(BoardPiece) /\ Sound(records')
         /\ \E m \in 0..Len(Stream) :
              /\ Len(Stream') = Len(Stream) - m
              /\ \A k \in 1..Len(Stream') : Stream'[k] = Stream[m + k]
              /\ m = 0 => records' = <<>>
              /\ m > 0 => /\ Stream[m].half = 2
                          /\ records' # <<>> /\ records'[Len(records')].line = Stream[m].line
<1> DEFINE n == Len(text)
           m == LastEnd(text)
<1>1. /\ rx \in Seq(BoardPiece) /\ text \in Seq(BoardPiece) /\ rest = <<>> /\ records = <<>>
      /\ wire = "capture" /\ Continuous(Stream)
  BY DEF AskStatus, LineInv, LineTyped, NothingYet, CaptureFits
<1>2. rest \o text = text
  BY <1>1
<1>3. /\ records' = Parsed(text, <<>>) /\ rest' = SubSeq(text, m + 1, n)
      /\ text' = rx /\ rx' = <<>>
  <2>1. /\ records' = Parsed(rest \o text, records)
        /\ rest' = SubSeq(rest \o text, LastEnd(rest \o text) + 1, Len(rest \o text))
        /\ text' = rx /\ rx' = <<>>
    BY DEF AskStatus, Feed, LastEnd, BeginRead
  <2> QED
    BY <1>1, <1>2, <2>1
<1>4. /\ n \in Nat /\ DOMAIN text = 1..n /\ \A i \in 1..n : text[i] \in BoardPiece
  BY <1>1
<1>5. m \in 0..n /\ (m > 0 => text[m].half = 2) /\ \A j \in (m + 1)..n : text[j].half # 2
  BY <1>4, LastEndIsLast
<1> HIDE DEF m
<1>6. /\ Len(Stream) = n + Len(rx) /\ Len(rx) \in Nat
      /\ \A i \in 1..n : Stream[i] = text[i]
      /\ \A i \in 1..Len(rx) : Stream[n + i] = rx[i]
  BY <1>1, <1>2, Joining DEF Stream
<1>7. rest' \in Seq(BoardPiece) /\ Len(rest') = n - m /\ \A k \in 1..(n - m) : rest'[k] = text[m + k]
  BY <1>1, <1>3, <1>5
<1>8. /\ Len(Stream') = (n - m) + Len(rx)
      /\ \A k \in 1..(n - m) : Stream'[k] = text[m + k]
      /\ \A k \in 1..Len(rx) : Stream'[(n - m) + k] = rx[k]
  <2> DEFINE D == rest' \o rx
  <2>1. /\ D \in Seq(BoardPiece) /\ Len(D) = (n - m) + Len(rx)
        /\ \A k \in 1..(n - m) : D[k] = text[m + k]
        /\ \A k \in 1..Len(rx) : D[(n - m) + k] = rx[k]
    <3>1. /\ D \in Seq(BoardPiece) /\ Len(D) = Len(rest') + Len(rx)
          /\ \A k \in 1..Len(rest') : D[k] = rest'[k]
          /\ \A k \in 1..Len(rx) : D[Len(rest') + k] = rx[k]
      BY <1>1, <1>7, Joining
    <3> HIDE DEF D, n
    <3> QED
      BY <1>7, <3>1
  <2>2. D \o <<>> = D
    BY <2>1
  <2>3. Stream' = D
    BY <1>3, <2>2 DEF Stream
  <2> QED
    BY <2>1, <2>3
<1>9. Len(Stream') = Len(Stream) - m /\ \A k \in 1..Len(Stream') : Stream'[k] = Stream[m + k]
  <2>1. Len(Stream') = Len(Stream) - m
    BY <1>4, <1>5, <1>6, <1>8
  <2>2. ASSUME NEW k \in 1..Len(Stream') PROVE Stream'[k] = Stream[m + k]
    <3>1. CASE k <= n - m
      BY <1>4, <1>5, <1>6, <1>8, <3>1
    <3>2. CASE k > n - m
      <4>1. PICK i \in 1..Len(rx) : k = (n - m) + i
        <5>1. k - (n - m) \in 1..Len(rx) /\ k = (n - m) + (k - (n - m))
          BY <1>4, <1>5, <1>6, <1>8, <3>2
        <5> QED
          BY <5>1
      <4>2. m + k = n + i
        BY <1>4, <1>5, <1>6, <4>1
      <4> QED
        BY <1>6, <1>8, <4>1, <4>2
    <3> QED
      BY <1>4, <1>5, <1>6, <1>8, <3>1, <3>2
  <2> QED
    BY <2>1, <2>2
<1>10. \A i \in 1..n : IsParsed(text, i) => RecordAt(text, i) \in RecordType
  <2>1. ASSUME NEW i \in 1..n PROVE RecordAt(text, i) \in RecordType
    <3>1. text[i] \in BoardPiece /\ text[i] # Newline
      BY <1>4 DEF BoardPiece, Newline, LineKinds
    <3> QED
      BY <3>1, RecordTyped
  <2> QED
    BY <2>1
<1>11. \A i \in 1..(n - 1) : Continues(text[i], text[i + 1])
  <2>1. ASSUME NEW i \in 1..(n - 1) PROVE Continues(text[i], text[i + 1])
    <3>1. i \in 1..(Len(Stream) - 1) /\ i \in 1..n /\ i + 1 \in 1..n
      BY <1>4, <1>6
    <3> QED
      BY <1>1, <1>6, <3>1 DEF Continuous
  <2> QED
    BY <2>1
<1>12. Sound(<<>>) /\ Joined(<<>>, text) /\ <<>> \in Seq(RecordType)
  BY DEF Sound, Joined, WithoutGap
<1>13. ParsedWell(records', <<>>, text, n)
  <2>1. ParsedWell(Parsing(text, <<>>)[n], <<>>, text, n)
    <3>1. n \in 0..n
      BY <1>4
    <3> QED
      BY <1>4, <1>10, <1>11, <1>12, <3>1, ParsedInOrder
  <2> QED
    BY <1>3, <2>1 DEF Parsed
<1>14. records' \in Seq(RecordType)
  <2>1. \A i \in 0..Len(text) : Parsing(text, <<>>)[i] \in Seq(RecordType)
    <3>1. Len(text) \in Nat /\ <<>> \in Seq(RecordType)
      BY <1>4, <1>12
    <3>2. \A i \in 1..Len(text) : IsParsed(text, i) => RecordAt(text, i) \in RecordType
      BY <1>10
    <3> HIDE DEF n
    <3> QED
      BY <3>1, <3>2, ParsingSteps
  <2>2. n \in 0..n
    BY <1>4
  <2> QED
    BY <1>3, <2>1, <2>2 DEF Parsed
<1>15. \A j \in (m + 1)..n : text[j].half = 1
  BY <1>4, <1>5 DEF BoardPiece
<1>16. m = 0 => records' = <<>>
  BY <1>13, <1>15 DEF ParsedWell
<1>17. m > 0 => /\ Stream[m].half = 2
                /\ records' # <<>> /\ records'[Len(records')].line = Stream[m].line
  <2>1. m > 0 => m \in 1..n /\ Stream[m] = text[m]
    BY <1>5, <1>6
  <2> QED
    BY <1>5, <1>13, <1>15, <2>1 DEF ParsedWell
<1>18. m \in 0..Len(Stream)
  BY <1>4, <1>5, <1>6
<1> QED
  BY <1>7, <1>9, <1>13, <1>14, <1>16, <1>17, <1>18 DEF ParsedWell

\* The capture ends: the newline behind what was read makes a record of a
\* line that was cut.
LEMMA EndCaptureParses ==
  ASSUME LineInv, EndCapture
  PROVE  records' \in Seq(RecordType) /\ rest' \in Seq(BoardPiece) /\ TelemetryIsWhole'
<1> DEFINE read == rest \o text
           n == Len(read)
           pieces == Append(read, Newline)
           upTo == Parsing(pieces, records)
           L == upTo[n]
           r == RecordAt(pieces, n + 1)
<1>1. /\ rx \in Seq(BoardPiece) /\ text \in Seq(BoardPiece) /\ rest \in Seq(BoardPiece)
      /\ records \in Seq(RecordType) /\ wire = "status reply"
      /\ Continuous(Stream) /\ Joined(records, Stream) /\ Sound(records)
  BY DEF EndCapture, LineInv, LineTyped, CaptureFits
<1> HIDE DEF upTo, L, r
<1>2. read \in Seq(BoardPiece)
  BY <1>1, Joining
<1>3. n \in Nat /\ \A i \in 1..n : read[i] \in BoardPiece
  BY <1>2
<1>4. /\ Len(Stream) = n + Len(rx) /\ Len(rx) \in Nat
      /\ \A i \in 1..n : Stream[i] = read[i]
  <2> HIDE DEF read
  <2> QED
    BY <1>1, <1>2, Joining DEF Stream, read
<1>5. rest \o Append(text, Newline) = pieces
  <2> DEFINE P == BoardPiece \cup {Newline}
  <2>1. rest \in Seq(P) /\ text \in Seq(P) /\ <<Newline>> \in Seq(P) /\ Newline \in P
    <3>1. BoardPiece \subseteq P /\ Newline \in P
      OBVIOUS
    <3> HIDE DEF P
    <3>2. \A s \in Seq(BoardPiece) : s \in Seq(P)
      BY <3>1
    <3>3. \A x \in P : <<x>> \in Seq(P)
      OBVIOUS
    <3>4. rest \in Seq(P) /\ text \in Seq(P)
      BY <1>1, <3>2
    <3> QED
      BY <3>1, <3>3, <3>4
  <2>2. Append(text, Newline) = text \o <<Newline>>
    BY <2>1, AppendIsConcat
  <2>3. Append(read, Newline) = read \o <<Newline>>
    <3>1. read \in Seq(P)
      BY <2>1, ConcatProperties
    <3> HIDE DEF read, P
    <3> QED
      BY <2>1, <3>1, AppendIsConcat
  <2> HIDE DEF P
  <2>4. (rest \o text) \o <<Newline>> = rest \o (text \o <<Newline>>)
    BY <2>1, ConcatAssociative
  <2> QED
    BY <2>2, <2>3, <2>4
<1>6. records' = upTo[n + 1]
  <2>1. records' = Parsed(pieces, records)
    <3>1. records' = Parsed(rest \o Append(text, Newline), records)
      BY DEF EndCapture, Feed
    <3> QED
      BY <1>5, <3>1
  <2>2. Len(pieces) = n + 1
    <3> HIDE DEF read
    <3> QED
      BY <1>2
  <2> QED
    BY <2>1, <2>2 DEF Parsed, upTo
<1>7. /\ Len(pieces) = n + 1 /\ DOMAIN pieces = 1..(n + 1) /\ pieces[n + 1] = Newline
      /\ \A i \in 1..n : pieces[i] = read[i]
      /\ \A i \in 1..n : pieces[i] \in BoardPiece
  <2> HIDE DEF read
  <2> QED
    BY <1>2, <1>3
<1>8. rest' \in Seq(BoardPiece)
  <2>1. rest' = SubSeq(pieces, LastEnd(pieces) + 1, n + 1)
    <3>1. rest' = SubSeq(pieces, LastEnd(pieces) + 1, Len(pieces))
      <4>1. rest' = SubSeq(rest \o Append(text, Newline),
                           LastEnd(rest \o Append(text, Newline)) + 1,
                           Len(rest \o Append(text, Newline)))
        BY DEF EndCapture, Feed, LastEnd
      <4> HIDE DEF pieces
      <4> QED
        BY <1>5, <4>1
    <3> QED
      BY <1>7, <3>1
  <2>2. LastEnd(pieces) = n + 1
    <3>1. /\ LastEnd(pieces) \in 0..(n + 1)
          /\ \A j \in (LastEnd(pieces) + 1)..(n + 1) : pieces[j].half # 2
      <4>1. Len(pieces) \in Nat /\ DOMAIN pieces = 1..Len(pieces)
        BY <1>3, <1>7
      <4> HIDE DEF pieces
      <4> QED
        BY <1>7, <4>1, LastEndIsLast
    <3>2. pieces[n + 1].half = 2
      BY <1>7 DEF Newline
    <3> HIDE DEF pieces, n
    <3> QED
      BY <1>3, <3>1, <3>2
  <2>3. rest' = <<>>
    <3> HIDE DEF n
    <3> QED
      BY <1>3, <1>7, <2>1, <2>2
  <2> QED
    BY <2>3
<1> HIDE DEF read, n, pieces
<1>9. ASSUME NEW i \in 1..Len(pieces), IsParsed(pieces, i)
      PROVE  RecordAt(pieces, i) \in RecordType
  <2>1. CASE i \in 1..n
    <3>1. pieces[i] \in BoardPiece /\ pieces[i] # Newline
      BY <1>7, <2>1 DEF BoardPiece, Newline, LineKinds
    <3> QED
      BY <3>1, RecordTyped
  <2>2. CASE i = n + 1
    <3>1. i # 1 /\ pieces[i] = Newline
      BY <1>7, <1>9, <2>2 DEF IsParsed, EndsNothing
    <3>2. i - 1 \in 1..n
      BY <1>3, <2>2, <3>1
    <3> QED
      BY <1>7, <3>1, <3>2, RecordTyped
  <2> QED
    BY <1>3, <1>7, <2>1, <2>2
<1>10. /\ upTo[n + 1] = IF IsParsed(pieces, n + 1) THEN Append(L, r) ELSE L
       /\ upTo[n + 1] \in Seq(RecordType) /\ L \in Seq(RecordType)
  <2>1. Len(pieces) \in Nat
    BY <1>3, <1>7
  <2>2. /\ \A i \in 1..Len(pieces) :
             upTo[i] = IF IsParsed(pieces, i) THEN Append(upTo[i - 1], RecordAt(pieces, i))
                       ELSE upTo[i - 1]
        /\ \A i \in 0..Len(pieces) : upTo[i] \in Seq(RecordType)
    BY <1>1, <1>9, <2>1, ParsingSteps DEF upTo
  <2>3. n + 1 \in 1..Len(pieces) /\ n \in 0..Len(pieces) /\ n + 1 \in 0..Len(pieces)
        /\ (n + 1) - 1 = n
    BY <1>3, <1>7
  <2> QED
    BY <2>2, <2>3 DEF L, r
<1>11. \A i \in 1..(n - 1) : Continues(pieces[i], pieces[i + 1])
  <2>1. ASSUME NEW i \in 1..(n - 1) PROVE Continues(pieces[i], pieces[i + 1])
    <3>1. i \in 1..(Len(Stream) - 1) /\ i \in 1..n /\ i + 1 \in 1..n
      BY <1>3, <1>4
    <3> QED
      BY <1>1, <1>4, <1>7, <3>1 DEF Continuous
  <2> QED
    BY <2>1
<1>12. n > 0 => Joined(records, pieces)
  <2>1. n > 0 => 1 \in 1..n /\ Stream # <<>> /\ Stream[1] = pieces[1]
    <3>1. n > 0 => 1 \in 1..n /\ Len(Stream) # 0
      BY <1>3, <1>4
    <3> QED
      BY <1>4, <1>7, <3>1
  <2> QED
    BY <1>1, <2>1 DEF Joined
<1>13. ParsedWell(L, records, pieces, n)
  <2>1. Len(pieces) \in Nat /\ n \in 0..Len(pieces) /\ DOMAIN pieces = 1..Len(pieces)
    BY <1>3, <1>7
  <2> QED
    BY <1>1, <1>7, <1>9, <1>11, <1>12, <2>1, ParsedInOrder DEF L, upTo
<1>14. CASE ~IsParsed(pieces, n + 1)
  <2>1. records' = L /\ Sound(L)
    BY <1>6, <1>10, <1>13, <1>14 DEF ParsedWell
  <2>2. TelemetryIsWhole'
    BY <2>1 DEF TelemetryIsWhole, Sound, WithoutGap
  <2> QED
    BY <1>6, <1>8, <1>10, <2>2
<1>15. CASE IsParsed(pieces, n + 1)
  <2>1. records' = Append(L, r) /\ Sound(L)
    BY <1>6, <1>10, <1>13, <1>15 DEF ParsedWell
  <2>2. n > 0 /\ pieces[n].half = 1
    <3>1. n + 1 # 1 /\ pieces[(n + 1) - 1].half # 2
      BY <1>7, <1>15 DEF IsParsed, EndsNothing
    <3>2. n \in 1..n /\ (n + 1) - 1 = n
      BY <1>3, <3>1
    <3> QED
      BY <1>7, <3>1, <3>2 DEF BoardPiece
  <2>3. r \in RecordType
    <3>1. n + 1 \in 1..Len(pieces)
      BY <1>3, <1>7
    <3> QED
      BY <1>9, <1>15, <3>1 DEF r
  <2>4. r.line = pieces[n].line /\ r.boot = (pieces[n].is = "boot")
    <3>1. (n + 1) - 1 = n
      BY <1>3
    <3> QED
      BY <1>7, <3>1 DEF r, RecordAt
  <2>5. NextRecord(L, r)
    BY <1>13, <2>2, <2>4 DEF ParsedWell, NextRecord, Follows
  <2>6. WithoutGap(records')
    BY <1>10, <2>1, <2>3, <2>5, AppendWithoutGap DEF Sound
  <2>7. \A i \in DOMAIN records' : records'[i].whole \/ i \in {1, Len(records')} \/ records'[i].boot
    <3>1. /\ Len(records') = Len(L) + 1 /\ DOMAIN records' = 1..(Len(L) + 1)
          /\ DOMAIN L = 1..Len(L) /\ Len(L) \in Nat
          /\ \A i \in 1..Len(L) : records'[i] = L[i]
      BY <1>10, <2>1, <2>3
    <3>2. \A i \in 1..Len(L) : L[i].whole \/ i = 1 \/ L[i].boot
      BY <2>1, <3>1 DEF Sound
    <3> QED
      BY <3>1, <3>2
  <2>8. TelemetryIsWhole'
    BY <2>6, <2>7 DEF TelemetryIsWhole, WithoutGap
  <2> QED
    BY <1>6, <1>8, <1>10, <2>8
<1> QED
  BY <1>14, <1>15

-----------------------------------------------------------------------------
(* The board's line: what its steps keep.                                  *)

\* The suites are over, or the profiler's turn has come.
PassOn ==
  /\ wire = "idle" /\ wire' \in {"start", "suites over"}
  /\ UNCHANGED <<boardVars, rx, text, resultVars>>

\* The profiler's result is published.
CloseProfile ==
  /\ wire \in {"start", "suites over"} /\ wire' = "suites over"
  /\ timing' = NoTiming /\ since' = 0
  /\ UNCHANGED <<boardVars, rx, text, rest, records>>

LineSteps ==
  \/ Board \/ Reads \/ ProfileSteps \/ CaptureSteps
  \/ PassOn \/ CloseProfile \/ UNCHANGED lineVars

\* What a trace is judged by was printed for this profile.
LEMMA JudgedIsFresh ==
  ASSUME LineInv, JudgeTrace
  PROVE  timing' \in TimingType /\ TimingIsOfThisProfile'
<1>1. /\ text \in Seq(BoardPiece) /\ rx \in Seq(BoardPiece)
      /\ (kind = "mute" => text = <<>>) /\ kind \in {"serial", "mute"}
      /\ \A i \in DOMAIN (text \o rx) :
           (text \o rx)[i].line > since \/ (i = 1 /\ (text \o rx)[i].half = 2)
  BY DEF LineInv, LineTyped, NothingYet, FreshAnswer, JudgeTrace
<1>2. kind' = kind /\ since' = since
  BY DEF JudgeTrace, boardVars
<1>3. CASE text = <<>>
  <2>1. PICK passed \in BOOLEAN : Synthetic(passed)
    BY <1>3 DEF JudgeTrace
  <2> QED
    BY <2>1 DEF Synthetic, TimingType, TimingIsOfThisProfile
<1>4. CASE text # <<>>
  <2>1. PICK cut \in BOOLEAN :
          timing' = [passed |-> Judged(TaskLines(cut)), origin |-> "device",
                     lines |-> {l.line : l \in TaskLines(cut)}]
    BY <1>4 DEF JudgeTrace
  <2> DEFINE seen == TaskLines(cut)
             lines == {l.line : l \in seen}
  <2>2. \A i \in 1..Len(text) : /\ text[i] \in BoardPiece
                                /\ (text[i].line > since \/ (i = 1 /\ text[i].half = 2))
    <3>1. \A i \in 1..Len(text) : text[i] \in BoardPiece
      BY <1>1
    <3>2. ASSUME NEW i \in 1..Len(text)
          PROVE  (text \o rx)[i] = text[i] /\ i \in DOMAIN (text \o rx)
      <4>1. /\ text \o rx \in Seq(BoardPiece) /\ (text \o rx)[i] = text[i]
            /\ Len(text \o rx) = Len(text) + Len(rx) /\ Len(text) \in Nat /\ Len(rx) \in Nat
        BY <1>1, Joining
      <4> QED
        BY <4>1
    <3> QED
      BY <1>1, <3>1, <3>2
  <2>3. \A l \in seen : l.line \in 1..MaxLines /\ l.line > since
    <3>1. ASSUME NEW l \in seen
          PROVE  \E i \in 1..Len(text) : l = text[i] /\ (i > 1 \/ text[i].half = 1)
      <4>1. DOMAIN text = 1..Len(text) /\ Len(text) \in Nat
        BY <1>1
      <4>2. PICK i \in DOMAIN text :
              l = text[i] /\ (Whole(text, i) \/ text[i].half = 1)
        BY <3>1, <4>1 DEF TaskLines, Ends
      <4> QED
        BY <4>1, <4>2 DEF Whole
    <3> HIDE DEF seen
    <3> QED
      BY <2>2, <3>1 DEF BoardPiece
  <2> HIDE DEF seen
  <2>4. lines \subseteq 1..MaxLines /\ (\A k \in lines : k > since) /\ (seen # {} => lines # {})
    BY <2>3
  <2>5. Judged(seen) \in BOOLEAN /\ (Judged(seen) => seen # {})
    BY DEF Judged
  <2> HIDE DEF lines
  <2>6. timing' = [passed |-> Judged(seen), origin |-> "device", lines |-> lines]
    BY <2>1 DEF seen, lines
  <2> DEFINE passed == Judged(seen)
  <2> HIDE DEF passed
  <2>7. timing' = [passed |-> passed, origin |-> "device", lines |-> lines] /\ passed \in BOOLEAN
        /\ (passed => lines # {})
    BY <2>4, <2>5, <2>6 DEF passed
  <2>8. timing'.passed = passed /\ timing'.lines = lines /\ timing' \in TimingType
    BY <2>4, <2>7 DEF TimingType
  <2> QED
    BY <1>1, <1>2, <1>4, <2>4, <2>7, <2>8 DEF TimingIsOfThisProfile
<1> QED
  BY <1>3, <1>4

LEMMA LineTypedKept ==
  ASSUME LineInv, LineSteps PROVE LineTyped'
<1>1. /\ kind \in {"serial", "mute"} /\ wire \in Places
      /\ mode \in {"run", "profile", "boot"} /\ mid \in LineKinds \cup {"none"}
      /\ printed \in 0..MaxLines /\ since \in 0..printed /\ (mid # "none" => printed > 0)
      /\ inbox \in Seq({"start", "stop", "status"})
      /\ rx \in Seq(BoardPiece) /\ text \in Seq(BoardPiece) /\ rest \in Seq(BoardPiece)
      /\ timing \in TimingType /\ records \in Seq(RecordType)
  BY DEF LineInv, LineTyped
<1>2. /\ <<>> \in Seq(BoardPiece) /\ NoTiming \in TimingType
      /\ MaxLines \in Nat /\ printed \in Nat
      /\ text \o rx \in Seq(BoardPiece)
  <2>1. <<>> \in Seq(BoardPiece) /\ MaxLines \in Nat /\ printed \in Nat
    BY <1>1, LineAssumption
  <2>2. NoTiming \in TimingType
    BY DEF NoTiming, TimingType
  <2> QED
    BY <1>1, <2>1, <2>2, Joining
<1>3. /\ Append(inbox, "start") \in Seq({"start", "stop", "status"})
      /\ Append(inbox, "stop") \in Seq({"start", "stop", "status"})
      /\ Append(inbox, "status") \in Seq({"start", "stop", "status"})
  BY <1>1
<1>4. CASE Obey
  <2>1. Tail(inbox) \in Seq({"start", "stop", "status"})
    BY <1>1, <1>4 DEF Obey
  <2>2. mode' \in {"run", "profile", "boot"}
    BY <1>1, <1>4 DEF Obey
  <2> QED
    BY <1>1, <1>4, <2>1, <2>2 DEF Obey, LineTyped, resultVars
<1>5. CASE PrintStart
  <2> DEFINE p == [line |-> printed + 1, half |-> 1, is |-> mid']
  <2>1. mid' \in LineKinds /\ mode' \in {"run", "profile", "boot"}
    BY <1>1, <1>5 DEF PrintStart, LineKinds
  <2>2. printed + 1 \in 1..MaxLines /\ since \in 0..(printed + 1) /\ printed + 1 > 0
    BY <1>1, <1>2, <1>5 DEF PrintStart
  <2>3. p \in BoardPiece
    BY <2>1, <2>2 DEF BoardPiece
  <2> HIDE DEF p
  <2>4. rx' \in Seq(BoardPiece)
    BY <1>1, <1>5, <2>3 DEF PrintStart, p
  <2> QED
    BY <1>1, <1>2, <1>5, <2>1, <2>2, <2>4 DEF PrintStart, LineTyped, resultVars
<1>6. CASE PrintRest
  <2> DEFINE p == [line |-> printed, half |-> 2, is |-> mid]
  <2>1. mid \in LineKinds /\ printed \in 1..MaxLines
    BY <1>1, <1>2, <1>6 DEF PrintRest
  <2>2. p \in BoardPiece
    BY <2>1 DEF BoardPiece
  <2> HIDE DEF p
  <2>3. rx' \in Seq(BoardPiece)
    BY <1>1, <1>6, <2>2 DEF PrintRest, p
  <2> QED
    BY <1>1, <1>6, <2>3 DEF PrintRest, LineTyped, resultVars
<1>7. CASE Reads
  BY <1>1, <1>2, <1>7 DEF Reads, Poll, DropReply, LineTyped, boardVars, resultVars
<1>8. CASE StartProfile \/ BeginTrace \/ StopProfile
  <2>1. printed \in 0..printed
    BY <1>2
  <2> QED
    BY <1>1, <1>2, <1>3, <1>8, <2>1
    DEF StartProfile, BeginTrace, StopProfile, Command, BeginRead, LineTyped, boardVars, resultVars,
        Places, Collecting, Dropping
<1>9. CASE JudgeTrace
  <2>1. timing' \in TimingType
    BY <1>9, JudgedIsFresh
  <2>2. UNCHANGED <<kind, mode, mid, printed, inbox, rx, since, rest, records>>
        /\ wire' = "suites over" /\ text' = <<>>
    BY <1>9 DEF JudgeTrace, boardVars
  <2> QED
    BY <1>1, <1>2, <2>1, <2>2 DEF LineTyped, Places
<1>10. CASE ProfileRaises
  <2>1. timing' \in TimingType
    <3>1. PICK passed \in BOOLEAN : Synthetic(passed)
      BY <1>10 DEF ProfileRaises
    <3> QED
      BY <3>1 DEF Synthetic, TimingType
  <2>2. UNCHANGED <<kind, mode, mid, printed, inbox, rx, since, rest, records>>
        /\ wire' = "suites over" /\ text' = <<>>
    BY <1>10 DEF ProfileRaises, boardVars
  <2> QED
    BY <1>1, <1>2, <2>1, <2>2 DEF LineTyped, Places
<1>11. CASE OpenLine \/ ResetBoard \/ BeginCapture \/ CaptureRaises
  <2>1. <<>> \in Seq({"start", "stop", "status"})
    OBVIOUS
  <2> QED
    BY <1>1, <1>2, <1>11, <2>1
    DEF OpenLine, ResetBoard, BeginCapture, CaptureRaises, BeginRead, LineTyped, boardVars, resultVars,
        Places, Collecting
<1>12. CASE AskStatus
  <2>1. records' \in Seq(RecordType) /\ rest' \in Seq(BoardPiece)
    BY <1>12, AskStatusCuts
  <2>2. /\ UNCHANGED <<kind, mode, mid, printed, since, timing>> /\ wire' = "status reply"
        /\ text' = rx /\ rx' = <<>> /\ inbox' = Append(inbox, "status")
    BY <1>12 DEF AskStatus, Command, BeginRead
  <2> QED
    BY <1>1, <1>2, <1>3, <2>1, <2>2 DEF LineTyped, Places, Collecting
<1>13. CASE EndCapture
  <2>1. records' \in Seq(RecordType) /\ rest' \in Seq(BoardPiece)
    BY <1>13, EndCaptureParses
  <2>2. /\ UNCHANGED <<kind, mode, mid, printed, inbox, rx, since, timing>>
        /\ wire' = "over" /\ text' = <<>>
    BY <1>13 DEF EndCapture, boardVars
  <2> QED
    BY <1>1, <1>2, <2>1, <2>2 DEF LineTyped, Places
<1>14. CASE PassOn \/ CloseProfile
  <2>1. 0 \in 0..printed
    BY <1>2
  <2> QED
    BY <1>1, <1>2, <1>14, <2>1 DEF PassOn, CloseProfile, LineTyped, Places, boardVars, resultVars
<1>15. CASE UNCHANGED lineVars
  BY <1>1, <1>15 DEF lineVars, LineTyped
<1> QED
  BY <1>4, <1>5, <1>6, <1>7, <1>8, <1>9, <1>10, <1>11, <1>12, <1>13, <1>14, <1>15
  DEF LineSteps, Board, ProfileSteps, CaptureSteps

LEMMA NothingYetKept ==
  ASSUME LineInv, LineSteps PROVE NothingYet'
<1>1. /\ kind = "mute" => rx = <<>> /\ text = <<>> /\ mid = "none"
      /\ wire \in {"idle", "start", "start reply", "suites over", "flash", "ready"} => text = <<>>
      /\ wire \notin {"status reply", "over", "raised"} => rest = <<>> /\ records = <<>>
      /\ mode = "boot" => wire \in {"ready", "capture", "status reply", "over", "raised"}
      /\ mode = "boot" => inbox \in Seq({"status"})
  BY DEF LineInv, NothingYet
<1>2. mode = "boot" => Append(inbox, "status") \in Seq({"status"})
  <2>1. \A s \in Seq({"status"}) : Append(s, "status") \in Seq({"status"})
    OBVIOUS
  <2> QED
    BY <1>1, <2>1
<1>3. CASE Obey
  <2>1. mode = "boot" => Head(inbox) = "status" /\ Tail(inbox) \in Seq({"status"})
    <3>1. \A s \in Seq({"status"}) : s # <<>> => Head(s) = "status" /\ Tail(s) \in Seq({"status"})
      OBVIOUS
    <3> QED
      BY <1>1, <1>3, <3>1 DEF Obey
  <2> QED
    BY <1>1, <1>3, <2>1 DEF Obey, NothingYet, resultVars
<1>4. CASE PrintStart \/ PrintRest
  BY <1>1, <1>4 DEF PrintStart, PrintRest, NothingYet, resultVars
<1>5. CASE Reads
  BY <1>1, <1>5 DEF Reads, Poll, DropReply, Collecting, Dropping, NothingYet, boardVars, resultVars
<1>6. CASE ProfileSteps
  BY <1>1, <1>6
  DEF ProfileSteps, StartProfile, BeginTrace, StopProfile, JudgeTrace, ProfileRaises, Profiling,
      Command, BeginRead, NothingYet, boardVars, resultVars
<1>7. CASE OpenLine \/ BeginCapture \/ CaptureRaises \/ EndCapture
  BY <1>1, <1>7
  DEF OpenLine, BeginCapture, CaptureRaises, EndCapture, BeginRead, NothingYet, boardVars, resultVars
<1>8. CASE ResetBoard
  <2>1. <<>> \in Seq({"status"})
    OBVIOUS
  <2> QED
    BY <1>1, <1>8, <2>1 DEF ResetBoard, NothingYet, resultVars
<1>9. CASE AskStatus
  BY <1>1, <1>2, <1>9 DEF AskStatus, Command, BeginRead, NothingYet
<1>10. CASE PassOn \/ CloseProfile
  BY <1>1, <1>10 DEF PassOn, CloseProfile, NothingYet, boardVars, resultVars
<1>11. CASE UNCHANGED lineVars
  BY <1>1, <1>11 DEF lineVars, NothingYet
<1> QED
  BY <1>3, <1>4, <1>5, <1>6, <1>7, <1>8, <1>9, <1>10, <1>11
  DEF LineSteps, Board, CaptureSteps

LEMMA TimingFitsKept ==
  ASSUME LineInv, LineSteps PROVE TimingFits'
<1>1. TimingFits
  BY DEF LineInv
<1>2. CASE JudgeTrace
  <2>1. TimingIsOfThisProfile' /\ wire' = "suites over"
    BY <1>2, JudgedIsFresh DEF JudgeTrace
  <2> QED
    BY <2>1 DEF TimingFits
<1>3. CASE ProfileRaises
  <2>1. timing'.origin = "simulator" /\ wire' = "suites over"
    <3>1. PICK passed \in BOOLEAN : Synthetic(passed)
      BY <1>3 DEF ProfileRaises
    <3> QED
      BY <1>3, <3>1 DEF ProfileRaises, Synthetic
  <2> QED
    BY <2>1 DEF TimingFits, TimingIsOfThisProfile
<1>4. CASE StartProfile
  <2>1. timing'.origin = "none" /\ wire' = "start reply"
    <3>1. timing' = NoTiming /\ wire' = "start reply"
      BY <1>1, <1>4 DEF StartProfile, TimingFits
    <3>2. NoTiming.origin = "none"
      BY DEF NoTiming
    <3> QED
      BY <3>1, <3>2
  <2> QED
    BY <2>1 DEF TimingFits, TimingIsOfThisProfile
<1>5. CASE CloseProfile
  BY <1>1, <1>5 DEF CloseProfile, TimingFits, TimingIsOfThisProfile, NoTiming
<1>6. ASSUME UNCHANGED <<kind, since, timing>>, wire' \in {"idle", "start"} => wire \in {"idle", "start"}
      PROVE  TimingFits'
  BY <1>1, <1>6 DEF TimingFits, TimingIsOfThisProfile
<1>7. CASE Board \/ Reads
  BY <1>6, <1>7 DEF Board, Obey, PrintStart, PrintRest, Reads, Poll, DropReply, boardVars, resultVars
<1>8. CASE BeginTrace \/ StopProfile \/ CaptureSteps \/ PassOn
  BY <1>6, <1>8
  DEF BeginTrace, StopProfile, CaptureSteps, OpenLine, ResetBoard, BeginCapture, AskStatus, EndCapture,
      CaptureRaises, PassOn, BeginRead, Command, boardVars, resultVars
<1>9. CASE UNCHANGED lineVars
  BY <1>6, <1>9 DEF lineVars
<1> QED
  BY <1>2, <1>3, <1>4, <1>5, <1>7, <1>8, <1>9 DEF LineSteps, ProfileSteps

\* Pieces that are fresh, and one more, or the first of them.
Fresh(pieces, from) ==
  \A i \in DOMAIN pieces : pieces[i].line > from \/ (i = 1 /\ pieces[i].half = 2)

LEMMA FreshMore ==
  ASSUME NEW A \in Seq(BoardPiece), NEW p \in BoardPiece, NEW from, Fresh(A, from),
         p.line > from \/ (A = <<>> /\ p.half = 2)
  PROVE  Fresh(Append(A, p), from)
<1> DEFINE u == Append(A, p)
           n == Len(A)
<1>1. /\ n \in Nat /\ DOMAIN u = 1..(n + 1) /\ u[n + 1] = p /\ \A i \in 1..n : u[i] = A[i]
      /\ DOMAIN A = 1..n
      /\ A = <<>> => n = 0
  OBVIOUS
<1> HIDE DEF u, n
<1>2. ASSUME NEW i \in DOMAIN u PROVE u[i].line > from \/ (i = 1 /\ u[i].half = 2)
  <2>1. CASE i = n + 1
    BY <1>1, <2>1
  <2>2. CASE i # n + 1
    BY <1>1, <2>2 DEF Fresh
  <2> QED
    BY <2>1, <2>2
<1> QED
  BY <1>2 DEF Fresh, u

LEMMA FreshFirst ==
  ASSUME NEW A \in Seq(BoardPiece), NEW B \in Seq(BoardPiece), NEW from, Fresh(A \o B, from)
  PROVE  Fresh(A, from)
<1>1. /\ Len(A \o B) = Len(A) + Len(B) /\ Len(A) \in Nat /\ Len(B) \in Nat
      /\ \A i \in 1..Len(A) : (A \o B)[i] = A[i]
      /\ A \o B \in Seq(BoardPiece)
  BY Joining
<1>2. DOMAIN A = 1..Len(A) /\ DOMAIN (A \o B) = 1..Len(A \o B)
  BY <1>1
<1>3. ASSUME NEW i \in DOMAIN A PROVE i \in DOMAIN (A \o B) /\ A[i] = (A \o B)[i]
  BY <1>1, <1>2
<1> QED
  BY <1>3 DEF Fresh

\* One piece more at the end of what was put together.
LEMMA JoinMore ==
  ASSUME NEW A \in Seq(BoardPiece), NEW B \in Seq(BoardPiece), NEW p \in BoardPiece
  PROVE  A \o Append(B, p) = Append(A \o B, p)
<1>1. A \o B \in Seq(BoardPiece) /\ <<p>> \in Seq(BoardPiece)
  BY Joining
<1>2. Append(B, p) = B \o <<p>>
  BY AppendIsConcat
<1>3. Append(A \o B, p) = (A \o B) \o <<p>>
  BY <1>1, AppendIsConcat
<1>4. (A \o B) \o <<p>> = A \o (B \o <<p>>)
  BY <1>1, ConcatAssociative
<1> QED
  BY <1>2, <1>3, <1>4

LEMMA FreshAnswerKept ==
  ASSUME LineInv, LineSteps PROVE FreshAnswer'
<1> DEFINE answer == text \o rx
           told == wire \in {"start reply", "trace", "stop reply"}
<1>1. /\ text \in Seq(BoardPiece) /\ rx \in Seq(BoardPiece)
      /\ printed \in 0..MaxLines /\ since \in 0..printed /\ mid \in LineKinds \cup {"none"}
      /\ wire = "start reply" => text = <<>>
  BY DEF LineInv, LineTyped, NothingYet
<1>0. /\ printed \in Nat /\ since \in Nat /\ since <= printed /\ MaxLines \in Nat
      /\ printed <= MaxLines
  <2>1. printed \in 0..MaxLines /\ since \in 0..printed
    BY DEF LineInv, LineTyped
  <2> HIDE DEF answer, told
  <2> QED
    BY <2>1, LineAssumption
<1>2. told => Fresh(answer, since) /\ (mid # "none" /\ printed = since => answer = <<>>)
  BY DEF LineInv, FreshAnswer, Fresh
<1>3. /\ answer \in Seq(BoardPiece) /\ text \o <<>> = text /\ rx \o <<>> = rx /\ <<>> \o rx = rx
      /\ answer \o <<>> = answer
  <2>1. answer \in Seq(BoardPiece)
    BY <1>1, Joining
  <2> HIDE DEF answer
  <2> QED
    BY <1>1, <2>1, ConcatEmptySeq
<1>4. answer = <<>> => text = <<>>
  <2>1. Len(answer) = Len(text) + Len(rx) /\ Len(text) \in Nat /\ Len(rx) \in Nat
    BY <1>1, Joining
  <2>2. answer = <<>> => Len(text) = 0
    <3>1. answer = <<>> => Len(answer) = 0
      OBVIOUS
    <3> HIDE DEF answer
    <3> QED
      BY <2>1, <3>1
  <2> QED
    BY <1>1, <2>2
<1> HIDE DEF answer
<1>5. ASSUME told' => /\ Fresh((text \o rx)', since')
                      /\ mid' # "none" /\ printed' = since' => (text \o rx)' = <<>>
      PROVE  FreshAnswer'
  BY <1>5 DEF FreshAnswer, Fresh
<1>6. CASE Obey \/ UNCHANGED lineVars
  <2>1. UNCHANGED <<wire, mid, printed, since, text, rx>>
    BY <1>6 DEF Obey, lineVars, resultVars
  <2> QED
    BY <1>2, <1>5, <2>1 DEF answer
<1>7. CASE PrintStart
  <2>0. printed < MaxLines /\ mid' \in LineKinds
    BY <1>7 DEF PrintStart, LineKinds
  <2>4. printed + 1 \in 1..MaxLines /\ printed + 1 > since /\ printed + 1 # since
    BY <1>0, <2>0
  <2> DEFINE p == [line |-> printed + 1, half |-> 1, is |-> mid']
  <2>1. /\ wire' = wire /\ since' = since /\ printed' = printed + 1
        /\ text' = text /\ rx' = Append(rx, p)
    BY <1>7 DEF PrintStart, resultVars
  <2>2. p \in BoardPiece /\ p.line > since /\ printed' # since
    BY <2>0, <2>1, <2>4 DEF BoardPiece
  <2> HIDE DEF p
  <2>3. (text \o rx)' = Append(answer, p)
    BY <1>1, <2>1, <2>2, JoinMore DEF answer
  <2> QED
    BY <1>2, <1>3, <1>5, <2>1, <2>2, <2>3, FreshMore
<1>8. CASE PrintRest
  <2>0. mid \in LineKinds /\ printed \in 1..MaxLines /\ (printed # since => printed > since)
    <3>1. mid # "none" /\ printed > 0
      BY <1>8 DEF PrintRest, LineInv, LineTyped
    <3>2. printed # since => printed > since
      BY <1>0
    <3>4. mid \in LineKinds
      BY <1>1, <3>1
    <3>3. printed \in 1..MaxLines
      BY <1>0, <3>1
    <3> QED
      BY <3>2, <3>3, <3>4
  <2> DEFINE p == [line |-> printed, half |-> 2, is |-> mid]
  <2>1. /\ wire' = wire /\ since' = since /\ printed' = printed /\ mid # "none" /\ mid' = "none"
        /\ text' = text /\ rx' = Append(rx, p)
    BY <1>8 DEF PrintRest, resultVars
  <2>2. p \in BoardPiece /\ p.half = 2 /\ p.line = printed
    BY <2>0 DEF BoardPiece
  <2> HIDE DEF p
  <2>3. (text \o rx)' = Append(answer, p)
    BY <1>1, <2>1, <2>2, JoinMore DEF answer
  <2>4. told => p.line > since \/ (answer = <<>> /\ p.half = 2)
    BY <1>2, <2>0, <2>1, <2>2
  <2> QED
    BY <1>2, <1>3, <1>5, <2>1, <2>2, <2>3, <2>4, FreshMore
<1>9. CASE Poll
  <2>1. (text \o rx)' = answer /\ UNCHANGED <<wire, mid, printed, since>>
    BY <1>3, <1>9 DEF Poll, boardVars, resultVars, answer
  <2> QED
    BY <1>2, <1>5, <2>1
<1>10. CASE DropReply \/ StopProfile
  <2>1. (text \o rx)' = text /\ UNCHANGED <<mid, printed, since>> /\ told
    BY <1>3, <1>10 DEF DropReply, StopProfile, Command, boardVars, resultVars, Dropping
  <2>2. Fresh(text, since)
    BY <1>1, <1>2, <2>1, FreshFirst DEF answer
  <2> QED
    BY <1>2, <1>4, <1>5, <2>1, <2>2
<1>11. CASE StartProfile
  <2>1. text' = <<>> /\ rx' = <<>>
    BY <1>11 DEF StartProfile, LineInv, NothingYet
  <2>2. (text \o rx)' = <<>>
    BY <2>1
  <2> QED
    BY <1>5, <2>2 DEF Fresh
<1>12. CASE BeginTrace
  <2>1. (text \o rx)' = answer /\ UNCHANGED <<mid, printed, since>> /\ told
    BY <1>1, <1>3, <1>12 DEF BeginTrace, BeginRead, boardVars, resultVars, answer
  <2> QED
    BY <1>2, <1>5, <2>1
<1>13. CASE JudgeTrace \/ ProfileRaises \/ CaptureSteps \/ PassOn \/ CloseProfile
  <2>1. ~told'
    BY <1>13
    DEF JudgeTrace, ProfileRaises, CaptureSteps, OpenLine, ResetBoard, BeginCapture, AskStatus,
        EndCapture, CaptureRaises, BeginRead, PassOn, CloseProfile
  <2> QED
    BY <1>5, <2>1
<1> QED
  BY <1>6, <1>7, <1>8, <1>9, <1>10, <1>11, <1>12, <1>13 DEF LineSteps, Board, Reads, ProfileSteps

LEMMA TelemetryIsWholeKept ==
  ASSUME LineInv, LineSteps PROVE TelemetryIsWhole'
<1>1. CASE AskStatus
  <2>1. Sound(records')
    BY <1>1, AskStatusCuts
  <2> QED
    BY <2>1 DEF Sound, WithoutGap, TelemetryIsWhole
<1>2. CASE EndCapture
  BY <1>2, EndCaptureParses
<1>3. CASE UNCHANGED records
  BY <1>3 DEF LineInv, TelemetryIsWhole
<1>4. ~AskStatus /\ ~EndCapture => UNCHANGED records
  BY DEF LineSteps, Board, Obey, PrintStart, PrintRest, Reads, Poll, DropReply, ProfileSteps,
         StartProfile, BeginTrace, StopProfile, JudgeTrace, ProfileRaises, CaptureSteps, OpenLine,
         ResetBoard, BeginCapture, CaptureRaises, PassOn, CloseProfile, resultVars, lineVars
<1> QED
  BY <1>1, <1>2, <1>3, <1>4

LEMMA StreamMore ==
  ASSUME NEW S \in Seq(BoardPiece), NEW p \in BoardPiece, Continuous(S),
         S # <<>> => Continues(S[Len(S)], p)
  PROVE  /\ Continuous(Append(S, p)) /\ Append(S, p) # <<>>
         /\ Append(S, p)[Len(Append(S, p))] = p
         /\ Append(S, p)[1] = IF S = <<>> THEN p ELSE S[1]
<1> DEFINE u == Append(S, p)
           n == Len(S)
<1>1. /\ n \in Nat /\ Len(u) = n + 1 /\ u[n + 1] = p /\ \A i \in 1..n : u[i] = S[i]
      /\ S = <<>> <=> n = 0
      /\ u # <<>>
  OBVIOUS
<1> HIDE DEF u
<1>2. ASSUME NEW i \in 1..(Len(u) - 1) PROVE Continues(u[i], u[i + 1])
  <2>1. CASE i = n
    <3>1. S # <<>> /\ u[i] = S[n] /\ u[i + 1] = p
      BY <1>1, <2>1
    <3> QED
      BY <3>1
  <2>2. CASE i # n
    <3>1. i \in 1..(n - 1) /\ u[i] = S[i] /\ u[i + 1] = S[i + 1]
      BY <1>1, <2>2
    <3> QED
      BY <3>1 DEF Continuous
  <2> QED
    BY <2>1, <2>2
<1>3. u[1] = IF S = <<>> THEN p ELSE S[1]
  <2> HIDE DEF n
  <2> QED
    BY <1>1
<1> QED
  BY <1>1, <1>2, <1>3 DEF Continuous, u

Capturing == wire \in {"flash", "ready", "capture", "status reply"}

\* The board prints while the capture goes on.
LEMMA PrintedIsCaptured ==
  ASSUME LineInv, Capturing, PrintStart \/ PrintRest PROVE CaptureFits'
<1> DEFINE half == IF PrintStart THEN 1 ELSE 2
           line == IF PrintStart THEN printed + 1 ELSE printed
           is == IF PrintStart THEN mid' ELSE mid
           p == [line |-> line, half |-> half, is |-> is]
<1> HIDE DEF half, line, is, p
<1>1. /\ rx \in Seq(BoardPiece) /\ text \in Seq(BoardPiece) /\ rest \in Seq(BoardPiece)
      /\ printed \in 0..MaxLines /\ mid \in LineKinds \cup {"none"} /\ (mid # "none" => printed > 0)
      /\ Continuous(Stream) /\ LastPrinted /\ AllParsed /\ Joined(records, Stream) /\ Sound(records)
  BY DEF LineInv, LineTyped, CaptureFits, Capturing
<1>2. printed \in Nat /\ MaxLines \in Nat /\ printed <= MaxLines
  BY <1>1, LineAssumption
<1>3. /\ UNCHANGED <<rest, text, wire, records>> /\ printed' = line /\ rx' = Append(rx, p)
      /\ PrintStart => /\ mid = "none" /\ mid' = is /\ is \in LineKinds /\ is # "none" /\ half = 1
                       /\ line = printed + 1 /\ printed < MaxLines
                       /\ mode = "boot" => is = "boot"
      /\ ~PrintStart => /\ mid # "none" /\ mid' = "none" /\ is = mid /\ half = 2 /\ line = printed
  <2>1. CASE PrintStart
    BY <2>1 DEF PrintStart, resultVars, LineKinds, half, line, is, p
  <2>2. CASE ~PrintStart
    BY <2>2 DEF PrintRest, resultVars, half, line, is, p
  <2> QED
    BY <2>1, <2>2
<1>4. p \in BoardPiece /\ p.line = line /\ p.half = half /\ p.is = is
  <2>1. half \in {1, 2} /\ is \in LineKinds
    BY <1>1, <1>3
  <2>2. line \in 1..MaxLines
    BY <1>1, <1>2, <1>3
  <2> QED
    BY <2>1, <2>2 DEF BoardPiece, p
<1>5. Stream \in Seq(BoardPiece) /\ Stream' = Append(Stream, p)
  <2>1. rest \o text \in Seq(BoardPiece) /\ Stream \in Seq(BoardPiece)
    BY <1>1, Joining DEF Stream
  <2>2. Stream' = (rest \o text) \o Append(rx, p)
    BY <1>3 DEF Stream
  <2> QED
    BY <1>1, <1>4, <2>1, <2>2, JoinMore DEF Stream
<1>6. Stream # <<>> => Continues(Stream[Len(Stream)], p)
  <2>1. ASSUME Stream # <<>> PROVE Continues(Stream[Len(Stream)], p)
    <3> DEFINE q == Stream[Len(Stream)]
    <3>1. /\ q.line = printed
          /\ mid # "none" => q.half = 1 /\ q.is = mid
          /\ mid = "none" => q.half = 2 \/ mode = "boot"
      BY <1>1, <2>1 DEF LastPrinted
    <3> HIDE DEF q
    <3>2. Continues(q, p)
      BY <1>3, <1>4, <3>1 DEF Continues
    <3> QED
      BY <3>2 DEF q
  <2> QED
    BY <2>1
<1>7. /\ Continuous(Stream') /\ Stream' # <<>> /\ Stream'[Len(Stream')] = p
      /\ Stream'[1] = IF Stream = <<>> THEN p ELSE Stream[1]
  BY <1>1, <1>4, <1>5, <1>6, StreamMore
<1>8. LastPrinted'
  BY <1>3, <1>4, <1>7 DEF LastPrinted
<1>9. Joined(records', Stream')
  <2>1. CASE Stream = <<>>
    <3>1. records # <<>> => PrintStart /\ records[Len(records)].line = printed
      BY <1>1, <1>3, <2>1 DEF AllParsed
    <3> QED
      BY <1>3, <1>4, <1>7, <2>1, <3>1 DEF Joined, Follows
  <2>2. CASE Stream # <<>>
    BY <1>1, <1>3, <1>7, <2>2 DEF Joined
  <2> QED
    BY <2>1, <2>2
<1> QED
  BY <1>1, <1>3, <1>7, <1>8, <1>9 DEF CaptureFits, AllParsed

\* What is parsed in the middle of the capture, and what is left.
LEMMA AskStatusFits ==
  ASSUME LineInv, AskStatus PROVE CaptureFits'
<1>1. /\ rx \in Seq(BoardPiece) /\ text \in Seq(BoardPiece) /\ rest \in Seq(BoardPiece)
      /\ Continuous(Stream) /\ LastPrinted
  BY DEF LineInv, LineTyped, CaptureFits, AskStatus
<1>2. UNCHANGED <<mid, mode, printed>>
  BY DEF AskStatus, Command
<1>3. Stream \in Seq(BoardPiece)
  BY <1>1, Joining DEF Stream
<1>4. PICK m \in 0..Len(Stream) :
         /\ Len(Stream') = Len(Stream) - m
         /\ \A k \in 1..Len(Stream') : Stream'[k] = Stream[m + k]
         /\ m = 0 => records' = <<>>
         /\ m > 0 => /\ Stream[m].half = 2
                     /\ records' # <<>> /\ records'[Len(records')].line = Stream[m].line
  BY AskStatusCuts
<1>5. rest' \o text' \o rx' \in Seq(BoardPiece)
  <2>1. rest' \in Seq(BoardPiece)
    BY AskStatusCuts
  <2>2. text' = rx /\ rx' = <<>>
    BY DEF AskStatus, BeginRead
  <2>3. <<>> \in Seq(BoardPiece)
    OBVIOUS
  <2> QED
    BY <1>1, <2>1, <2>2, <2>3, Joining
<1>6. Sound(records')
  BY AskStatusCuts
<1> DEFINE S == Stream
           T == Stream'
<1>7. S \in Seq(BoardPiece) /\ T \in Seq(BoardPiece)
  BY <1>3, <1>5 DEF Stream
<1>8. /\ Len(T) = Len(S) - m /\ \A k \in 1..Len(T) : T[k] = S[m + k]
      /\ Continuous(S)
  BY <1>1, <1>4
<1> HIDE DEF S, T
<1>9. /\ Len(S) \in Nat /\ Len(T) \in Nat /\ m \in Nat /\ m <= Len(S)
      /\ \A i \in 1..Len(S) : S[i].half \in {1, 2}
      /\ T = <<>> <=> Len(T) = 0
      /\ S = <<>> <=> Len(S) = 0
  <2>1. m \in Nat /\ m <= Len(S)
    BY <1>4, <1>7 DEF S
  <2>2. \A i \in 1..Len(S) : S[i] \in BoardPiece
    BY <1>7
  <2> QED
    BY <1>7, <2>1, <2>2 DEF BoardPiece
<1>10. Continuous(T)
  <2>1. ASSUME NEW i \in 1..(Len(T) - 1) PROVE Continues(T[i], T[i + 1])
    <3>1. /\ i \in 1..Len(T) /\ i + 1 \in 1..Len(T) /\ m + i \in 1..(Len(S) - 1)
          /\ m + (i + 1) = (m + i) + 1
      BY <1>8, <1>9
    <3> QED
      BY <1>8, <3>1 DEF Continuous
  <2> QED
    BY <2>1 DEF Continuous
<1>11. T # <<>> => S # <<>> /\ T[Len(T)] = S[Len(S)]
  <2>1. T # <<>> => Len(T) \in 1..Len(T) /\ m + Len(T) = Len(S) /\ Len(S) # 0
    BY <1>8, <1>9
  <2> QED
    BY <1>8, <1>9, <2>1
<1>12. LastPrinted'
  BY <1>1, <1>2, <1>11 DEF LastPrinted, S, T
<1>13. AllParsed'
  <2>1. ASSUME records' # <<>>, T = <<>>
        PROVE  mid = "none" /\ records'[Len(records')].line = printed
    <3>1. m = Len(S) /\ m > 0 /\ S # <<>>
      BY <1>4, <1>8, <1>9, <2>1
    <3>2. S[Len(S)].half = 2 /\ records'[Len(records')].line = S[Len(S)].line
      BY <1>4, <3>1 DEF S
    <3> QED
      BY <1>1, <3>1, <3>2 DEF LastPrinted, S
  <2> QED
    BY <1>2, <2>1 DEF AllParsed, T
<1>14. Joined(records', T)
  <2>1. ASSUME records' # <<>>, T # <<>>
        PROVE  T[1].half = 1 /\ T[1].line = records'[Len(records')].line + 1
    <3>1. m > 0 /\ S[m].half = 2 /\ records'[Len(records')].line = S[m].line
      BY <1>4, <1>9, <2>1 DEF S
    <3>2. 1 \in 1..Len(T) /\ m \in 1..(Len(S) - 1) /\ m + 1 \in 1..Len(S)
      BY <1>8, <1>9, <2>1, <3>1
    <3>3. Continues(S[m], T[1]) /\ T[1].half \in {1, 2}
      BY <1>8, <1>9, <3>2 DEF Continuous
    <3> QED
      BY <3>1, <3>3 DEF Continues
  <2> QED
    BY <2>1 DEF Joined, Follows
<1> QED
  BY <1>6, <1>10, <1>12, <1>13, <1>14 DEF CaptureFits, T

LEMMA CaptureFitsKept ==
  ASSUME LineInv, LineSteps PROVE CaptureFits'
<1>1. /\ rx \in Seq(BoardPiece) /\ text \in Seq(BoardPiece) /\ rest \in Seq(BoardPiece)
      /\ Capturing =>
           Continuous(Stream) /\ LastPrinted /\ AllParsed /\ Joined(records, Stream) /\ Sound(records)
  BY DEF LineInv, LineTyped, CaptureFits, Capturing
<1>2. /\ \A s \in Seq(BoardPiece) : s \o <<>> = s /\ <<>> \o s = s
      /\ Stream \in Seq(BoardPiece)
  BY <1>1, ConcatEmptySeq, Joining DEF Stream
<1>3. ASSUME ~Capturing' PROVE CaptureFits'
  BY <1>3 DEF CaptureFits, Capturing
<1>4. ASSUME Capturing, Stream' = Stream, UNCHANGED <<mid, printed, records>>,
             mode = "boot" => mode' = "boot"
      PROVE  CaptureFits'
  BY <1>1, <1>4 DEF CaptureFits, LastPrinted, AllParsed
<1>5. CASE Capturing' /\ Obey
  <2>1. mode = "boot" => mode' = "boot"
    <3>1. mode = "boot" => Head(inbox) = "status"
      <4>1. \A s \in Seq({"status"}) : s # <<>> => Head(s) = "status"
        OBVIOUS
      <4> QED
        BY <1>5, <4>1 DEF Obey, LineInv, NothingYet
    <3> QED
      BY <1>5, <3>1 DEF Obey
  <2>2. UNCHANGED <<wire, rest, text, rx, mid, printed, records>>
    BY <1>5 DEF Obey, resultVars
  <2>3. Stream' = Stream /\ Capturing
    BY <1>5, <2>2 DEF Stream, Capturing
  <2> QED
    BY <1>4, <2>1, <2>2, <2>3
<1>6. CASE Capturing' /\ (PrintStart \/ PrintRest)
  <2>1. Capturing
    BY <1>6 DEF PrintStart, PrintRest, Capturing
  <2> QED
    BY <1>6, <2>1, PrintedIsCaptured
<1>7. CASE Capturing' /\ Poll
  <2>1. /\ UNCHANGED <<wire, mode, mid, printed, rest, records>>
        /\ text' = text \o rx /\ rx' = <<>>
    BY <1>7 DEF Poll, boardVars, resultVars
  <2>2. Stream' = Stream
    <3>1. text \o rx \in Seq(BoardPiece)
      BY <1>1, Joining
    <3>2. rest \o (text \o rx) = (rest \o text) \o rx
      BY <1>1, ConcatAssociative
    <3>3. Stream' = (rest \o (text \o rx)) \o <<>>
      BY <2>1 DEF Stream
    <3> QED
      BY <1>2, <3>2, <3>3 DEF Stream
  <2> QED
    BY <1>4, <1>7, <2>1, <2>2 DEF Capturing
<1>8. CASE DropReply \/ ProfileSteps \/ PassOn \/ CloseProfile \/ EndCapture \/ CaptureRaises
  <2>1. ~Capturing'
    BY <1>8
    DEF DropReply, Dropping, ProfileSteps, StartProfile, BeginTrace, StopProfile, JudgeTrace,
        ProfileRaises, BeginRead, PassOn, CloseProfile, EndCapture, CaptureRaises, Capturing
  <2> QED
    BY <1>3, <2>1
<1>9. CASE OpenLine
  <2>1. text' = <<>> /\ rx' = <<>> /\ rest' = <<>> /\ records' = <<>>
    BY <1>9 DEF OpenLine, boardVars, resultVars, LineInv, NothingYet
  <2>2. Stream' = <<>>
    BY <2>1 DEF Stream
  <2> QED
    <3>1. Continuous(<<>>) /\ Joined(<<>>, <<>>) /\ Sound(<<>>)
      BY DEF Continuous, Joined, Sound, WithoutGap
    <3>2. LastPrinted' /\ AllParsed'
      BY <2>1, <2>2 DEF LastPrinted, AllParsed
    <3> QED
      BY <2>1, <2>2, <3>1, <3>2 DEF CaptureFits
<1>10. CASE ResetBoard
  <2>1. /\ Capturing /\ UNCHANGED <<printed, rest, text, rx, records>> /\ records = <<>>
        /\ mid' = "none" /\ mode' = "boot"
    BY <1>10 DEF ResetBoard, resultVars, LineInv, NothingYet, Capturing
  <2>2. Stream' = Stream
    BY <2>1 DEF Stream
  <2> QED
    BY <1>1, <2>1, <2>2 DEF CaptureFits, LastPrinted, AllParsed
<1>11. CASE BeginCapture
  <2>1. /\ Capturing /\ UNCHANGED <<mode, mid, printed, rest, records>>
        /\ text = <<>> /\ rest = <<>> /\ text' = rx /\ rx' = <<>>
    BY <1>11 DEF BeginCapture, BeginRead, boardVars, resultVars, LineInv, NothingYet, Capturing
  <2>2. Stream' = rx /\ Stream = rx
    <3>1. Stream' = (<<>> \o rx) \o <<>> /\ Stream = (<<>> \o <<>>) \o rx
      BY <2>1 DEF Stream
    <3>2. <<>> \o <<>> = <<>>
      OBVIOUS
    <3> QED
      BY <1>1, <1>2, <3>1, <3>2
  <2> QED
    BY <1>4, <2>1, <2>2
<1>12. CASE AskStatus
  BY <1>12, AskStatusFits
<1>13. CASE Capturing' /\ UNCHANGED lineVars
  <2>1. UNCHANGED <<wire, mode, mid, printed, rest, text, rx, records>>
    BY <1>13 DEF lineVars
  <2>2. Stream' = Stream /\ Capturing
    BY <1>13, <2>1 DEF Stream, Capturing
  <2> QED
    BY <1>4, <2>1, <2>2
<1> QED
  BY <1>3, <1>5, <1>6, <1>7, <1>8, <1>9, <1>10, <1>11, <1>12, <1>13
  DEF LineSteps, Board, Reads, CaptureSteps

LEMMA LineNext ==
  ASSUME LineInv, LineSteps PROVE LineInv'
  BY LineTypedKept, NothingYetKept, FreshAnswerKept, TimingFitsKept, CaptureFitsKept,
     TelemetryIsWholeKept DEF LineInv

LEMMA LineInitial == LineInit => LineInv
<1> SUFFICES ASSUME LineInit PROVE LineInv
  OBVIOUS
<1> DEFINE p == [line |-> 1, half |-> 1, is |-> "task"]
<1>1. MaxLines \in Nat /\ MaxLines > 0
  BY LineAssumption
<1>2. p \in BoardPiece
  BY <1>1 DEF BoardPiece, LineKinds
<1> HIDE DEF p
<1>3. <<>> \in Seq(BoardPiece) /\ <<p>> \in Seq(BoardPiece) /\ <<>> \in Seq(RecordType)
      /\ <<>> \in Seq({"start", "stop", "status"})
  BY <1>2
<1>4. /\ kind \in {"serial", "mute"} /\ wire = "idle" /\ inbox = <<>> /\ text = <<>>
      /\ since = 0 /\ timing = NoTiming /\ rest = <<>> /\ records = <<>>
  BY DEF LineInit
<1>5. \/ mode = "run" /\ mid = "none" /\ printed = 0 /\ rx = <<>>
      \/ kind = "serial" /\ mode = "profile" /\ mid = "task" /\ printed = 1 /\ rx = <<p>>
  BY DEF LineInit, p
<1>6. NoTiming \in TimingType /\ NoTiming.origin = "none"
  BY DEF NoTiming, TimingType
<1>7. printed \in 0..MaxLines /\ since \in 0..printed
  BY <1>1, <1>4, <1>5
<1>8. rx \in Seq(BoardPiece)
  BY <1>3, <1>5
<1>9. LineTyped
  <2>1. mid \in LineKinds \cup {"none"} /\ (mid # "none" => printed > 0)
        /\ mode \in {"run", "profile", "boot"} /\ wire \in Places
    BY <1>4, <1>5 DEF LineKinds, Places
  <2> QED
    BY <1>3, <1>4, <1>6, <1>7, <1>8, <2>1 DEF LineTyped
<1>10. NothingYet
  BY <1>4, <1>5 DEF NothingYet
<1>11. FreshAnswer /\ TimingFits /\ CaptureFits
  BY <1>4, <1>6 DEF FreshAnswer, TimingFits, CaptureFits, TimingIsOfThisProfile
<1>12. TelemetryIsWhole
  BY <1>4 DEF TelemetryIsWhole
<1> QED
  BY <1>9, <1>10, <1>11, <1>12 DEF LineInv

-----------------------------------------------------------------------------
(* The pipeline run.                                                       *)

StageFits ==
  /\ stage \in {"tinyml", "hil", "rt", "telemetry"}
  /\ stage \in {"tinyml", "hil"} => wire = "idle"

BenchInv == TinyInv /\ HilInv /\ LineInv /\ StageFits

LEMMA BenchInitial == Init => BenchInv
  BY TinyInitial, HilInitial, LineInitial DEF Init, LineInit, BenchInv, StageFits

\* Each step is one of each suite's, or leaves it alone.
LEMMA BenchNext == BenchInv /\ [Next]_vars => BenchInv'
<1> SUFFICES ASSUME BenchInv, [Next]_vars PROVE BenchInv'
  OBVIOUS
<1>1. TinySteps \/ Sampler \/ ForgetTiny \/ UNCHANGED tinyVars
  BY DEF Next, vars, Tiny, AfterTiny, Hil, AfterHil, Profile, AfterProfile, Telemetry, SamplerRuns,
         BoardRuns
<1>2. HilSteps \/ ForgetHil \/ UNCHANGED hilVars
  BY DEF Next, vars, Tiny, AfterTiny, Hil, AfterHil, Profile, AfterProfile, Telemetry, SamplerRuns,
         BoardRuns
<1>3. LineSteps /\ StageFits'
  <2> USE DEF BenchInv, StageFits
  <2>1. CASE Tiny \/ Hil \/ SamplerRuns
    BY <2>1 DEF Tiny, Hil, SamplerRuns, LineSteps, lineVars
  <2>2. CASE AfterTiny
    BY <2>2 DEF AfterTiny, Abort, LineSteps, PassOn, lineVars
  <2>3. CASE AfterHil
    BY <2>3 DEF AfterHil, Abort, LineSteps, PassOn
  <2>4. CASE Profile \/ Telemetry
    BY <2>4 DEF Profile, Telemetry, LineSteps
  <2>5. CASE AfterProfile
    BY <2>5 DEF AfterProfile, LineSteps, CloseProfile
  <2>6. CASE BoardRuns
    <3>1. (Board \/ Reads) /\ UNCHANGED stage
      BY <2>6 DEF BoardRuns
    <3>2. wire' = wire
      BY <3>1
      DEF Board, Reads, Obey, PrintStart, PrintRest, Poll, DropReply, resultVars, boardVars
    <3> QED
      BY <3>1, <3>2 DEF LineSteps
  <2>7. CASE UNCHANGED vars
    BY <2>7 DEF vars, LineSteps, lineVars
  <2> QED
    BY <2>1, <2>2, <2>3, <2>4, <2>5, <2>6, <2>7 DEF Next
<1>4. TinyInv'
  BY <1>1, TinyNext DEF BenchInv
<1>5. HilInv'
  BY <1>2, HilNext DEF BenchInv
<1>6. LineInv'
  BY <1>3, LineNext DEF BenchInv
<1> QED
  BY <1>3, <1>4, <1>5, <1>6 DEF BenchInv

LEMMA BenchAlways == Spec => []BenchInv
<1>1. Init => BenchInv
  BY BenchInitial
<1>2. BenchInv /\ [Next]_vars => BenchInv'
  BY BenchNext
<1> QED
  BY <1>1, <1>2, PTL DEF Spec

\* In every state the variables of the three suites have their types.
THEOREM TypeOKAlways == Spec => []TypeOK
<1>1. BenchInv => TypeOK
  <2> SUFFICES ASSUME BenchInv PROVE TypeOK
    OBVIOUS
  <2>1. TinyTypeOK /\ HilTypeOK /\ stage \in {"tinyml", "hil", "rt", "telemetry"}
    BY DEF BenchInv, TinyInv, HilInv, StageFits
  <2>2. LineTyped
    BY DEF BenchInv, LineInv
  <2>3. \A s \in Seq(BoardPiece) : s \in Seq(Piece)
    <3>1. BoardPiece \subseteq Piece
      BY LineAssumption DEF BoardPiece, Piece
    <3> QED
      BY <3>1
  <2>4. \A i \in DOMAIN records : records[i].line \in 1..MaxLines
    <3>1. \A i \in DOMAIN records : records[i] \in RecordType
      BY <2>2 DEF LineTyped
    <3> QED
      BY <3>1 DEF RecordType
  <2>5. since \in 0..MaxLines
    BY <2>2, LineAssumption DEF LineTyped
  <2>6. LineTypeOK
    BY <2>2, <2>3, <2>4, <2>5 DEF LineTyped, LineTypeOK, TimingType, Places
  <2> QED
    BY <2>1, <2>6 DEF TypeOK
<1> QED
  BY <1>1, BenchAlways, PTL

\* What a suite passes as the device's own is of this run, whatever the
\* workload, the monitor, and what the board had printed before.
THEOREM DeviceResultsAreEarnedAlways == Spec => []DeviceResultsAreEarned
<1>1. BenchInv => DeviceResultsAreEarned
  BY DEF BenchInv, TinyInv, LineInv, TimingFits, DeviceResultsAreEarned
<1> QED
  BY <1>1, BenchAlways, PTL

\* For every recording and chain of faults, the time stamps that come out are
\* strictly increasing, every sample is accounted for, and an experiment that
\* lost all of them did not pass.
THEOREM StreamIsSoundAlways == Spec => []StreamIsSound
<1>1. BenchInv => StreamIsSound
  BY DEF BenchInv, HilInv, InOrder, Accounted, StreamIsSound
<1> QED
  BY <1>1, BenchAlways, PTL

\* However the reads cut the board's output, and wherever a reset cuts it, no
\* line between two parsed lines is missing, and only the first, the last and
\* the one that a reset broke may be parsed from less or more than a line.
THEOREM TelemetryIsWholeAlways == Spec => []TelemetryIsWhole
<1>1. BenchInv => TelemetryIsWhole
  BY DEF BenchInv, LineInv
<1> QED
  BY <1>1, BenchAlways, PTL

=============================================================================
