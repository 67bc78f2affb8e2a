SPECIFICATION Spec
CONSTANTS
  Suites = {"perf", "power"}
  Metrics = {"p99_ms", "flags"}
  Values <- MCValues
  Hint <- MCHint
  Allowance = 10
  Offered <- MCOffered
  Findings <- MCFindings
INVARIANTS
  TypeOK
  CoverageIsKept
  ReadyReportsGate
  RerunPasses
PROPERTY PromotionWithinAllowance
