SPECIFICATION Spec
CONSTANTS
  Suites <- MCSuites
  Metrics <- MCMetrics
  Values = {9, 10, 12}
  Hint <- MCHint
  Allowance = 10
  Epsilon = 1
  Artifacts <- MCArtifacts
  MaxEntries = 2
INVARIANTS
  TypeOK
  ClearedRunsPassed
  PassedRunsAreNotBlocked
  FailuresAreDiagnosed
  ComparisonAgreesWithGate
CHECK_DEADLOCK FALSE
