SPECIFICATION Spec
CONSTANTS
  Warmup = 1
  Iterations = 2
  Times <- MCTimes
  Chains <- MCChains
  Jitter = 2
  Outage <- MCOutage
  MaxLines = 4
INVARIANTS
  TypeOK
  DeviceResultsAreEarned
  StreamIsSound
  TelemetryIsWhole
PROPERTY SamplerIsReleased
CHECK_DEADLOCK FALSE
