SPECIFICATION Spec
CONSTANTS
  NStages = 2
  Readers = {r1}
  HeartbeatInterval = 1
  StaleAfter = 1
  Ceiling = 2
  SaveMayFail = FALSE
  LookMayFail = FALSE
PROPERTY RecordedOutcomeStays
CHECK_DEADLOCK FALSE
